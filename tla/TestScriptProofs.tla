-------------------------- MODULE TestScriptProofs --------------------------
(***************************************************************************)
(* Proofs about the runner of the EC test scripts: what its exit status    *)
(* and its rows say is true for every directory, every script and every    *)
(* answer of the driver.                                                   *)
(***************************************************************************)
EXTENDS TestScript, SequenceTheorems, WellFoundedInduction, TLAPS

-----------------------------------------------------------------------------
(***************************************************************************)
(* The exit status.                                                        *)
(***************************************************************************)

\* The counts of the finished files, and of the one being run.
CountInv ==
  /\ file \in 1..Len(Directory)
  /\ failed \in Nat /\ total_failed \in Nat
  /\ stage \in {"open", "run", "done"} /\ exit \in {"none", "ok", "failed", "err"}
  /\ total_failed > 0 <=> failed_files # {}
  /\ stage # "done" => exit = "none" /\ file \notin failed_files
                       /\ failed_files \subseteq 1..file
  /\ stage = "open" => bad_rows = failed_files
  /\ stage = "run" => /\ failed > 0 <=> file \in bad_rows
                      /\ bad_rows \ {file} = failed_files
  /\ ExitMeansAllPassed

(* The counts start at zero.                                               *)
LEMMA CountInit == Init => CountInv
BY DirectoryAssumption DEF Init, CountInv, ExitMeansAllPassed

(* Every step keeps the counts and the lists of files in agreement.        *)
LEMMA CountStep == CountInv /\ [Next]_vars => CountInv'
<1> SUFFICES ASSUME CountInv, [Next]_vars
             PROVE  CountInv'
  OBVIOUS
<1> USE DEF CountInv, ExitMeansAllPassed
<1>0. Len(Directory) \in Nat
  BY DirectoryAssumption
<1>1. CASE Open
  <2>1. /\ stage = "open" /\ failed' = 0 /\ bad_rows' = bad_rows
        /\ UNCHANGED <<file, total_failed, failed_files>>
        /\ \/ stage' = "run" /\ exit' = exit
           \/ stage' = "done" /\ exit' = "err"
    BY <1>1 DEF Open, Finish
  <2> QED
    BY <2>1
<1>2. CASE Unreadable
  BY <1>2 DEF Unreadable, Finish, history
<1>3. ASSUME NEW s \in Statements, Execute(s)
      PROVE  CountInv'
  <2>1. PICK ok : record(ok)
    BY <1>3 DEF Execute
  <2>2. stage = "run" /\ UNCHANGED <<file, stage, total_failed, failed_files, exit>>
    BY <1>3 DEF Execute
  <2>3. failed' \in Nat /\ (failed' > 0 <=> file \in bad_rows')
        /\ bad_rows' \ {file} = bad_rows \ {file}
    BY <2>1, <2>2 DEF record
  <2> QED
    BY <2>2, <2>3
<1>4. CASE Sleep
  BY <1>4 DEF Sleep
<1>5. CASE Close
  <2>1. /\ stage = "run" /\ lines = <<>> /\ lines' = lines
        /\ total_failed' = total_failed + failed
        /\ failed_files' = IF failed = 0 THEN failed_files ELSE failed_files \cup {file}
        /\ UNCHANGED <<failed, bad_rows>>
    BY <1>5 DEF Close, add_summary
  <2>2. /\ bad_rows' = failed_files' /\ total_failed' \in Nat
        /\ (total_failed' > 0 <=> failed_files' # {}) /\ failed_files' \subseteq 1..file
    <3>1. failed > 0 <=> failed # 0
      OBVIOUS
    <3>2. bad_rows' = failed_files'
      BY <2>1, <3>1
    <3>3. total_failed' \in Nat /\ (total_failed' > 0 <=> total_failed > 0 \/ failed > 0)
      BY <2>1
    <3>4. failed_files' # {} <=> failed_files # {} \/ failed > 0
      BY <2>1, <3>1
    <3>5. file \in 1..file
      BY <1>0
    <3> QED
      BY <2>1, <3>2, <3>3, <3>4, <3>5
  <2>3. CASE file < Len(Directory)
    <3>1. file' = file + 1 /\ stage' = "open" /\ exit' = exit
      BY <1>5, <2>3 DEF Close
    <3>2. file' \in 1..Len(Directory) /\ file' \notin failed_files'
          /\ failed_files' \subseteq 1..file'
      BY <1>0, <2>2, <2>3, <3>1
    <3> QED
      BY <2>1, <2>2, <3>1, <3>2
  <2>4. CASE ~(file < Len(Directory))
    <3>1. /\ file' = file /\ stage' = "done"
          /\ exit' = IF total_failed' > 0 THEN "failed" ELSE "ok"
      BY <1>5, <2>4 DEF Close, Finish
    <3>2. file = Len(Directory)
      BY <1>0, <2>4
    <3> QED
      BY <2>1, <2>2, <3>1, <3>2
  <2> QED
    BY <2>3, <2>4
<1>6. CASE UNCHANGED vars
  BY <1>6 DEF vars, history
<1> QED
  BY <1>1, <1>2, <1>3, <1>4, <1>5, <1>6 DEF Next

(* A run that ends with success ran every file to its end without a failed *)
(* row, one that ends with failure had one, and the failing files it lists *)
(* are those with a failed row.                                            *)
THEOREM ExitIsTruthful == Spec => []ExitMeansAllPassed
<1>1. CountInv => ExitMeansAllPassed
  BY DEF CountInv
<1> QED
  BY <1>1, CountInit, CountStep, PTL DEF Spec

-----------------------------------------------------------------------------
(***************************************************************************)
(* Decoding the driver's buffers.                                          *)
(***************************************************************************)

(* Induction on the naturals for a set, from the least element outside it. *)
LEMMA InductionOnNat ==
  ASSUME NEW S \in SUBSET Nat, 0 \in S, \A n \in S : n + 1 \in S
  PROVE  S = Nat
<1> SUFFICES ASSUME S # Nat
             PROVE  FALSE
  OBVIOUS
<1> DEFINE T == Nat \ S
<1>1. T \subseteq Nat /\ T # {}
  OBVIOUS
<1> HIDE DEF T
<1>2. \E x \in T : \A y \in T : <<y, x>> \notin OpToRel(<, Nat)
  BY <1>1, WFMin, NatLessThanWellFounded
<1>3. PICK x \in T : \A y \in T : ~(y < x)
  BY <1>1, <1>2 DEF OpToRel
<1>4. x # 0 /\ x \in Nat /\ x - 1 \in Nat
  BY <1>3 DEF T
<1>5. x - 1 \in S
  BY <1>3, <1>4 DEF T
<1>6. x - 1 + 1 \in S
  BY <1>5
<1> QED
  BY <1>3, <1>4, <1>6 DEF T

(* A running sum exists: the offsets of a buffer's arguments are such.      *)
LEMMA SumExists ==
  ASSUME NEW n \in Nat, NEW b \in Int, NEW g \in [1..n -> Int]
  PROVE  \E f \in [0..n -> Int] :
           \A i \in 0..n : f[i] = IF i = 0 THEN b ELSE f[i - 1] + g[i]
<1> DEFINE step(f, i) == IF i = 0 THEN b ELSE f[i - 1] + g[i]
           part(k) == \E f \in [0..k -> Int] : \A i \in 0..k : f[i] = step(f, i)
           good == {k \in Nat : k <= n => part(k)}
<1>1. 0 \in good
  <2>1. [i \in 0..0 |-> b] \in [0..0 -> Int]
    OBVIOUS
  <2>2. \A i \in 0..0 : [j \in 0..0 |-> b][i] = step([j \in 0..0 |-> b], i)
    OBVIOUS
  <2> QED BY <2>1, <2>2
<1>2. \A k \in good : k + 1 \in good
  <2>a. SUFFICES ASSUME NEW k \in good, k + 1 <= n PROVE part(k + 1)
    <3> HIDE DEF part
    <3> QED OBVIOUS
  <2>b. k \in Nat /\ part(k)
    <3> HIDE DEF part
    <3> QED BY <2>a
  <2>c. PICK f \in [0..k -> Int] : \A i \in 0..k : f[i] = step(f, i)
    BY <2>b DEF part
  <2> DEFINE h == [i \in 0..k+1 |-> IF i = k + 1 THEN step(f, k + 1) ELSE f[i]]
  <2>1. f[k] \in Int /\ g[k + 1] \in Int /\ k + 1 # 0 /\ k + 1 - 1 = k
    BY <2>a, <2>b, <2>c
  <2>2. step(f, k + 1) \in Int
    BY <2>1
  <2>3. h \in [0..k+1 -> Int]
    <3> HIDE DEF step
    <3> QED BY <2>b, <2>2, <2>c
  <2>4. \A i \in 0..k+1 : h[i] = step(h, i)
    <3> SUFFICES ASSUME NEW i \in 0..k+1 PROVE h[i] = step(h, i)
      OBVIOUS
    <3>1. CASE i = k + 1
      <4>1. h[i] = step(f, k + 1) /\ h[k] = f[k]
        BY <2>b, <2>1, <3>1
      <4> QED BY <3>1, <4>1, <2>1
    <3>2. CASE i # k + 1
      <4>1. i \in 0..k /\ h[i] = f[i]
        BY <2>b, <2>1, <3>2
      <4>2. i # 0 => i - 1 \in 0..k /\ h[i - 1] = f[i - 1]
        BY <2>b, <2>1, <3>2
      <4> HIDE DEF h
      <4> QED BY <2>c, <4>1, <4>2
    <3> QED BY <3>1, <3>2
  <2> QED BY <2>3, <2>4
<1>3. good = Nat
  <2> HIDE DEF good
  <2>1. good \in SUBSET Nat BY DEF good
  <2> QED BY <1>1, <1>2, <2>1, InductionOnNat
<1>4. part(n)
  <2> HIDE DEF part
  <2> QED BY <1>3
<1> QED BY <1>4

ArgType == [type : Int, len : Int, low : Int, high : Int]

(* A buffer that is accepted has a right header and, by its argument       *)
(* count, exactly its arguments: nothing is cut off, left over or made up. *)
LEMMA DecodeOk ==
  ASSUME NEW buf, buf.args \in Seq(ArgType), buf.extra \in Int,
         buf.count \in {Len(buf.args), Len(buf.args) + 1},
         AcpiEvalOutputBufferV1(buf).ok
  PROVE  /\ buf.signature /\ buf.length
         /\ buf.count = Len(buf.args) =>
              buf.extra = 0 /\ AcpiEvalOutputBufferV1(buf).v = buf.args
         /\ buf.count = Len(buf.args) + 1 => buf.extra = 8
<1> DEFINE args == buf.args
           n == Len(args)
           m == buf.count
           arg(i) == IF i <= n THEN args[i] ELSE Zeros
           up == CHOOSE f : f = [i \in 0..n |-> IF i = 0 THEN 0 ELSE f[i - 1] + ArgSize(args[i])]
           off == CHOOSE f : f = [i \in 0..m |-> IF i = 0 THEN 12 ELSE f[i - 1] + ArgSize(arg(i))]
<1>1. n \in Nat /\ m \in Nat /\ m >= n /\ (\A i \in 1..n : args[i] \in ArgType)
  BY ElementOfSeq
<1>2. \A a \in ArgType : ArgSize(a) \in Int
  BY DEF ArgSize, ArgType
<1>3. Zeros \in ArgType /\ ArgSize(Zeros) = 8
  BY DEF Zeros, ArgType, ArgSize, AcpiInteger
<1>4. /\ SizeOf(args) = up[n]
      /\ Length(buf) = 12 + up[n] + buf.extra
  BY DEF SizeOf, Length
<1>5. /\ buf.signature /\ buf.length /\ off[m] = Length(buf)
      /\ AcpiEvalOutputBufferV1(buf).v = [i \in 1..m |-> arg(i)]
  BY DEF AcpiEvalOutputBufferV1, Err, Ok
<1>6. up = [i \in 0..n |-> IF i = 0 THEN 0 ELSE up[i - 1] + ArgSize(args[i])]
  <2> DEFINE g == [i \in 1..n |-> ArgSize(args[i])]
  <2>1. g \in [1..n -> Int]
    BY <1>1, <1>2
  <2>a. \A i \in 1..n : g[i] = ArgSize(args[i])
    OBVIOUS
  <2> HIDE DEF g, n, args
  <2>b. \E f \in [0..n -> Int] : \A i \in 0..n : f[i] = IF i = 0 THEN 0 ELSE f[i - 1] + g[i]
    <3>1. 0 \in Int
      OBVIOUS
    <3> QED BY <1>1, <2>1, <3>1, SumExists
  <2>2. PICK f \in [0..n -> Int] : \A i \in 0..n : f[i] = IF i = 0 THEN 0 ELSE f[i - 1] + g[i]
    BY <2>b
  <2>3. \A i \in 0..n : f[i] = IF i = 0 THEN 0 ELSE f[i - 1] + ArgSize(args[i])
    BY <1>1, <2>2, <2>a
  <2>4. f = [i \in 0..n |-> IF i = 0 THEN 0 ELSE f[i - 1] + ArgSize(args[i])]
    BY <2>2, <2>3
  <2> QED
    BY <2>4
<1>7. off = [i \in 0..m |-> IF i = 0 THEN 12 ELSE off[i - 1] + ArgSize(arg(i))]
  <2> DEFINE g == [i \in 1..m |-> ArgSize(arg(i))]
  <2>1. g \in [1..m -> Int]
    BY <1>1, <1>2, <1>3
  <2>a. \A i \in 1..m : g[i] = ArgSize(arg(i))
    OBVIOUS
  <2> HIDE DEF g, m, arg
  <2>b. \E f \in [0..m -> Int] : \A i \in 0..m : f[i] = IF i = 0 THEN 12 ELSE f[i - 1] + g[i]
    <3>1. 12 \in Int
      OBVIOUS
    <3> QED BY <1>1, <2>1, <3>1, SumExists
  <2>2. PICK f \in [0..m -> Int] : \A i \in 0..m : f[i] = IF i = 0 THEN 12 ELSE f[i - 1] + g[i]
    BY <2>b
  <2>3. \A i \in 0..m : f[i] = IF i = 0 THEN 12 ELSE f[i - 1] + ArgSize(arg(i))
    <3> SUFFICES ASSUME NEW i \in 0..m
                 PROVE  f[i] = IF i = 0 THEN 12 ELSE f[i - 1] + ArgSize(arg(i))
      OBVIOUS
    <3>1. CASE i = 0
      BY <2>2, <3>1
    <3>2. CASE i # 0
      <4>1. i \in 1..m
        BY <1>1, <3>2
      <4>2. g[i] = ArgSize(arg(i))
        BY <2>a, <4>1
      <4> QED
        BY <2>2, <3>2, <4>2
    <3> QED
      BY <3>1, <3>2
  <2>4. f = [i \in 0..m |-> IF i = 0 THEN 12 ELSE f[i - 1] + ArgSize(arg(i))]
    BY <2>2, <2>3
  <2> QED
    BY <2>4
<1> HIDE DEF up, off
<1> DEFINE same == {k \in Nat : k <= n => up[k] \in Int /\ off[k] = 12 + up[k]}
<1>8. 0 \in same
  BY <1>1, <1>6, <1>7
<1>9. \A k \in same : k + 1 \in same
  <2> SUFFICES ASSUME NEW k \in Nat, k + 1 <= n, up[k] \in Int, off[k] = 12 + up[k]
               PROVE  up[k + 1] \in Int /\ off[k + 1] = 12 + up[k + 1]
    BY <1>1
  <2>1. k + 1 \in 1..n /\ k + 1 \in 0..n /\ k + 1 \in 0..m /\ k + 1 # 0 /\ k + 1 - 1 = k
    BY <1>1
  <2>2. arg(k + 1) = args[k + 1] /\ ArgSize(args[k + 1]) \in Int
    BY <1>1, <1>2, <2>1
  <2>3. up[k + 1] = up[k] + ArgSize(args[k + 1])
    BY <1>6, <2>1
  <2> HIDE DEF arg
  <2>4. off[k + 1] = off[k] + ArgSize(arg(k + 1))
    BY <1>7, <2>1
  <2> QED
    BY <2>2, <2>3, <2>4
<1>10. same = Nat
  <2> HIDE DEF same
  <2>1. same \in SUBSET Nat BY DEF same
  <2> QED BY <1>8, <1>9, <2>1, InductionOnNat
<1>11. up[n] \in Int /\ off[n] = 12 + up[n]
  BY <1>1, <1>10
<1>12. ASSUME m = n
       PROVE  buf.extra = 0 /\ AcpiEvalOutputBufferV1(buf).v = args
  <2>1. buf.extra = 0
    BY <1>4, <1>5, <1>11, <1>12
  <2>2. [i \in 1..m |-> arg(i)] = [i \in 1..n |-> args[i]]
    BY <1>1, <1>12
  <2>3. [i \in 1..n |-> args[i]] = args
    OBVIOUS
  <2> QED
    BY <1>5, <2>1, <2>2, <2>3
<1>13. ASSUME m = n + 1
       PROVE  buf.extra = 8
  <2>1. m \in 0..m /\ m # 0 /\ m - 1 = n /\ arg(m) = Zeros
    BY <1>1, <1>13
  <2> HIDE DEF arg
  <2>2. off[m] = off[n] + ArgSize(arg(m))
    BY <1>7, <2>1
  <2>3. off[m] = 12 + up[n] + 8
    BY <1>3, <1>11, <2>1, <2>2
  <2> QED
    BY <1>4, <1>5, <1>11, <2>3
<1> QED
  BY <1>5, <1>12, <1>13
\* The first arguments a broken buffer can have in place of w.
Broken(w) == {[w EXCEPT !.type = AcpiInteger, !.len = 4, !.low = 7],
              [w EXCEPT !.len = 8, !.high = 1], [w EXCEPT !.len = 2], Bytes(4)}

(* Broken arguments are arguments, and replacing one keeps the others.      *)
LEMMA BrokenType ==
  ASSUME NEW w \in ArgType
  PROVE  Broken(w) \subseteq ArgType /\ [w EXCEPT !.len = 8] \in ArgType
<1>1. /\ [w EXCEPT !.type = AcpiInteger, !.len = 4, !.low = 7] \in ArgType
      /\ [w EXCEPT !.len = 8, !.high = 1] \in ArgType
      /\ [w EXCEPT !.len = 2] \in ArgType /\ [w EXCEPT !.len = 8] \in ArgType
  <2>1. \A i \in Int : [w EXCEPT !.len = i] \in ArgType
    BY DEF ArgType
  <2>2. \A i, j \in Int : [w EXCEPT !.len = i, !.high = j] \in ArgType
    BY DEF ArgType
  <2>3. \A i, j, k \in Int : [w EXCEPT !.type = i, !.len = j, !.low = k] \in ArgType
    BY DEF ArgType
  <2>4. AcpiInteger \in Int /\ 1 \in Int /\ 2 \in Int /\ 4 \in Int /\ 7 \in Int /\ 8 \in Int
    BY DEF AcpiInteger
  <2> QED
    BY <2>1, <2>2, <2>3, <2>4, Zenon
<1>2. Bytes(4) \in ArgType
  BY DEF Bytes, ArgType, AcpiBuffer
<1> QED
  BY <1>1, <1>2 DEF Broken

(* A buffer of the right shape decodes to its arguments.                   *)
LEMMA BufferDecodes ==
  ASSUME NEW args \in Seq(ArgType), evaluate(Ok(Buffer(args))).ok
  PROVE  evaluate(Ok(Buffer(args))).v = args
<1> DEFINE b == Buffer(args)
<1>1. b.args = args /\ b.count = Len(args) /\ b.extra = 0 /\ Len(args) \in Nat
  BY DEF Buffer
<1>2. evaluate(Ok(b)) = AcpiEvalOutputBufferV1(b)
  BY DEF evaluate, Ok
<1> HIDE DEF b
<1>3. AcpiEvalOutputBufferV1(b).v = b.args
  BY <1>1, <1>2, DecodeOk DEF b
<1> QED
  BY <1>1, <1>2, <1>3 DEF b

(* A right answer decodes to the arguments, the first one maybe wider.     *)
LEMMA RightDecodes ==
  ASSUME NEW args \in Seq(ArgType), NEW a \in Right(args), evaluate(a).ok
  PROVE  \/ evaluate(a).v = args
         \/ args # <<>> /\ evaluate(a).v = [args EXCEPT ![1] = [args[1] EXCEPT !.len = 8]]
<1>1. CASE a = Ok(Buffer(args))
  BY <1>1, BufferDecodes
<1>2. CASE args # <<>> /\ a = Ok(Buffer([args EXCEPT ![1].len = 8]))
  <2> DEFINE w == [args[1] EXCEPT !.len = 8]
             x == [args EXCEPT ![1] = w]
  <2>1. Len(args) \in Nat \ {0}
    BY <1>2, EmptySeq
  <2>2. args[1] \in ArgType
    BY <2>1, ElementOfSeq
  <2>3. w \in ArgType
    BY <2>2, BrokenType
  <2> HIDE DEF w
  <2>4. x \in Seq(ArgType)
    BY <2>1, <2>3, ExceptSeq
  <2>5. a = Ok(Buffer(x))
    BY <1>2 DEF w
  <2> HIDE DEF x
  <2>6. evaluate(a).v = x
    BY <2>4, <2>5, BufferDecodes
  <2> QED
    BY <1>2, <2>6 DEF x, w
<1> QED
  BY <1>1, <1>2 DEF Right

(* A wrong answer that decodes differs in its first argument only; every   *)
(* other fault is refused.                                                 *)
LEMMA WrongDecodes ==
  ASSUME NEW args \in Seq(ArgType), NEW a \in Wrong(args), evaluate(a).ok
  PROVE  args # <<>> /\ \E x \in Broken(args[1]) : evaluate(a).v = [args EXCEPT ![1] = x]
<1> DEFINE buf == Buffer(args)
<1>1. /\ buf.args = args /\ buf.count = Len(args) /\ buf.extra = 0 /\ Len(args) \in Nat
      /\ buf = [signature |-> TRUE, length |-> TRUE, count |-> Len(args), args |-> args, extra |-> 0]
  BY DEF Buffer
<1>2. \A b : evaluate(Ok(b)) = AcpiEvalOutputBufferV1(b)
  BY DEF evaluate, Ok
<1>3. ASSUME NEW b, a = Ok(b), b.args = args, b.count \in {Len(args), Len(args) + 1},
             b.extra \in Int
      PROVE  /\ b.signature /\ b.length
             /\ b.count = Len(args) => b.extra = 0
             /\ b.count = Len(args) + 1 => b.extra = 8
  <2>1. AcpiEvalOutputBufferV1(b).ok
    BY <1>2, <1>3
  <2> QED
    BY <1>3, <2>1, DecodeOk
<1> HIDE DEF buf
<1>4. CASE a = Err("Io")
  BY <1>4 DEF evaluate, Err
<1>5. CASE a = Ok([buf EXCEPT !.signature = FALSE])
  <2> DEFINE b == [buf EXCEPT !.signature = FALSE]
  <2>1. b.args = args /\ b.count = Len(args) /\ b.extra = 0 /\ b.extra \in Int
        /\ b.signature = FALSE
    BY <1>1
  <2> HIDE DEF b
  <2> QED
    BY <1>3, <1>5, <2>1 DEF b
<1>6. CASE a = Ok([buf EXCEPT !.length = FALSE])
  <2> DEFINE b == [buf EXCEPT !.length = FALSE]
  <2>1. b.args = args /\ b.count = Len(args) /\ b.extra = 0 /\ b.extra \in Int
        /\ b.length = FALSE
    BY <1>1
  <2> HIDE DEF b
  <2> QED
    BY <1>3, <1>6, <2>1 DEF b
<1>7. ASSUME NEW e \in {-1, 4}, a = Ok([buf EXCEPT !.extra = e])
      PROVE  FALSE
  <2> DEFINE b == [buf EXCEPT !.extra = e]
  <2>1. b.args = args /\ b.count = Len(args) /\ b.extra = e
    BY <1>1
  <2> HIDE DEF b
  <2>2. e \in Int /\ e # 0
    OBVIOUS
  <2> QED
    BY <1>3, <1>7, <2>1, <2>2 DEF b
<1>8. CASE a = Ok([buf EXCEPT !.count = @ + 1])
  <2> DEFINE b == [buf EXCEPT !.count = @ + 1]
  <2>1. b.args = args /\ b.count = Len(args) + 1 /\ b.extra = 0 /\ b.extra \in Int
    BY <1>1
  <2>2. a = Ok(b)
    BY <1>8
  <2> HIDE DEF b
  <2>3. b.count = Len(args) + 1 => b.extra = 8
    BY <1>3, <2>1, <2>2
  <2> QED
    BY <2>1, <2>3
<1>9. ASSUME args # <<>>, NEW x \in Broken(args[1]), a = Ok(Buffer([args EXCEPT ![1] = x]))
      PROVE  evaluate(a).v = [args EXCEPT ![1] = x]
  <2>1. Len(args) \in Nat \ {0}
    BY <1>9, EmptySeq
  <2>2. args[1] \in ArgType
    BY <2>1, ElementOfSeq
  <2>3. x \in ArgType
    BY <2>2, BrokenType
  <2>4. [args EXCEPT ![1] = x] \in Seq(ArgType)
    BY <2>1, <2>3, ExceptSeq
  <2> QED
    BY <1>9, <2>4, BufferDecodes
<1>10. \/ a = Err("Io")
       \/ a = Ok([buf EXCEPT !.signature = FALSE])
       \/ a = Ok([buf EXCEPT !.length = FALSE])
       \/ a = Ok([buf EXCEPT !.extra = -1])
       \/ a = Ok([buf EXCEPT !.extra = 4])
       \/ a = Ok([buf EXCEPT !.count = @ + 1])
       \/ args # <<>> /\ \E x \in Broken(args[1]) : a = Ok(Buffer([args EXCEPT ![1] = x]))
  BY DEF Wrong, Broken, buf
<1> QED
  BY <1>4, <1>5, <1>6, <1>7, <1>8, <1>9, <1>10

-----------------------------------------------------------------------------
(***************************************************************************)
(* The clock setters.                                                      *)
(***************************************************************************)

ClockSetters == {"set_real_time", "set_timer_value", "set_expired_timer_wake_policy",
                 "clear_wake_status"}

(* The clock setters are the setters among the clock's methods.            *)
LEMMA ClockSettersAre ==
  /\ RtcMethods \cap Setters = ClockSetters
  /\ ClockSetters \subseteq Setters /\ ClockSetters \subseteq RtcMethods
<1>1. RtcMethods = {"get_capabilities", "get_real_time", "set_real_time", "get_wake_status",
                    "get_expired_timer_wake_policy", "get_timer_value", "set_timer_value",
                    "set_expired_timer_wake_policy", "clear_wake_status"}
  BY DEF RtcMethods, Signature
<1> QED
  BY <1>1 DEF Setters, ClockSetters

(* A clock setter of the ACPI source that returns success was carried out: *)
(* none of the faults decodes to a single integer of value zero.           *)
LEMMA AcpiSetterApplied ==
  ASSUME source = "acpi", NEW method, method.name \in ClockSetters,
         NEW reply \in Replies(method), Call(method, reply.answer).ok
  PROVE  reply.applied
<1> DEFINE args == <<Word(0)>>
<1>1. Returned(method) = args
  BY DEF Returned, ClockSetters
<1>2. \/ \E a \in Right(args) : reply = [answer |-> a, applied |-> TRUE]
      \/ \E a \in Wrong(args) : \E b : reply = [answer |-> a, applied |-> b]
  <2> HIDE DEF args
  <2> DEFINE either == IF method.name \in Setters THEN BOOLEAN ELSE {TRUE}
  <2>1. Replies(method) = {[answer |-> a, applied |-> TRUE] : a \in Right(args)} \cup
                          {[answer |-> a, applied |-> b] : a \in Wrong(args), b \in either}
    BY <1>1 DEF Replies
  <2> HIDE DEF either
  <2> QED
    BY <2>1
<1>3. ASSUME NEW a \in Wrong(args), reply.answer = a
      PROVE  FALSE
  <2> DEFINE out == evaluate(a)
  <2>1. Call(method, a) = rtc_status(evaluate_u32(out))
    BY DEF Call, Acpi, ClockSetters
  <2>2. rtc_status(evaluate_u32(out)).ok
    BY <1>3, <2>1
  <2>3. out.ok
    BY <2>2 DEF rtc_status, evaluate_u32
  <2>4. Word(0) \in ArgType /\ args \in Seq(ArgType) /\ args[1] = Word(0) /\ Len(args) = 1
    BY DEF Word, ArgType, AcpiInteger
  <2> HIDE DEF args
  <2>a. \E x \in Broken(args[1]) : evaluate(a).v = [args EXCEPT ![1] = x]
    BY <2>3, <2>4, WrongDecodes
  <2>5. PICK x \in Broken(Word(0)) : out.v = [args EXCEPT ![1] = x]
    BY <2>4, <2>a
  <2>6. out.v[1] = x /\ Len(out.v) = 1
    BY <2>4, <2>5
  <2>7. Word(0) = [type |-> 0, len |-> 4, low |-> 0, high |-> 0]
    BY DEF Word, AcpiInteger
  <2> HIDE DEF out
  <2>8. CASE x = [Word(0) EXCEPT !.type = AcpiInteger, !.len = 4, !.low = 7]
    <3>1. x.type = AcpiInteger /\ x.len = 4 /\ x.low = 7
      BY <2>7, <2>8 DEF AcpiInteger
    <3>2. evaluate_u32(out) = Ok(7)
      BY <2>3, <2>6, <3>1 DEF evaluate_u32, data_32
    <3> QED
      BY <2>2, <3>2 DEF rtc_status, Ok, Err
  <2>9. CASE x = [Word(0) EXCEPT !.len = 8, !.high = 1]
    <3>1. x.type = AcpiInteger /\ x.len = 8 /\ x.high = 1
      BY <2>7, <2>9 DEF AcpiInteger
    <3>2. evaluate_u32(out) = Err("InvalidData")
      BY <2>3, <2>6, <3>1 DEF evaluate_u32
    <3> QED
      BY <2>2, <3>2 DEF rtc_status, Err
  <2>10. CASE x = [Word(0) EXCEPT !.len = 2]
    <3>1. x.type = AcpiInteger /\ x.len = 2
      BY <2>7, <2>10 DEF AcpiInteger
    <3>2. evaluate_u32(out) = Err("UnexpectedResponse")
      BY <2>3, <2>6, <3>1 DEF evaluate_u32
    <3> QED
      BY <2>2, <3>2 DEF rtc_status, Err
  <2>11. CASE x = Bytes(4)
    <3>1. x.type # AcpiInteger
      BY <2>11 DEF Bytes, AcpiBuffer, AcpiInteger
    <3>2. evaluate_u32(out) = Err("UnexpectedArgumentType")
      BY <2>3, <2>6, <3>1 DEF evaluate_u32
    <3> QED
      BY <2>2, <3>2 DEF rtc_status, Err
  <2> QED
    BY <2>8, <2>9, <2>10, <2>11 DEF Broken
<1> HIDE DEF args
<1> QED
  BY <1>2, <1>3

(* So was one of the Windows source, but for clear_wake_status: the driver *)
(* must return exactly the bytes asked for.                                *)
LEMMA WindowsSetterApplied ==
  ASSUME source = "windows", NEW method,
         method.name \in ClockSetters \ {"clear_wake_status"},
         NEW reply \in Replies(method), Call(method, reply.answer).ok
  PROVE  reply.applied
<1> DEFINE good == [bytes_returned |-> OutLen(method), value |-> DriverValue(method)]
           short == [good EXCEPT !.bytes_returned = IF @ = 0 THEN 4 ELSE @ - 4]
<1>1. method.name \in RtcMethods \ {"get_wake_status", "clear_wake_status"}
  BY ClockSettersAre DEF ClockSetters
<1>2. \/ reply = [answer |-> Ok(good), applied |-> TRUE]
      \/ \E a \in {Err("Io"), Ok(short)} : \E b : reply = [answer |-> a, applied |-> b]
  <2> DEFINE either == IF method.name \in Setters THEN BOOLEAN ELSE {TRUE}
  <2>1. method.name \notin {"get_wake_status", "clear_wake_status"}
    BY <1>1
  <2>2. Replies(method) = {[answer |-> Ok(good), applied |-> TRUE]} \cup
             {[answer |-> a, applied |-> b] : a \in {Err("Io"), Ok(short)}, b \in either}
    BY <1>1, <2>1 DEF Replies
  <2> HIDE DEF either, good, short
  <2> QED
    BY <2>2
<1>3. \A a : Call(method, a) = ioctl(a, OutLen(method))
  BY <1>1 DEF Call, Windows
<1>4. ~ioctl(Err("Io"), OutLen(method)).ok
  BY DEF ioctl, Err
<1>5. OutLen(method) = 0
  BY DEF OutLen, ClockSetters
<1>6. ~ioctl(Ok(short), OutLen(method)).ok
  <2>1. short.bytes_returned = 4
    BY <1>5
  <2> HIDE DEF short
  <2> QED
    BY <1>5, <2>1 DEF ioctl, Ok, Err
<1> HIDE DEF good, short
<1> QED
  BY <1>2, <1>3, <1>4, <1>6

\* Only the source is looked at besides the property itself.
RowInv == source \in {"acpi", "windows", "mock"} /\ OkMeansApplied

(* A row that reports a clock setter as is_ok stands for a call that was   *)
(* carried out: whatever the driver answers, on every source, but for the  *)
(* wake status on Windows.                                                 *)
THEOREM OkIsNotAssumed == Spec => []OkMeansApplied
<1>1. Init => RowInv
  BY DEF Init, RowInv, OkMeansApplied, NoRow
<1>2. RowInv /\ [Next]_vars => RowInv'
  <2> SUFFICES ASSUME RowInv, [Next]_vars
               PROVE  RowInv'
    OBVIOUS
  <2> USE DEF RowInv
  <2>1. ASSUME row' = NoRow \/ row' = row, source' = source
        PROVE  RowInv'
    BY <2>1 DEF OkMeansApplied, NoRow
  <2>2. ASSUME NEW s \in Statements, Execute(s)
        PROVE  RowInv'
    <3>1. source' = source
      BY <2>2 DEF Execute
    <3>2. PICK arg \in {argument(s.method, env)}, reply \in Replies(s.method) :
            \E r \in {Call(s.method, reply.answer)} :
            \E result \in {eval_call(s, invoke(s.method, arg, r))} :
            \E ok \in {IF s.form = "let" THEN result.ok ELSE apply_verb(s.verb, result, env)} :
              row' = [verb |-> IF s.form = "let" THEN "let" ELSE s.verb.verb, pass |-> ok,
                      made |-> arg.ok, returned |-> arg.ok /\ r.ok,
                      applied |-> arg.ok /\ reply.applied, method |-> s.method,
                      arg |-> IF arg.ok THEN arg.v ELSE 0]
      BY <2>2, ZenonT(180) DEF Execute
    <3> DEFINE r == Call(s.method, reply.answer)
               result == eval_call(s, invoke(s.method, arg, r))
               ok == IF s.form = "let" THEN result.ok ELSE apply_verb(s.verb, result, env)
    <3>3. /\ row'.verb = (IF s.form = "let" THEN "let" ELSE s.verb.verb)
          /\ row'.pass = ok /\ row'.method = s.method
          /\ row'.applied = (arg.ok /\ reply.applied)
      BY <3>2
    <3>4. SUFFICES ASSUME row'.verb = "is_ok", row'.pass, row'.method.name \in RtcMethods \cap Setters
                   PROVE  row'.applied \/ (source = "windows" /\ row'.method.name = "clear_wake_status")
      BY <3>1 DEF OkMeansApplied
    <3>5. s.form # "let" /\ s.verb.verb = "is_ok"
      BY <3>3, <3>4
    <3>6. result.ok
      BY <3>3, <3>4, <3>5 DEF apply_verb
    <3>7. invoke(s.method, arg, r).ok
      BY <3>6 DEF eval_call
    <3>8. arg.ok /\ r.ok
      BY <3>7 DEF invoke
    <3>9. s.method.name \in ClockSetters
      BY <3>3, <3>4, ClockSettersAre
    <3> HIDE DEF result, ok
    <3>10. CASE source = "acpi"
      BY <3>3, <3>8, <3>9, <3>10, AcpiSetterApplied
    <3>11. CASE source = "windows"
      BY <3>3, <3>8, <3>9, <3>11, WindowsSetterApplied
    <3>12. CASE source = "mock"
      <4>1. reply.applied
        BY <3>12 DEF Replies
      <4> QED
        BY <3>3, <3>8, <4>1
    <3> QED
      BY <3>10, <3>11, <3>12
  <2>3. CASE Open \/ Unreadable \/ Sleep \/ Close
    BY <2>1, <2>3 DEF Open, Unreadable, Sleep, Close, history
  <2>4. CASE UNCHANGED vars
    BY <2>1, <2>4 DEF vars, history
  <2> QED
    BY <2>2, <2>3, <2>4 DEF Next
<1> QED
  BY <1>1, <1>2, PTL DEF Spec, RowInv
-----------------------------------------------------------------------------
(***************************************************************************)
(* Thresholds: set to the nearest deciKelvin, captured and restored.       *)
(***************************************************************************)

TimerMethods == {"get_wake_status", "get_expired_timer_wake_policy", "get_timer_value",
                 "set_timer_value", "set_expired_timer_wake_policy", "clear_wake_status"}

\* What the parser guarantees of a method.
MethodOk(m) ==
  /\ m.name \in {"get_threshold", "set_threshold"} => m.selector \in Thresholds
  /\ m.name \in TimerMethods => m.selector \in Timers
  /\ m.operand.kind \in {"num", "buffer"} => m.operand.v \in Int
  /\ m.name = "set_real_time" => m.operand.v \in Int

(* Methods take the selector their signature asks for.                     *)
LEMMA SignatureOf ==
  ASSUME NEW target \in DOMAIN Signature, NEW name \in DOMAIN Signature[target]
  PROVE  /\ name \in {"get_threshold", "set_threshold"} =>
              Signature[target][name] \in {"threshold", "threshold,operand"}
         /\ name \in TimerMethods => Signature[target][name] \in {"timer", "timer,operand"}
         /\ name = "set_real_time" => Signature[target][name] = "buffer"
         /\ Signature[target][name] \in {"none", "threshold", "timer", "operand",
              "threshold,operand", "timer,operand", "buffer"}
<1>1. target \in {"thermal", "battery", "rtc"}
  BY DEF Signature
<1>2. CASE target = "thermal"
  <2> DEFINE f == [get_temperature |-> "none", get_rpm |-> "none", get_min_rpm |-> "none",
                   get_max_rpm |-> "none", get_threshold |-> "threshold",
                   set_rpm |-> "operand", set_threshold |-> "threshold,operand"]
  <2>1. Signature[target] = f
    BY <1>2 DEF Signature
  <2>2. name \in {"get_temperature", "get_rpm", "get_min_rpm", "get_max_rpm", "get_threshold",
                  "set_rpm", "set_threshold"}
    BY <2>1
  <2>3. /\ f.get_temperature = "none" /\ f.get_rpm = "none" /\ f.get_min_rpm = "none"
        /\ f.get_max_rpm = "none" /\ f.set_rpm = "operand"
    OBVIOUS
  <2>4. f.get_threshold = "threshold" /\ f.set_threshold = "threshold,operand"
    OBVIOUS
  <2> HIDE DEF f
  <2> QED
    BY <2>1, <2>2, <2>3, <2>4 DEF TimerMethods
<1>3. CASE target = "battery"
  <2> DEFINE f == [get_bst |-> "none", get_bix |-> "none", set_btp |-> "operand"]
  <2>1. Signature[target] = f
    BY <1>3 DEF Signature
  <2>2. name \in {"get_bst", "get_bix", "set_btp"}
    BY <2>1
  <2>3. f[name] \in {"none", "operand"}
    BY <2>2
  <2> HIDE DEF f
  <2> QED
    BY <2>1, <2>2, <2>3 DEF TimerMethods
<1>4. CASE target = "rtc"
  <2> DEFINE f == [get_capabilities |-> "none", get_real_time |-> "none",
                   set_real_time |-> "buffer", get_wake_status |-> "timer",
                   get_expired_timer_wake_policy |-> "timer", get_timer_value |-> "timer",
                   set_timer_value |-> "timer,operand",
                   set_expired_timer_wake_policy |-> "timer,operand",
                   clear_wake_status |-> "timer"]
  <2>1. Signature[target] = f
    BY <1>4 DEF Signature
  <2>2. name \in {"get_capabilities", "get_real_time", "set_real_time"} \cup TimerMethods
    BY <2>1 DEF TimerMethods
  <2>3. f.get_capabilities = "none" /\ f.get_real_time = "none" /\ f.set_real_time = "buffer"
    OBVIOUS
  <2>4. /\ f.get_wake_status = "timer" /\ f.get_expired_timer_wake_policy = "timer"
        /\ f.get_timer_value = "timer" /\ f.set_timer_value = "timer,operand"
        /\ f.set_expired_timer_wake_policy = "timer,operand" /\ f.clear_wake_status = "timer"
    OBVIOUS
  <2> HIDE DEF f
  <2> QED
    BY <2>1, <2>2, <2>3, <2>4 DEF TimerMethods
<1> QED
  BY <1>1, <1>2, <1>3, <1>4

(* A number that parses as an operand is a number.                         *)
LEMMA OperandType ==
  ASSUME NEW x, x.kind \in {"num", "buffer"} => x.v \in Int, parse_operand(x).ok
  PROVE  parse_operand(x).v.kind \in {"num", "buffer"} => parse_operand(x).v.v \in Int
<1>1. CASE x.kind \in {"num", "bool"}
  BY <1>1 DEF parse_operand, Ok
<1>2. CASE x.kind = "word"
  BY <1>2 DEF parse_operand, Ok, Infinity
<1>3. CASE x.kind \notin {"num", "bool", "word"}
  BY <1>3 DEF parse_operand, Err
<1> QED
  BY <1>1, <1>2, <1>3

(* A method that is built is one the runner can call.                      *)
LEMMA BuildOk ==
  ASSUME NEW target, NEW name, NEW args,
         \A i \in 1..Len(args) : args[i].kind \in {"num", "buffer"} => args[i].v \in Int,
         Len(args) \in Nat,
         build_method(target, name, args).ok
  PROVE  MethodOk(build_method(target, name, args).v)
<1> DEFINE sig == Signature[target][name]
           selector(S) == IF Len(args) > 0 /\ args[1].kind = "word" /\ args[1].v \in S
                          THEN Ok(args[1].v) ELSE Err("unknown selector")
           operand(i) == IF Len(args) = i THEN parse_operand(args[i])
                         ELSE Err("requires an argument")
           method(sel, op) == IF ~sel.ok THEN sel ELSE IF ~op.ok THEN op
                              ELSE Ok([name |-> name, selector |-> sel.v, operand |-> op.v])
           nothing == Ok([kind |-> "none", v |-> 0])
           alone(n) == IF Len(args) = n THEN nothing ELSE Err("argument count")
           m == build_method(target, name, args)
<1>1. target \in DOMAIN Signature /\ name \in DOMAIN Signature[target]
  BY DEF build_method, Err
<1>2. m = CASE sig = "none" -> method(Ok("none"), alone(0))
            [] sig = "threshold" -> method(selector(Thresholds), alone(1))
            [] sig = "timer" -> method(selector(Timers), alone(1))
            [] sig = "operand" -> method(Ok("none"), operand(1))
            [] sig = "threshold,operand" -> method(selector(Thresholds), operand(2))
            [] sig = "timer,operand" -> method(selector(Timers), operand(2))
            [] sig = "buffer" -> IF Len(args) = 1 /\ args[1].kind = "buffer"
                                 THEN method(Ok("none"), Ok(args[1]))
                                 ELSE Err("set_real_time requires Buffer(16)")
  BY <1>1, Zenon DEF build_method
<1>3. ASSUME NEW sel, NEW op, m = method(sel, op)
      PROVE  sel.ok /\ op.ok /\ m.v = [name |-> name, selector |-> sel.v, operand |-> op.v]
  BY <1>3 DEF Ok
<1>4. ASSUME NEW S, selector(S).ok
      PROVE  selector(S).v \in S
  BY <1>4 DEF Ok, Err
<1>5. ASSUME NEW i \in {1, 2}, operand(i).ok
      PROVE  operand(i).v.kind \in {"num", "buffer"} => operand(i).v.v \in Int
  <2>1. Len(args) = i /\ i \in 1..Len(args)
    BY <1>5 DEF Err
  <2> QED
    BY <1>5, <2>1, OperandType
<1>6. \A n : alone(n).ok => alone(n).v.kind = "none"
  BY DEF Ok, Err
<1>7. /\ name \in {"get_threshold", "set_threshold"} => sig \in {"threshold", "threshold,operand"}
      /\ name \in TimerMethods => sig \in {"timer", "timer,operand"}
      /\ name = "set_real_time" => sig = "buffer"
      /\ sig \in {"none", "threshold", "timer", "operand",
                  "threshold,operand", "timer,operand", "buffer"}
  BY <1>1, SignatureOf
<1>8. ASSUME sig = "buffer"
      PROVE  /\ m = method(Ok("none"), Ok(args[1])) /\ args[1].kind = "buffer"
             /\ args[1].v \in Int
  <2>0. m = IF Len(args) = 1 /\ args[1].kind = "buffer"
            THEN method(Ok("none"), Ok(args[1]))
            ELSE Err("set_real_time requires Buffer(16)")
    <3> HIDE DEF m, method, selector, operand, alone, sig
    <3> QED
      BY <1>2, <1>8
  <2>1. Len(args) = 1 /\ args[1].kind = "buffer"
    <3>1. ~Err("set_real_time requires Buffer(16)").ok
      BY DEF Err
    <3> HIDE DEF method
    <3> QED
      BY <2>0, <3>1
  <2>2. 1 \in 1..Len(args)
    BY <2>1
  <2> QED
    BY <2>0, <2>1, <2>2
<1> HIDE DEF sig, selector, operand, method, nothing, alone, m
<1>9. CASE sig = "none"
  <2>1. m = method(Ok("none"), alone(0))
    BY <1>2, <1>9
  <2>2. m.v = [name |-> name, selector |-> Ok("none").v, operand |-> alone(0).v] /\ alone(0).ok
    BY <1>3, <2>1
  <2>3. m.v.name = name /\ m.v.operand.kind = "none"
    BY <2>2, <1>6
  <2> QED
    BY <1>7, <1>9, <2>3 DEF MethodOk, m
<1>10. CASE sig = "threshold"
  <2>1. m = method(selector(Thresholds), alone(1))
    BY <1>2, <1>10
  <2>2. /\ m.v = [name |-> name, selector |-> selector(Thresholds).v, operand |-> alone(1).v]
        /\ alone(1).ok /\ selector(Thresholds).ok
    BY <1>3, <2>1
  <2>3. m.v.name = name /\ m.v.operand.kind = "none" /\ m.v.selector \in Thresholds
    BY <2>2, <1>4, <1>6
  <2> QED
    BY <1>7, <1>10, <2>3 DEF MethodOk, m
<1>11. CASE sig = "timer"
  <2>1. m = method(selector(Timers), alone(1))
    BY <1>2, <1>11
  <2>2. /\ m.v = [name |-> name, selector |-> selector(Timers).v, operand |-> alone(1).v]
        /\ alone(1).ok /\ selector(Timers).ok
    BY <1>3, <2>1
  <2>3. m.v.name = name /\ m.v.operand.kind = "none" /\ m.v.selector \in Timers
    BY <2>2, <1>4, <1>6
  <2> QED
    BY <1>7, <1>11, <2>3 DEF MethodOk, m
<1>12. CASE sig = "operand"
  <2>1. m = method(Ok("none"), operand(1))
    BY <1>2, <1>12
  <2>2. m.v = [name |-> name, selector |-> Ok("none").v, operand |-> operand(1).v] /\ operand(1).ok
    BY <1>3, <2>1
  <2>3. m.v.name = name /\ (m.v.operand.kind \in {"num", "buffer"} => m.v.operand.v \in Int)
    BY <2>2, <1>5
  <2> QED
    BY <1>7, <1>12, <2>3 DEF MethodOk, m
<1>13. CASE sig = "threshold,operand"
  <2>1. m = method(selector(Thresholds), operand(2))
    BY <1>2, <1>13
  <2>2. /\ m.v = [name |-> name, selector |-> selector(Thresholds).v, operand |-> operand(2).v]
        /\ operand(2).ok /\ selector(Thresholds).ok
    BY <1>3, <2>1
  <2>3. m.v.name = name /\ (m.v.operand.kind \in {"num", "buffer"} => m.v.operand.v \in Int)
        /\ m.v.selector \in Thresholds
    BY <2>2, <1>4, <1>5
  <2> QED
    BY <1>7, <1>13, <2>3 DEF MethodOk, m
<1>14. CASE sig = "timer,operand"
  <2>1. m = method(selector(Timers), operand(2))
    BY <1>2, <1>14
  <2>2. /\ m.v = [name |-> name, selector |-> selector(Timers).v, operand |-> operand(2).v]
        /\ operand(2).ok /\ selector(Timers).ok
    BY <1>3, <2>1
  <2>3. m.v.name = name /\ (m.v.operand.kind \in {"num", "buffer"} => m.v.operand.v \in Int)
        /\ m.v.selector \in Timers
    BY <2>2, <1>4, <1>5
  <2> QED
    BY <1>7, <1>14, <2>3 DEF MethodOk, m
<1>15. CASE sig = "buffer"
  <2>1. m.v = [name |-> name, selector |-> Ok("none").v, operand |-> Ok(args[1]).v]
    BY <1>3, <1>8, <1>15
  <2>2. m.v.name = name /\ m.v.operand = args[1]
    BY <2>1 DEF Ok
  <2> QED
    BY <1>7, <1>8, <1>15, <2>2 DEF MethodOk, m
<1> QED
  BY <1>7, <1>9, <1>10, <1>11, <1>12, <1>13, <1>14, <1>15

(* So is the method of every statement.                                    *)
LEMMA StatementOk ==
  ASSUME NEW s \in Statements
  PROVE  MethodOk(s.method) /\ Len(s.projection) \in Nat
<1>1. PICK t \in Texts : t.form # "sleep" /\ parse_stmt(t).ok /\ s = parse_stmt(t).v
  BY DEF Statements
<1> DEFINE method == build_method(t.target, t.method, t.args)
<1>2. method.ok /\ s.method = method.v /\ s.projection = t.projection
  <2>1. CASE t.form = "let"
    BY <1>1, <2>1 DEF parse_stmt, Ok, Err
  <2>2. CASE t.form = "check"
    BY <1>1, <2>2 DEF parse_stmt, Ok, Err
  <2>3. CASE t.form \notin {"let", "check"}
    BY <1>1, <2>3 DEF parse_stmt, Err
  <2> QED
    BY <2>1, <2>2, <2>3
<1>3. MethodOk(method.v)
  BY <1>2, BuildOk, ScriptAssumption
<1> QED
  BY <1>2, <1>3, ScriptAssumption
-----------------------------------------------------------------------------
(***************************************************************************)
(* Values: the numbers in them are numbers, however they are projected.    *)
(***************************************************************************)

Number(v) == v.kind = "number" => v.n \in Int
Flat0(v) == v.kind # "struct" /\ Number(v)
Flat1(v) == Number(v) /\ (v.kind = "struct" => \A k \in DOMAIN v.f : Flat0(v.f[k]))
Value(v) == Number(v) /\ (v.kind = "struct" => \A k \in DOMAIN v.f : Flat1(v.f[k]))

(* A projection that succeeds gives a value; of a number it gives the      *)
(* number itself, because only the empty path can be walked.               *)
LEMMA ProjectKeeps ==
  ASSUME NEW value, Value(value), NEW path, Len(path) \in Nat, project(value, path).ok
  PROVE  /\ Value(project(value, path).v)
         /\ value.kind = "number" => project(value, path).v = value
<1> DEFINE step(cur, seg) ==
             IF ~cur.ok THEN cur
             ELSE IF cur.v.kind # "struct" THEN Err("cannot project")
             ELSE IF seg \notin DOMAIN cur.v.f THEN Err("no field") ELSE Ok(cur.v.f[seg])
           n == Len(path)
           walk == CHOOSE f : f = [i \in 0..n |-> IF i = 0 THEN Ok(value)
                                                  ELSE step(f[i - 1], path[i])]
<1>1. project(value, path) = walk[n]
  BY DEF project
<1>2. \E f : f = [i \in 0..n |-> IF i = 0 THEN Ok(value) ELSE step(f[i - 1], path[i])]
  <2> HIDE DEF step
  <2> DEFINE part(k) == \E f : f = [i \in 0..k |-> IF i = 0 THEN Ok(value)
                                                   ELSE step(f[i - 1], path[i])]
             good == {k \in Nat : part(k)}
  <2>1. 0 \in good
    <3> DEFINE f == [i \in 0..0 |-> Ok(value)]
    <3>1. f = [i \in 0..0 |-> IF i = 0 THEN Ok(value) ELSE step(f[i - 1], path[i])]
      OBVIOUS
    <3> HIDE DEF f
    <3> QED
      BY <3>1
  <2>2. \A k \in good : k + 1 \in good
    <3> SUFFICES ASSUME NEW k \in Nat, part(k)
                 PROVE  part(k + 1)
      <4> HIDE DEF part
      <4> QED OBVIOUS
    <3>1. PICK f : f = [i \in 0..k |-> IF i = 0 THEN Ok(value) ELSE step(f[i - 1], path[i])]
      OBVIOUS
    <3> DEFINE h == [i \in 0..(k + 1) |-> IF i = k + 1 THEN step(f[k], path[k + 1]) ELSE f[i]]
               g == [i \in 0..(k + 1) |-> IF i = 0 THEN Ok(value) ELSE step(h[i - 1], path[i])]
    <3>2. \A i \in 0..(k + 1) : h[i] = g[i]
      <4> SUFFICES ASSUME NEW i \in 0..(k + 1)
                   PROVE  h[i] = g[i]
        OBVIOUS
      <4>1. CASE i = k + 1
        <5>1. i # 0 /\ i - 1 = k /\ h[i - 1] = f[k]
          BY <4>1
        <5>2. h[i] = step(f[k], path[k + 1])
          BY <4>1
        <5>3. g[i] = step(h[i - 1], path[i])
          BY <5>1
        <5> HIDE DEF h, g
        <5> QED
          BY <4>1, <5>1, <5>2, <5>3
      <4>2. CASE i # k + 1
        <5>1. i \in 0..k /\ h[i] = f[i]
          BY <4>2
        <5>2. i # 0 => i - 1 \in 0..(k + 1) /\ i - 1 # k + 1 /\ h[i - 1] = f[i - 1]
          BY <4>2
        <5>3. f[i] = IF i = 0 THEN Ok(value) ELSE step(f[i - 1], path[i])
          BY <3>1, <5>1
        <5>4. g[i] = IF i = 0 THEN Ok(value) ELSE step(h[i - 1], path[i])
          OBVIOUS
        <5> HIDE DEF h, g
        <5> QED
          BY <5>1, <5>2, <5>3, <5>4
      <4> QED
        BY <4>1, <4>2
    <3>3. h = g
      <4>1. h = [i \in 0..(k + 1) |-> h[i]]
        OBVIOUS
      <4>2. g = [i \in 0..(k + 1) |-> g[i]]
        OBVIOUS
      <4> HIDE DEF h, g
      <4> QED
        BY <3>2, <4>1, <4>2
    <3>4. h = [i \in 0..(k + 1) |-> IF i = 0 THEN Ok(value) ELSE step(h[i - 1], path[i])]
      BY <3>3
    <3> HIDE DEF h
    <3> QED
      BY <3>4
  <2>3. good = Nat
    <3> HIDE DEF good
    <3>1. good \in SUBSET Nat
      BY DEF good
    <3> QED
      BY <2>1, <2>2, <3>1, InductionOnNat
  <2>4. part(n)
    <3> HIDE DEF part
    <3> QED
      BY <2>3
  <2> QED
    BY <2>4
<1>3. walk = [i \in 0..n |-> IF i = 0 THEN Ok(value) ELSE step(walk[i - 1], path[i])]
  <2> HIDE DEF step
  <2> QED
    BY <1>2
<1>4. \A cur, seg : step(cur, seg).ok /\ (cur.ok => Value(cur.v)) =>
        /\ cur.ok /\ cur.v.kind = "struct" /\ Value(step(cur, seg).v)
  <2> SUFFICES ASSUME NEW cur, NEW seg, step(cur, seg).ok, cur.ok => Value(cur.v)
               PROVE  cur.ok /\ cur.v.kind = "struct" /\ Value(step(cur, seg).v)
    OBVIOUS
  <2>1. cur.ok /\ cur.v.kind = "struct" /\ seg \in DOMAIN cur.v.f
        /\ step(cur, seg).v = cur.v.f[seg]
    BY DEF Ok, Err
  <2>2. Flat1(cur.v.f[seg])
    BY <2>1 DEF Value
  <2>3. Value(cur.v.f[seg])
    BY <2>2 DEF Value, Flat1, Flat0
  <2> QED
    BY <2>1, <2>3
<1> HIDE DEF walk, step
<1> DEFINE kept == {k \in Nat : k <= n => (walk[k].ok =>
                      /\ Value(walk[k].v)
                      /\ value.kind = "number" => k = 0 /\ walk[k].v = value)}
<1>5. 0 \in kept
  BY <1>3 DEF Ok
<1>6. \A k \in kept : k + 1 \in kept
  <2> SUFFICES ASSUME NEW k \in Nat, k + 1 <= n, walk[k + 1].ok,
                      walk[k].ok => /\ Value(walk[k].v)
                                    /\ value.kind = "number" => k = 0 /\ walk[k].v = value
               PROVE  Value(walk[k + 1].v) /\ value.kind # "number"
    OBVIOUS
  <2>1. walk[k + 1] = step(walk[k], path[k + 1])
    <3>1. k + 1 \in 0..n /\ k + 1 # 0 /\ k + 1 - 1 = k
      OBVIOUS
    <3>2. walk[k + 1] = step(walk[k + 1 - 1], path[k + 1])
      BY <1>3, <3>1
    <3> QED
      BY <3>1, <3>2
  <2> QED
    BY <1>4, <2>1
<1>7. kept = Nat
  <2> HIDE DEF kept
  <2>1. kept \in SUBSET Nat
    BY DEF kept
  <2> QED
    BY <1>5, <1>6, <2>1, InductionOnNat
<1>8. n \in kept
  <2> HIDE DEF kept
  <2> QED
    BY <1>7
<1> QED
  BY <1>1, <1>8
\* The methods whose answers are numbers in a script.
NumberMethods == {"get_temperature", "get_rpm", "get_min_rpm", "get_max_rpm", "get_threshold",
                  "get_real_time", "get_expired_timer_wake_policy", "get_timer_value"}
RecordMethods == {"get_bst", "get_bix"}

\* What a method's answer is made of.
AnswerOk(name, v) ==
  /\ name \in NumberMethods => v \in Int
  /\ name \in RecordMethods => \A k \in DOMAIN v : v[k] \in Int

(* Every answer converts to a value, a threshold to its number.            *)
LEMMA ToValueOk ==
  ASSUME NEW name, NEW v, AnswerOk(name, v)
  PROVE  Value(to_value(name, v)) /\ (name = "get_threshold" => to_value(name, v) = Num(v))
<1>1. \A i \in Int : Flat0(Num(i)) /\ i * 100 \in Int
  BY DEF Flat0, Number, Num
<1>2. \A b : Flat0(Bool(b))
  BY DEF Flat0, Number, Bool
<1>3. \A x : Flat0(x) => Flat1(x) /\ Value(x)
  BY DEF Flat0, Flat1, Value
<1>4. ASSUME NEW f, \A k \in DOMAIN f : Flat1(f[k])
      PROVE  Value(Struct(f))
  <2>1. Struct(f).kind = "struct" /\ Struct(f).f = f
    BY DEF Struct
  <2> QED
    BY <1>4, <2>1 DEF Value, Number
<1>5. CASE name \in {"get_temperature", "get_rpm", "get_min_rpm", "get_max_rpm",
                     "get_threshold"}
  <2>1. to_value(name, v) = Num(v)
    BY <1>5 DEF to_value
  <2>2. v \in Int
    BY <1>5 DEF AnswerOk, NumberMethods
  <2> QED
    BY <1>1, <1>3, <2>1, <2>2
<1>6. CASE name \in RecordMethods
  <2> DEFINE f == [k \in DOMAIN v |-> Num(v[k] * 100)]
  <2>1. to_value(name, v) = Struct(f)
    BY <1>6 DEF to_value, RecordMethods
  <2>2. \A k \in DOMAIN f : Flat1(f[k])
    BY <1>1, <1>3, <1>6 DEF AnswerOk
  <2> HIDE DEF f
  <2> QED
    BY <1>4, <1>6, <2>1, <2>2 DEF RecordMethods
<1>7. CASE name = "get_capabilities"
  <2> DEFINE a == Bool((v \div 2^2) % 2 = 1)
             b == Bool((v \div 2^4) % 2 = 1)
             f == [realtime_implemented |-> a, get_wake_status_supported |-> b]
  <2>1. to_value(name, v) = Struct(f)
    BY <1>7 DEF to_value
  <2>2. Flat1(a) /\ Flat1(b)
    BY <1>2, <1>3
  <2> HIDE DEF a, b
  <2>3. \A k \in DOMAIN f : f[k] = a \/ f[k] = b
    <3>1. DOMAIN f = {"realtime_implemented", "get_wake_status_supported"}
      OBVIOUS
    <3>2. f["realtime_implemented"] = a /\ f["get_wake_status_supported"] = b
      OBVIOUS
    <3> HIDE DEF f
    <3> QED BY <3>1, <3>2
  <2> HIDE DEF f
  <2> QED
    BY <1>4, <1>7, <2>1, <2>2, <2>3
<1>8. CASE name = "get_wake_status"
  <2> DEFINE a == Bool((v \div 2^0) % 2 = 1)
             b == Bool((v \div 2^1) % 2 = 1)
             f == [timer_expired |-> a, timer_triggered_wake |-> b]
  <2>1. to_value(name, v) = Struct(f)
    BY <1>8 DEF to_value
  <2>2. Flat1(a) /\ Flat1(b)
    BY <1>2, <1>3
  <2> HIDE DEF a, b
  <2>3. \A k \in DOMAIN f : f[k] = a \/ f[k] = b
    <3>1. DOMAIN f = {"timer_expired", "timer_triggered_wake"}
      OBVIOUS
    <3>2. f["timer_expired"] = a /\ f["timer_triggered_wake"] = b
      OBVIOUS
    <3> HIDE DEF f
    <3> QED BY <3>1, <3>2
  <2> HIDE DEF f
  <2> QED
    BY <1>4, <1>8, <2>1, <2>2, <2>3
<1>9. CASE name = "get_real_time"
  <2> DEFINE a == Num(v * 100)
             g == [unix_timestamp |-> a]
             b == Struct(g)
             f == [unix_timestamp |-> a, datetime |-> b]
  <2>1. to_value(name, v) = Struct(f)
    BY <1>9 DEF to_value
  <2>2. v \in Int
    BY <1>9 DEF AnswerOk, NumberMethods
  <2>3. Flat0(a)
    BY <1>1, <2>2
  <2> HIDE DEF a
  <2>4. DOMAIN g = {"unix_timestamp"} /\ g["unix_timestamp"] = a
    OBVIOUS
  <2>5. b.kind = "struct" /\ b.f = g
    BY DEF Struct
  <2>6. Flat1(a) /\ Flat1(b)
    <3> HIDE DEF b, g
    <3> QED
      BY <1>3, <2>3, <2>4, <2>5 DEF Flat1, Number
  <2> HIDE DEF b
  <2>7. \A k \in DOMAIN f : f[k] = a \/ f[k] = b
    <3>1. DOMAIN f = {"unix_timestamp", "datetime"}
      OBVIOUS
    <3>2. f["unix_timestamp"] = a /\ f["datetime"] = b
      OBVIOUS
    <3> HIDE DEF f
    <3> QED BY <3>1, <3>2
  <2> HIDE DEF f
  <2> QED
    BY <1>4, <1>9, <2>1, <2>6, <2>7
<1>10. CASE name \in {"get_expired_timer_wake_policy", "get_timer_value"}
  <2> DEFINE a == Num(v * 100)
             f == [k \in {"0", "value"} |-> a]
  <2>1. to_value(name, v) = Struct(f)
    BY <1>10 DEF to_value
  <2>2. v \in Int
    BY <1>10 DEF AnswerOk, NumberMethods
  <2>3. Flat1(a)
    BY <1>1, <1>3, <2>2
  <2> HIDE DEF a
  <2>5. \A k \in DOMAIN f : f[k] = a
    OBVIOUS
  <2> HIDE DEF f
  <2> QED
    BY <1>4, <1>10, <2>1, <2>3, <2>5
<1>11. CASE name \notin NumberMethods \cup RecordMethods \cup
                        {"get_capabilities", "get_wake_status"}
  <2>1. to_value(name, v) = Unit
    BY <1>11 DEF to_value, NumberMethods, RecordMethods
  <2> QED
    BY <1>11, <2>1 DEF Unit, Value, Number, NumberMethods
<1> QED
  BY <1>5, <1>6, <1>7, <1>8, <1>9, <1>10, <1>11 DEF NumberMethods, RecordMethods
-----------------------------------------------------------------------------
(***************************************************************************)
(* The firmware: what it stores and what a call gets out of it.            *)
(***************************************************************************)

\* A stored threshold: deciKelvin in 32 bits, or the mock's own number.
Dk == IF source = "acpi" THEN 0..(U32 - 1) ELSE Int
FwType == [threshold : [Thresholds -> Dk], rpm : Int, timer : [Timers -> Int],
           policy : [Timers -> Int], time : Int, wake : [Timers -> Int]]

(* c_to_dk stays within 32 bits, undoes dk_to_c, and is at most half a     *)
(* deciKelvin off for every temperature the EC can store.                  *)
LEMMA Conversion ==
  /\ \A n \in Int : c_to_dk(n) \in 0..(U32 - 1)
  /\ \A dk \in 0..(U32 - 1) : dk_to_c(dk) \in Int /\ c_to_dk(dk_to_c(dk)) = dk
  /\ \A n \in dk_to_c(0)..dk_to_c(U32 - 1) : dk_to_c(c_to_dk(n)) - n \in -5..5
<1> USE AcpiAssumption DEF c_to_dk, dk_to_c
<1>1. \A n \in Int : c_to_dk(n) \in 0..(U32 - 1)
  OBVIOUS
<1>2. \A dk \in 0..(U32 - 1) : dk_to_c(dk) \in Int /\ c_to_dk(dk_to_c(dk)) = dk
  OBVIOUS
<1>3. \A n \in dk_to_c(0)..dk_to_c(U32 - 1) : dk_to_c(c_to_dk(n)) - n \in -5..5
  <2> SUFFICES ASSUME NEW n \in Int, n + 27315 >= 0, n + 27315 <= (U32 - 1) * 10
               PROVE  dk_to_c(c_to_dk(n)) - n \in -5..5
    OBVIOUS
  <2> DEFINE dk == (n + 27315 + 5) \div 10
  <2>1. dk \in Int /\ dk * 10 <= n + 27320 /\ n + 27320 < dk * 10 + 10
    OBVIOUS
  <2>2. c_to_dk(n) = IF n + 27315 <= 0 THEN 0 ELSE IF dk >= U32 THEN U32 - 1 ELSE dk
    OBVIOUS
  <2> HIDE DEF dk, c_to_dk
  <2>3. dk < U32
    BY <2>1
  <2> QED
    BY <2>1, <2>2, <2>3
<1> HIDE DEF c_to_dk, dk_to_c
<1> QED
  BY <1>1, <1>2, <1>3

(* What the firmware holds at the start.                                   *)
LEMMA FwInit == Init => fw \in FwType
<1> SUFFICES ASSUME Init
             PROVE  fw \in FwType
  OBVIOUS
<1> DEFINE th == IF source = "acpi"
                 THEN [on |-> OnDk, ramping |-> OnDk + 120, max |-> OnDk + 160]
                 ELSE [on |-> 2800, ramping |-> 4000, max |-> 4400]
           rp == IF source = "acpi" THEN 1500 ELSE NoRpm
           no == [t \in Timers |-> 0]
           wk == [t \in Timers |-> IF source = "mock" THEN 0 ELSE 1]
<1>1. fw = [threshold |-> th, rpm |-> rp, timer |-> no, policy |-> no, time |-> 1, wake |-> wk]
  BY DEF Init
<1>2. th \in [Thresholds -> Dk]
  <2>1. CASE source = "acpi"
    <3>1. OnDk \in Dk /\ OnDk + 120 \in Dk /\ OnDk + 160 \in Dk
      BY <2>1, ScriptAssumption, AcpiAssumption DEF Dk
    <3> QED
      BY <2>1, <3>1 DEF Thresholds
  <2>2. CASE source # "acpi"
    <3>1. 2800 \in Dk /\ 4000 \in Dk /\ 4400 \in Dk
      BY <2>2 DEF Dk
    <3> QED
      BY <2>2, <3>1 DEF Thresholds
  <2> QED
    BY <2>1, <2>2
<1>3. rp \in Int
  BY DEF NoRpm
<1>4. no \in [Timers -> Int] /\ wk \in [Timers -> Int] /\ 1 \in Int
  OBVIOUS
<1> HIDE DEF th, rp, no, wk
<1> QED
  BY <1>1, <1>2, <1>3, <1>4 DEF FwType

(* A call that is carried out keeps what is stored of its type, and a      *)
(* threshold that is set is what was sent.                                 *)
LEMMA StoredOk ==
  ASSUME fw \in FwType, NEW method, MethodOk(method), NEW n \in Int,
         method.name = "set_threshold" => n \in Dk
  PROVE  /\ Stored(method, n) \in FwType
         /\ method.name = "set_threshold" =>
              Stored(method, n).threshold[method.selector] = n
<1>1. CASE method.name = "set_threshold"
  <2>1. Stored(method, n) = [fw EXCEPT !.threshold[method.selector] = n]
    BY <1>1 DEF Stored
  <2>2. method.selector \in Thresholds
    BY <1>1 DEF MethodOk
  <2> QED
    BY <1>1, <2>1, <2>2 DEF FwType
<1>2. CASE method.name = "set_rpm"
  <2>1. Stored(method, n) = [fw EXCEPT !.rpm = n]
    BY <1>2 DEF Stored
  <2> QED
    BY <1>2, <2>1 DEF FwType
<1>3. CASE method.name = "set_timer_value"
  <2>1. Stored(method, n) = [fw EXCEPT !.timer[method.selector] = n]
    BY <1>3 DEF Stored
  <2>2. method.selector \in Timers
    BY <1>3 DEF MethodOk, TimerMethods
  <2> QED
    BY <1>3, <2>1, <2>2 DEF FwType
<1>4. CASE method.name = "set_expired_timer_wake_policy"
  <2>1. Stored(method, n) = [fw EXCEPT !.policy[method.selector] = n]
    BY <1>4 DEF Stored
  <2>2. method.selector \in Timers
    BY <1>4 DEF MethodOk, TimerMethods
  <2> QED
    BY <1>4, <2>1, <2>2 DEF FwType
<1>5. CASE method.name = "set_real_time"
  <2>1. Stored(method, n) = [fw EXCEPT !.time = n]
    BY <1>5 DEF Stored
  <2> QED
    BY <1>5, <2>1 DEF FwType
<1>6. CASE method.name = "clear_wake_status"
  <2>1. Stored(method, n) = [fw EXCEPT !.wake[method.selector] = 0]
    BY <1>6 DEF Stored
  <2>2. method.selector \in Timers /\ 0 \in Int
    BY <1>6 DEF MethodOk, TimerMethods
  <2> QED
    BY <1>6, <2>1, <2>2 DEF FwType
<1>7. CASE method.name \notin {"set_threshold", "set_rpm", "set_timer_value",
             "set_expired_timer_wake_policy", "set_real_time", "clear_wake_status"}
  BY <1>7 DEF Stored
<1> QED
  BY <1>1, <1>2, <1>3, <1>4, <1>5, <1>6, <1>7
(* The right answer of a method is a sequence of arguments; a threshold's  *)
(* is its status and its value.                                            *)
LEMMA ReturnedType ==
  ASSUME fw \in FwType, source = "acpi", NEW method, MethodOk(method)
  PROVE  /\ Returned(method) \in Seq(ArgType)
         /\ method.name = "get_threshold" =>
              /\ Len(Returned(method)) = 2
              /\ Returned(method)[2] = Word(fw.threshold[method.selector])
<1> DEFINE nm == method.name
<1>1. \A v \in Int : Word(v) \in ArgType
  BY DEF Word, ArgType, AcpiInteger
<1>2. \A v \in Int : Bytes(v) \in ArgType
  BY DEF Bytes, ArgType, AcpiBuffer
<1>3. \A x \in ArgType : <<x>> \in Seq(ArgType)
  OBVIOUS
<1>4. \A x, y \in ArgType : <<x, y>> \in Seq(ArgType) /\ Len(<<x, y>>) = 2 /\ <<x, y>>[2] = y
  OBVIOUS
<1>5. \A x, y, z, u \in ArgType : <<x, y, z, u>> \in Seq(ArgType)
  OBVIOUS
<1>6. /\ 0 \in Int /\ 1 \in Int /\ 20 \in Int /\ 120 \in Int /\ 500 \in Int /\ 3000 \in Int
      /\ 6000 \in Int /\ 16 \in Int /\ BixStringLen \in Int
  BY DEF BixStringLen
<1>7. nm \in {"get_threshold", "set_threshold"} => fw.threshold[method.selector] \in Int
  BY AcpiAssumption DEF MethodOk, FwType, Dk
<1>8. nm \in TimerMethods => /\ fw.wake[method.selector] \in Int
                             /\ fw.policy[method.selector] \in Int
                             /\ fw.timer[method.selector] \in Int
  BY DEF MethodOk, FwType
<1>9. fw.rpm \in Int /\ fw.time \in Int
  BY DEF FwType
<1>10. [Bytes(16) EXCEPT !.low = fw.time] \in ArgType
  <2>1. \A b \in ArgType, i \in Int : [b EXCEPT !.low = i] \in ArgType
    BY DEF ArgType
  <2> QED
    BY <1>2, <1>6, <1>9, <2>1
<1>11. Bix \in Seq(ArgType)
  <2>1. \A i \in 1..21 : (IF i \in BixStrings THEN Bytes(BixStringLen) ELSE Word(1)) \in ArgType
    BY <1>1, <1>2, <1>6
  <2> DEFINE b == [i \in 1..21 |-> IF i \in BixStrings THEN Bytes(BixStringLen) ELSE Word(1)]
  <2>2. b \in [1..21 -> ArgType]
    BY <2>1
  <2> HIDE DEF b
  <2>3. \A f \in [1..21 -> ArgType] : f \in Seq(ArgType)
    <3>1. \A n \in Nat : \A f \in [1..n -> ArgType] : f \in Seq(ArgType)
      BY IsASeq
    <3>2. 21 \in Nat
      OBVIOUS
    <3> QED
      BY <3>1, <3>2, Zenon
  <2> QED
    BY <2>2, <2>3 DEF Bix, b
<1> HIDE DEF Word, Bytes
<1>12. CASE nm = "get_threshold"
  <2>1. Returned(method) = <<Word(0), Word(fw.threshold[method.selector])>>
    BY <1>12 DEF Returned
  <2> QED
    BY <1>1, <1>4, <1>6, <1>7, <1>12, <2>1
<1>13. CASE nm = "get_rpm"
  BY <1>1, <1>4, <1>6, <1>9, <1>13 DEF Returned
<1>14. CASE nm = "get_min_rpm"
  BY <1>1, <1>4, <1>6, <1>14 DEF Returned
<1>15. CASE nm = "get_max_rpm"
  BY <1>1, <1>4, <1>6, <1>15 DEF Returned
<1>16. CASE nm = "get_bst"
  BY <1>1, <1>5, <1>6, <1>16 DEF Returned
<1>17. CASE nm = "get_bix"
  BY <1>11, <1>17 DEF Returned
<1>18. CASE nm = "get_temperature"
  BY <1>1, <1>3, <1>6, <1>18 DEF Returned
<1>19. CASE nm = "get_capabilities"
  BY <1>1, <1>3, <1>6, <1>19 DEF Returned
<1>20. CASE nm = "get_real_time"
  BY <1>3, <1>10, <1>20 DEF Returned
<1>21. CASE nm = "get_wake_status"
  BY <1>1, <1>3, <1>8, <1>21 DEF Returned, TimerMethods
<1>22. CASE nm = "get_expired_timer_wake_policy"
  BY <1>1, <1>3, <1>8, <1>22 DEF Returned, TimerMethods
<1>23. CASE nm = "get_timer_value"
  BY <1>1, <1>3, <1>8, <1>23 DEF Returned, TimerMethods
<1>24. CASE nm = "set_btp"
  <2>1. Returned(method) = <<>>
    BY <1>24 DEF Returned
  <2> QED
    BY <1>24, <2>1, EmptySeq
<1>25. CASE nm \notin {"get_threshold", "get_rpm", "get_min_rpm", "get_max_rpm", "get_bst",
                       "get_bix", "get_temperature", "get_capabilities", "get_real_time",
                       "get_wake_status", "get_expired_timer_wake_policy", "get_timer_value",
                       "set_btp"}
  BY <1>1, <1>3, <1>6, <1>25 DEF Returned
<1> QED
  BY <1>12, <1>13, <1>14, <1>15, <1>16, <1>17, <1>18, <1>19, <1>20, <1>21, <1>22, <1>23,
     <1>24, <1>25

(* Whatever the driver answers, what decodes is a sequence of arguments,   *)
(* as long as the right one and equal to it but for the first.             *)
LEMMA Decoded ==
  ASSUME fw \in FwType, source = "acpi", NEW method, MethodOk(method),
         NEW reply \in Replies(method), evaluate(reply.answer).ok
  PROVE  LET out == evaluate(reply.answer).v
             args == Returned(method)
         IN  /\ out \in Seq(ArgType) /\ Len(out) = Len(args)
             /\ Len(args) \in Nat /\ \A i \in 2..Len(args) : out[i] = args[i]
<1> DEFINE args == Returned(method)
           out == evaluate(reply.answer).v
<1>1. args \in Seq(ArgType) /\ Len(args) \in Nat
  BY ReturnedType
<1> HIDE DEF args
<1>2. \/ \E a \in Right(args) : reply = [answer |-> a, applied |-> TRUE]
      \/ \E a \in Wrong(args) : \E b : reply = [answer |-> a, applied |-> b]
  <2> DEFINE either == IF method.name \in Setters THEN BOOLEAN ELSE {TRUE}
  <2>1. Replies(method) = {[answer |-> a, applied |-> TRUE] : a \in Right(args)} \cup
                          {[answer |-> a, applied |-> b] : a \in Wrong(args), b \in either}
    BY DEF Replies, args
  <2> HIDE DEF either
  <2> QED
    BY <2>1
<1>3. reply.answer \in Right(args) \/ reply.answer \in Wrong(args)
  BY <1>2
<1>4. ASSUME NEW x \in ArgType, args # <<>>, out = [args EXCEPT ![1] = x]
      PROVE  /\ out \in Seq(ArgType) /\ Len(out) = Len(args)
             /\ \A i \in 2..Len(args) : out[i] = args[i]
  <2>1. Len(args) \in Nat \ {0}
    BY <1>1, <1>4, EmptySeq
  <2>2. [args EXCEPT ![1] = x] \in Seq(ArgType)
    BY <1>1, <2>1, ExceptSeq
  <2>3. Len([args EXCEPT ![1] = x]) = Len(args)
        /\ \A i \in 2..Len(args) : [args EXCEPT ![1] = x][i] = args[i]
    BY <1>1, <2>1
  <2> QED
    BY <1>4, <2>2, <2>3
<1>5. args # <<>> => args[1] \in ArgType
  <2>1. args # <<>> => Len(args) \in Nat \ {0}
    BY <1>1, EmptySeq
  <2> QED
    BY <1>1, <2>1, ElementOfSeq
<1>6. CASE reply.answer \in Right(args)
  <2>1. \/ out = args
        \/ args # <<>> /\ out = [args EXCEPT ![1] = [args[1] EXCEPT !.len = 8]]
    BY <1>1, <1>6, RightDecodes
  <2>2. args # <<>> => [args[1] EXCEPT !.len = 8] \in ArgType
    BY <1>5, BrokenType
  <2> QED
    BY <1>1, <1>4, <2>1, <2>2 DEF args
<1>7. CASE reply.answer \in Wrong(args)
  <2>1. args # <<>> /\ \E x \in Broken(args[1]) : out = [args EXCEPT ![1] = x]
    BY <1>1, <1>7, WrongDecodes
  <2>2. PICK x \in Broken(args[1]) : out = [args EXCEPT ![1] = x]
    BY <2>1
  <2>3. x \in ArgType
    BY <1>5, <2>1, BrokenType
  <2> QED
    BY <1>1, <1>4, <2>1, <2>2, <2>3 DEF args
<1> QED
  BY <1>3, <1>6, <1>7
(* An answer the ACPI source accepts is made of numbers, and a threshold   *)
(* is the one the firmware stores.                                         *)
LEMMA AcpiAnswerOk ==
  ASSUME fw \in FwType, source = "acpi", NEW method, MethodOk(method),
         NEW reply \in Replies(method), Call(method, reply.answer).ok
  PROVE  LET v == Call(method, reply.answer).v
         IN  /\ AnswerOk(method.name, v)
             /\ method.name = "get_threshold" => v = dk_to_c(fw.threshold[method.selector])
<1> DEFINE nm == method.name
           out == evaluate(reply.answer)
           r == Call(method, reply.answer)
<1>1. r = Acpi(method, out) /\ r.ok
  BY DEF Call
<1>2. \A a \in ArgType : data_32(a) \in Int
  BY DEF data_32, ArgType
<1>3. \A i \in Int : dk_to_c(i) \in Int /\ i * 100 \in Int
  BY DEF dk_to_c
<1>4. out.ok => /\ out.v \in Seq(ArgType) /\ Len(out.v) = Len(Returned(method))
                /\ \A i \in 2..Len(Returned(method)) : out.v[i] = Returned(method)[i]
  BY Decoded
<1>5. out.ok => \A i \in 1..Len(out.v) : out.v[i] \in ArgType
  <2> HIDE DEF out
  <2> QED
    BY <1>4, ElementOfSeq
<1> HIDE DEF out, r
<1>6. ASSUME acpi_get_var(out).ok
      PROVE  acpi_get_var(out).v \in Int /\ out.ok /\ Len(out.v) = 2
             /\ acpi_get_var(out).v = data_32(out.v[2])
  <2>1. out.ok /\ Len(out.v) = 2 /\ acpi_get_var(out).v = data_32(out.v[2])
    BY <1>6 DEF acpi_get_var, Ok, Err
  <2> QED
    BY <1>2, <1>5, <2>1
<1>7. ASSUME evaluate_u32(out).ok
      PROVE  evaluate_u32(out).v \in Int
  <2>1. out.ok /\ Len(out.v) = 1 /\ out.v[1].type = AcpiInteger
    BY <1>7 DEF evaluate_u32, Err
  <2>2. out.v[1] \in ArgType
    BY <1>5, <2>1
  <2>3. out.v[1].low \in Int
    BY <2>2 DEF ArgType
  <2>4. data_32(out.v[1]) \in Int
    BY <1>2, <2>2
  <2>5. CASE out.v[1].len = 4
    BY <2>1, <2>4, <2>5 DEF evaluate_u32, Ok
  <2>6. CASE out.v[1].len = 8
    BY <1>7, <2>1, <2>3, <2>6 DEF evaluate_u32, Ok, Err
  <2>7. CASE out.v[1].len \notin {4, 8}
    BY <1>7, <2>1, <2>7 DEF evaluate_u32, Err
  <2> QED
    BY <2>5, <2>6, <2>7
<1>8. CASE nm = "get_temperature"
  <2>1. r = get_temperature(out)
    BY <1>1, <1>8 DEF Acpi
  <2>2. out.ok /\ Len(out.v) = 1 /\ r.v = dk_to_c(data_32(out.v[1]))
    BY <1>1, <2>1 DEF get_temperature, Ok, Err
  <2>3. r.v \in Int
    BY <1>2, <1>3, <1>5, <2>2
  <2> QED
    BY <1>8, <2>3 DEF AnswerOk, RecordMethods, r
<1>9. CASE nm \in {"get_rpm", "get_min_rpm", "get_max_rpm"}
  <2>1. r = scaled(acpi_get_var(out))
    BY <1>1, <1>9 DEF Acpi
  <2>2. acpi_get_var(out).ok /\ r.v = acpi_get_var(out).v * 100
    BY <1>1, <2>1 DEF scaled, Ok
  <2>3. r.v \in Int
    BY <1>3, <1>6, <2>2
  <2> QED
    BY <1>9, <2>3 DEF AnswerOk, RecordMethods, r
<1>10. CASE nm = "get_threshold"
  <2>1. r = get_threshold(acpi_get_var(out))
    BY <1>1, <1>10 DEF Acpi
  <2>2. acpi_get_var(out).ok /\ r.v = dk_to_c(acpi_get_var(out).v)
    BY <1>1, <2>1 DEF get_threshold, Ok
  <2>3. Len(Returned(method)) = 2 /\ Returned(method)[2] = Word(fw.threshold[method.selector])
    BY <1>10, ReturnedType
  <2>4. acpi_get_var(out).v = data_32(Word(fw.threshold[method.selector]))
    BY <1>4, <1>6, <2>2, <2>3
  <2>5. data_32(Word(fw.threshold[method.selector])) = fw.threshold[method.selector]
    BY DEF data_32, Word
  <2>6. r.v \in Int
    BY <1>3, <1>6, <2>2
  <2> QED
    BY <1>10, <2>2, <2>4, <2>5, <2>6 DEF AnswerOk, RecordMethods, r
<1>11. CASE nm = "get_bst"
  <2>1. r = get_bst(out)
    BY <1>1, <1>11 DEF Acpi
  <2> DEFINE a == data_32(out.v[1])
             b == data_32(out.v[2])
             c == data_32(out.v[3])
             d == data_32(out.v[4])
             f == [battery_state |-> a, battery_present_rate |-> b,
                   battery_remaining_capacity |-> c, battery_present_voltage |-> d]
  <2>2. out.ok /\ Len(out.v) = 4 /\ r.v = f
    BY <1>1, <2>1 DEF get_bst, Ok, Err
  <2>3. a \in Int /\ b \in Int /\ c \in Int /\ d \in Int
    BY <1>2, <1>5, <2>2
  <2> HIDE DEF a, b, c, d
  <2>4. DOMAIN f = {"battery_state", "battery_present_rate", "battery_remaining_capacity",
                    "battery_present_voltage"}
    OBVIOUS
  <2>5. /\ f["battery_state"] = a /\ f["battery_present_rate"] = b
        /\ f["battery_remaining_capacity"] = c /\ f["battery_present_voltage"] = d
    OBVIOUS
  <2> HIDE DEF f
  <2>6. \A k \in DOMAIN r.v : r.v[k] \in Int
    BY <2>2, <2>3, <2>4, <2>5
  <2> QED
    BY <1>11, <2>6 DEF AnswerOk, NumberMethods, r
<1>12. CASE nm = "get_bix"
  <2>1. r = get_bix(out)
    BY <1>1, <1>12 DEF Acpi
  <2> DEFINE a == data_32(out.v[3])
             b == data_32(out.v[9])
             f == [design_capacity |-> a, cycle_count |-> b]
  <2>2. out.ok /\ Len(out.v) = 21 /\ r.v = f
    BY <1>1, <2>1 DEF get_bix, Ok, Err
  <2>3. a \in Int /\ b \in Int
    BY <1>2, <1>5, <2>2
  <2> HIDE DEF a, b
  <2>4. DOMAIN f = {"design_capacity", "cycle_count"}
    OBVIOUS
  <2>5. f["design_capacity"] = a /\ f["cycle_count"] = b
    OBVIOUS
  <2> HIDE DEF f
  <2>6. \A k \in DOMAIN r.v : r.v[k] \in Int
    BY <2>2, <2>3, <2>4, <2>5
  <2> QED
    BY <1>12, <2>6 DEF AnswerOk, NumberMethods, r
<1>13. CASE nm = "get_real_time"
  <2>1. r = get_real_time(out)
    BY <1>1, <1>13 DEF Acpi
  <2>2. out.ok /\ Len(out.v) = 1 /\ r.v = out.v[1].low
    BY <1>1, <2>1 DEF get_real_time, Ok, Err
  <2>3. out.v[1] \in ArgType
    BY <1>5, <2>2
  <2>4. r.v \in Int
    BY <2>2, <2>3 DEF ArgType
  <2> QED
    BY <1>13, <2>4 DEF AnswerOk, RecordMethods, r
<1>14. CASE nm \in {"get_timer_value", "get_expired_timer_wake_policy"}
  <2>1. r = evaluate_u32(out)
    BY <1>1, <1>14 DEF Acpi
  <2> QED
    BY <1>1, <1>7, <1>14, <2>1 DEF AnswerOk, RecordMethods, r
<1>15. CASE nm \notin NumberMethods \cup RecordMethods
  BY <1>15 DEF AnswerOk, NumberMethods
<1> QED
  BY <1>8, <1>9, <1>10, <1>11, <1>12, <1>13, <1>14, <1>15 DEF NumberMethods, RecordMethods

(* So is what the mock and the Windows driver return.                      *)
LEMMA OtherAnswerOk ==
  ASSUME fw \in FwType, source \in {"windows", "mock"}, NEW method, MethodOk(method),
         NEW reply \in Replies(method), Call(method, reply.answer).ok
  PROVE  LET v == Call(method, reply.answer).v
         IN  /\ AnswerOk(method.name, v)
             /\ method.name = "get_threshold" => v = fw.threshold[method.selector]
<1> DEFINE nm == method.name
           r == Call(method, reply.answer)
<1>1. nm \in TimerMethods => fw.timer[method.selector] \in Int /\ fw.policy[method.selector] \in Int
  BY DEF FwType, MethodOk
<1>2. fw.time \in Int /\ fw.rpm \in Int
  BY DEF FwType
<1>3. DriverValue(method) \in Int
  <2>1. CASE nm = "get_real_time"
    BY <1>2, <2>1 DEF DriverValue
  <2>2. CASE nm = "get_timer_value"
    BY <1>1, <2>2 DEF DriverValue, TimerMethods
  <2>3. CASE nm = "get_expired_timer_wake_policy"
    BY <1>1, <2>3 DEF DriverValue, TimerMethods
  <2>4. CASE nm = "get_capabilities"
    BY <2>4 DEF DriverValue
  <2>5. CASE nm \notin {"get_real_time", "get_timer_value", "get_expired_timer_wake_policy",
                        "get_capabilities"}
    BY <2>5 DEF DriverValue
  <2> QED
    BY <2>1, <2>2, <2>3, <2>4, <2>5
<1>4. ASSUME NEW v \in MockValues(method)
      PROVE  /\ AnswerOk(nm, v)
             /\ nm = "get_threshold" => v = fw.threshold[method.selector]
  <2>1. CASE nm = "get_temperature"
    <3>1. v \in {2500, 4200}
      BY <1>4, <2>1 DEF MockValues
    <3> QED
      BY <2>1, <3>1 DEF AnswerOk, RecordMethods
  <2>2. CASE nm = "get_rpm"
    <3>1. v = fw.rpm \/ v \in {0, 150000}
      BY <1>4, <2>2 DEF MockValues
    <3> QED
      BY <1>2, <2>2, <3>1 DEF AnswerOk, RecordMethods
  <2>3. CASE nm = "get_max_rpm"
    <3>1. v = 600000
      BY <1>4, <2>3 DEF MockValues
    <3> QED
      BY <2>3, <3>1 DEF AnswerOk, RecordMethods
  <2>4. CASE nm = "get_threshold"
    <3>1. v = fw.threshold[method.selector]
      BY <1>4, <2>4 DEF MockValues
    <3>2. v \in Int
      BY <2>4, <3>1 DEF FwType, Dk, MethodOk
    <3> QED
      BY <2>4, <3>1, <3>2 DEF AnswerOk, RecordMethods
  <2>5. CASE nm = "get_bst"
    <3>1. PICK c \in {1000, 2000} :
            v = [battery_state |-> 2, battery_present_rate |-> 3839,
                 battery_remaining_capacity |-> c, battery_present_voltage |-> 12569]
      BY <1>4, <2>5 DEF MockValues
    <3>2. DOMAIN v = {"battery_state", "battery_present_rate", "battery_remaining_capacity",
                      "battery_present_voltage"}
      BY <3>1
    <3>3. /\ v["battery_state"] \in Int /\ v["battery_present_rate"] \in Int
          /\ v["battery_remaining_capacity"] \in Int /\ v["battery_present_voltage"] \in Int
      BY <3>1
    <3> QED
      BY <2>5, <3>2, <3>3 DEF AnswerOk, NumberMethods
  <2>6. CASE nm = "get_bix"
    <3>1. v = [design_capacity |-> 10000, cycle_count |-> 1337]
      BY <1>4, <2>6 DEF MockValues
    <3>2. DOMAIN v = {"design_capacity", "cycle_count"}
      BY <3>1
    <3>3. v["design_capacity"] \in Int /\ v["cycle_count"] \in Int
      BY <3>1
    <3> QED
      BY <2>6, <3>2, <3>3 DEF AnswerOk, NumberMethods
  <2>7. CASE nm \in {"get_min_rpm", "get_real_time", "get_expired_timer_wake_policy",
                     "get_timer_value"}
    <3>1. v = DriverValue(method)
      BY <1>4, <2>7 DEF MockValues
    <3> QED
      BY <1>3, <2>7, <3>1 DEF AnswerOk, RecordMethods
  <2>8. CASE nm \notin NumberMethods \cup RecordMethods
    BY <2>8 DEF AnswerOk, NumberMethods
  <2> QED
    BY <2>1, <2>2, <2>3, <2>4, <2>5, <2>6, <2>7, <2>8 DEF NumberMethods, RecordMethods
<1>5. CASE nm \notin NumberMethods \cup RecordMethods
  BY <1>5 DEF AnswerOk, NumberMethods
<1>6. CASE source = "windows" /\ nm \in {"get_real_time", "get_expired_timer_wake_policy",
                                         "get_timer_value"}
  <2> DEFINE good == [bytes_returned |-> OutLen(method), value |-> DriverValue(method)]
             short == [good EXCEPT !.bytes_returned = IF @ = 0 THEN 4 ELSE @ - 4]
             either == IF nm \in Setters THEN BOOLEAN ELSE {TRUE}
  <2>1. nm \in RtcMethods \ {"get_wake_status", "clear_wake_status"}
    BY <1>6 DEF RtcMethods, Signature
  <2>2. Replies(method) = {[answer |-> Ok(good), applied |-> TRUE]} \cup
             {[answer |-> a, applied |-> b] : a \in {Err("Io"), Ok(short)}, b \in either}
    BY <1>6, <2>1 DEF Replies
  <2>3. good.value = DriverValue(method) /\ short.value = DriverValue(method)
    OBVIOUS
  <2> HIDE DEF good, short, either
  <2>4. reply.answer \in {Ok(good), Err("Io"), Ok(short)}
    BY <2>2
  <2>5. r = ioctl(reply.answer, OutLen(method))
    BY <1>6, <2>1 DEF Call, Windows
  <2>6. r.v = DriverValue(method)
    BY <2>3, <2>4, <2>5 DEF ioctl, Ok, Err
  <2> QED
    BY <1>3, <1>6, <2>6 DEF AnswerOk, RecordMethods
<1>7. CASE /\ nm \in NumberMethods \cup RecordMethods
           /\ ~(source = "windows" /\ nm \in {"get_real_time", "get_expired_timer_wake_policy",
                                              "get_timer_value"})
  <2>1. source = "windows" => nm \notin RtcMethods
    <3>1. RtcMethods = {"get_capabilities", "get_real_time", "set_real_time", "get_wake_status",
                        "get_expired_timer_wake_policy", "get_timer_value", "set_timer_value",
                        "set_expired_timer_wake_policy", "clear_wake_status"}
      BY DEF RtcMethods, Signature
    <3> QED
      BY <1>7, <3>1 DEF NumberMethods, RecordMethods
  <2>2. nm \notin {"get_wake_status", "clear_wake_status"}
    BY <1>7 DEF NumberMethods, RecordMethods
  <2>3. Replies(method) = {[answer |-> Ok(v), applied |-> TRUE] : v \in MockValues(method)}
    <3>1. CASE source = "windows"
      <4>1. /\ source # "acpi" /\ method.name \notin {"get_wake_status", "clear_wake_status"}
            /\ method.name \notin RtcMethods \ {"get_wake_status", "clear_wake_status"}
        BY <2>1, <2>2, <3>1
      <4> HIDE DEF RtcMethods, Returned, Right, Wrong, OutLen, DriverValue, MockValues, Setters
      <4> QED
        BY <4>1 DEF Replies
    <3>2. CASE source = "mock"
      BY <3>2 DEF Replies
    <3> QED
      BY <3>1, <3>2
  <2>4. PICK v \in MockValues(method) : reply.answer = Ok(v)
    BY <2>3
  <2>5. r = reply.answer
    BY <2>1, <2>2 DEF Call, Windows
  <2>6. r.v = v
    BY <2>4, <2>5 DEF Ok
  <2> QED
    BY <1>4, <2>6
<1> QED
  BY <1>5, <1>6, <1>7
-----------------------------------------------------------------------------

(* A setter's argument is a number; a variable's is the one bound to it.   *)
LEMMA ArgumentOk ==
  ASSUME NEW method, MethodOk(method), \A x \in DOMAIN env : Value(env[x]),
         argument(method, env).ok
  PROVE  /\ argument(method, env).v \in Int
         /\ method.name = "set_threshold" /\ method.operand.kind = "var" =>
              /\ method.operand.v \in DOMAIN env
              /\ argument(method, env).v = env[method.operand.v].n
<1> DEFINE op == method.operand
           v == resolve(op, env)
           n == num_arg(op, env)
<1>1. n.ok => v.ok /\ v.v.kind = "number" /\ n.v = v.v.n
  BY DEF num_arg, Ok, Err
<1>2. n.ok => n.v \in Int /\ (op.kind = "var" => op.v \in DOMAIN env /\ n.v = env[op.v].n)
  <2> SUFFICES ASSUME n.ok
               PROVE  n.v \in Int /\ (op.kind = "var" => op.v \in DOMAIN env /\ n.v = env[op.v].n)
    OBVIOUS
  <2>0. v.ok /\ v.v.kind = "number" /\ n.v = v.v.n
    BY <1>1
  <2> HIDE DEF n
  <2>1. CASE op.kind = "num"
    <3>1. v.v = Num(op.v)
      BY <2>1 DEF resolve, Ok
    <3>2. v.v.n = op.v /\ op.v \in Int
      BY <2>1, <3>1 DEF Num, MethodOk
    <3> QED
      BY <2>0, <2>1, <3>2
  <2>2. CASE op.kind = "bool"
    <3>1. v.v = Bool(op.v)
      BY <2>2 DEF resolve, Ok
    <3> QED
      BY <2>0, <3>1 DEF Bool
  <2>3. CASE op.kind \notin {"num", "bool"}
    <3>1. op.v \in DOMAIN env /\ v.v = env[op.v]
      BY <2>0, <2>3 DEF resolve, Ok, Err
    <3>2. env[op.v].n \in Int
      BY <2>0, <3>1 DEF Value, Number
    <3> QED
      BY <2>0, <3>1, <3>2
  <2> QED
    BY <2>1, <2>2, <2>3
<1> HIDE DEF n
<1>3. CASE method.name \in {"set_rpm", "set_threshold"}
  <2>1. argument(method, env) = n
    BY <1>3 DEF argument, n
  <2> QED
    BY <1>2, <2>1
<1>4. CASE method.name \in {"set_btp", "set_timer_value", "set_expired_timer_wake_policy"}
  <2>1. argument(method, env) = u32_arg(op, env)
    BY <1>4 DEF argument
  <2>2. n.ok /\ u32_arg(op, env).v = n.v \div 100
    <3>1. u32_arg(op, env) = IF n.ok /\ (n.v < 0 \/ n.v > (U32 - 1) * 100)
                             THEN Err("out of u32 range")
                             ELSE IF n.ok THEN Ok(n.v \div 100) ELSE n
      BY DEF u32_arg, n
    <3>2. ~Err("out of u32 range").ok /\ Ok(n.v \div 100).v = n.v \div 100
      BY DEF Ok, Err
    <3> DEFINE big == n.v < 0 \/ n.v > (U32 - 1) * 100
               q == n.v \div 100
    <3>3. u32_arg(op, env).ok
      BY <2>1
    <3> HIDE DEF big, q
    <3> QED
      BY <3>1, <3>2, <3>3 DEF big, q
  <2>3. n.v \div 100 \in Int
    BY <1>2, <2>2
  <2> QED
    BY <1>4, <2>1, <2>2, <2>3
<1>5. CASE method.name = "set_real_time"
  <2>1. argument(method, env) = Ok(op.v)
    BY <1>5 DEF argument
  <2> QED
    BY <1>5, <2>1 DEF Ok, MethodOk
<1>6. CASE method.name \notin {"set_rpm", "set_threshold", "set_btp", "set_timer_value",
                               "set_expired_timer_wake_policy", "set_real_time"}
  <2>1. argument(method, env) = Ok(0)
    BY <1>6 DEF argument
  <2> QED
    BY <1>6, <2>1 DEF Ok
<1> QED
  BY <1>3, <1>4, <1>5, <1>6

(* What is sent is what can be stored; for a threshold it is the nearest   *)
(* to the argument, and the stored one itself when that was read.          *)
LEMMA SentOk ==
  ASSUME source \in {"acpi", "windows", "mock"}, NEW method, NEW n \in Int
  PROVE  /\ sent(method, n) \in Int
         /\ method.name = "set_threshold" =>
              /\ sent(method, n) \in Dk
              /\ n \in dk_to_c(0)..dk_to_c(U32 - 1) => Celsius(sent(method, n)) - n \in -5..5
              /\ \A k \in Dk : n = Celsius(k) => sent(method, n) = k
<1>1. CASE source = "acpi" /\ method.name = "set_threshold"
  <2>1. sent(method, n) = c_to_dk(n) /\ Dk = 0..(U32 - 1)
    BY <1>1 DEF sent, Dk
  <2>2. \A k : Celsius(k) = dk_to_c(k)
    BY <1>1 DEF Celsius
  <2>3. c_to_dk(n) \in Int
    BY Conversion, AcpiAssumption
  <2> QED
    BY <2>1, <2>2, <2>3, Conversion
<1>2. CASE source = "acpi" /\ method.name = "set_rpm"
  <2>1. sent(method, n) = as_u32(n)
    BY <1>2 DEF sent
  <2>2. as_u32(n) \in Int
    BY AcpiAssumption DEF as_u32
  <2> QED
    BY <1>2, <2>1, <2>2
<1>3. CASE source = "acpi" /\ method.name \notin {"set_threshold", "set_rpm"}
  BY <1>3 DEF sent
<1>4. CASE source # "acpi"
  <2>1. sent(method, n) = n /\ Dk = Int /\ \A k : Celsius(k) = k
    BY <1>4 DEF sent, Dk, Celsius
  <2> QED
    BY <2>1
<1> QED
  BY <1>1, <1>2, <1>3, <1>4

(* What a let binds is a value, and a threshold's is what the EC stores.   *)
LEMMA ResultOk ==
  ASSUME source \in {"acpi", "windows", "mock"}, fw \in FwType,
         NEW s \in Statements, NEW arg, NEW reply \in Replies(s.method),
         eval_call(s, invoke(s.method, arg, Call(s.method, reply.answer))).ok
  PROVE  LET v == eval_call(s, invoke(s.method, arg, Call(s.method, reply.answer))).v
         IN  /\ Value(v)
             /\ s.method.name = "get_threshold" =>
                  v = Num(Celsius(fw.threshold[s.method.selector]))
<1> DEFINE r == Call(s.method, reply.answer)
           i == invoke(s.method, arg, r)
           value == to_value(s.method.name, r.v)
<1>1. MethodOk(s.method) /\ Len(s.projection) \in Nat
  BY StatementOk
<1>2. i.ok /\ eval_call(s, i) = project(i.v, s.projection)
  <2> HIDE DEF i
  <2> QED
    BY DEF eval_call, i
<1>3. r.ok /\ i.v = value
  <2> HIDE DEF r, value
  <2> QED
    BY <1>2 DEF invoke, Ok, value
<1>4. /\ AnswerOk(s.method.name, r.v)
      /\ s.method.name = "get_threshold" => r.v = Celsius(fw.threshold[s.method.selector])
  <2>1. CASE source = "acpi"
    BY <1>1, <1>3, <2>1, AcpiAnswerOk DEF Celsius
  <2>2. CASE source \in {"windows", "mock"}
    BY <1>1, <1>3, <2>2, OtherAnswerOk DEF Celsius
  <2> QED
    BY <2>1, <2>2
<1> HIDE DEF r
<1>5. Value(value) /\ (s.method.name = "get_threshold" => value = Num(r.v))
  BY <1>4, ToValueOk
<1> HIDE DEF value
<1>6. /\ Value(project(value, s.projection).v)
      /\ value.kind = "number" => project(value, s.projection).v = value
  BY <1>1, <1>2, <1>3, <1>5, ProjectKeeps DEF r
<1>7. s.method.name = "get_threshold" => value.kind = "number"
  BY <1>5 DEF Num
<1>8. eval_call(s, i).v = project(value, s.projection).v
  BY <1>2, <1>3
<1> QED
  BY <1>4, <1>5, <1>6, <1>7, <1>8 DEF r
\* What is bound to a name are values, and what was read from a threshold is
\* that threshold in degrees; the firmware stores what it can return.
BoundInv ==
  /\ source \in {"acpi", "windows", "mock"} /\ fw \in FwType
  /\ DOMAIN captured = DOMAIN env
  /\ \A x \in DOMAIN env :
       /\ Value(env[x])
       /\ captured[x] # NoRpm => captured[x] \in Dk /\ env[x] = Num(Celsius(captured[x]))
  /\ ThresholdRoundTrip

(* Nothing is bound at the start.                                          *)
LEMMA BoundInit == Init => BoundInv
<1> SUFFICES ASSUME Init
             PROVE  BoundInv
  OBVIOUS
<1>1. source \in {"acpi", "windows", "mock"} /\ env = <<>> /\ captured = <<>> /\ row = NoRow
  BY DEF Init
<1>2. DOMAIN env = {} /\ DOMAIN captured = {}
  BY <1>1
<1>3. ThresholdRoundTrip
  BY <1>1 DEF ThresholdRoundTrip, NoRow
<1> QED
  BY <1>1, <1>2, <1>3, FwInit DEF BoundInv

(* A statement keeps it: what it stores and what it binds.                 *)
LEMMA ExecuteKeepsBoundInv ==
  ASSUME BoundInv, NEW s \in Statements, Execute(s)
  PROVE  BoundInv'
<1>1. source' = source
  BY DEF Execute
<1>2. PICK arg \in {argument(s.method, env)}, reply \in Replies(s.method) :
        \E r \in {Call(s.method, reply.answer)} :
        \E result \in {eval_call(s, invoke(s.method, arg, r))} :
        \E ok \in {IF s.form = "let" THEN result.ok ELSE apply_verb(s.verb, result, env)} :
          LET binds == s.form = "let" /\ result.ok
              origin == IF s.method.name = "get_threshold" THEN fw.threshold[s.method.selector]
                                                           ELSE NoRpm
          IN  /\ fw' = IF arg.ok /\ reply.applied THEN Stored(s.method, sent(s.method, arg.v))
                                                  ELSE fw
              /\ env' = IF binds THEN insert(env, s.name, result.v) ELSE env
              /\ captured' = IF binds THEN insert(captured, s.name, origin) ELSE captured
              /\ row' = [verb |-> IF s.form = "let" THEN "let" ELSE s.verb.verb, pass |-> ok,
                         made |-> arg.ok, returned |-> arg.ok /\ r.ok,
                         applied |-> arg.ok /\ reply.applied, method |-> s.method,
                         arg |-> IF arg.ok THEN arg.v ELSE 0]
  BY ZenonT(180) DEF Execute
<1> DEFINE r == Call(s.method, reply.answer)
           result == eval_call(s, invoke(s.method, arg, r))
           binds == s.form = "let" /\ result.ok
           origin == IF s.method.name = "get_threshold" THEN fw.threshold[s.method.selector]
                                                        ELSE NoRpm
<1>3. /\ fw' = IF arg.ok /\ reply.applied THEN Stored(s.method, sent(s.method, arg.v)) ELSE fw
      /\ env' = IF binds THEN insert(env, s.name, result.v) ELSE env
      /\ captured' = IF binds THEN insert(captured, s.name, origin) ELSE captured
  BY <1>2
<1>4. /\ row'.verb = (IF s.form = "let" THEN "let" ELSE s.verb.verb)
      /\ row'.applied = (arg.ok /\ reply.applied) /\ row'.method = s.method
      /\ row'.arg = (IF arg.ok THEN arg.v ELSE 0)
  BY <1>2
<1>5. arg = argument(s.method, env)
  OBVIOUS
<1>6. MethodOk(s.method)
  BY StatementOk
<1>7. Dk' = Dk /\ FwType' = FwType /\ \A k : Celsius(k)' = Celsius(k)
  BY <1>1 DEF Dk, FwType, Celsius
<1>8. arg.ok => /\ arg.v \in Int
                /\ s.method.name = "set_threshold" /\ s.method.operand.kind = "var" =>
                     /\ s.method.operand.v \in DOMAIN env
                     /\ arg.v = env[s.method.operand.v].n
  BY <1>5, <1>6, ArgumentOk DEF BoundInv
<1>9. arg.ok => /\ sent(s.method, arg.v) \in Int
                /\ s.method.name = "set_threshold" =>
                     /\ sent(s.method, arg.v) \in Dk
                     /\ arg.v \in dk_to_c(0)..dk_to_c(U32 - 1) =>
                          Celsius(sent(s.method, arg.v)) - arg.v \in -5..5
                     /\ \A k \in Dk : arg.v = Celsius(k) => sent(s.method, arg.v) = k
  BY <1>8, SentOk DEF BoundInv
<1>10. arg.ok => /\ Stored(s.method, sent(s.method, arg.v)) \in FwType
                 /\ s.method.name = "set_threshold" =>
                      Stored(s.method, sent(s.method, arg.v)).threshold[s.method.selector] =
                        sent(s.method, arg.v)
  BY <1>6, <1>9, StoredOk DEF BoundInv
<1>11. fw' \in FwType
  BY <1>3, <1>10 DEF BoundInv
<1>12. result.ok =>
         /\ Value(result.v)
         /\ s.method.name = "get_threshold" =>
              result.v = Num(Celsius(fw.threshold[s.method.selector]))
  BY ResultOk DEF BoundInv
<1>13. origin # NoRpm => /\ s.method.name = "get_threshold"
                         /\ origin = fw.threshold[s.method.selector] /\ origin \in Dk
  BY <1>6 DEF MethodOk, BoundInv, FwType
<1> HIDE DEF r, result, origin
<1>14. DOMAIN captured' = DOMAIN env'
  BY <1>3 DEF insert, BoundInv
<1>15. ASSUME NEW x \in DOMAIN env'
       PROVE  /\ Value(env'[x])
              /\ captured'[x] # NoRpm =>
                   captured'[x] \in Dk /\ env'[x] = Num(Celsius(captured'[x]))
  <2>1. CASE binds /\ x = s.name
    <3>1. env'[x] = result.v /\ captured'[x] = origin
      BY <1>3, <2>1 DEF insert
    <3> QED
      BY <1>12, <1>13, <2>1, <3>1
  <2>2. CASE ~(binds /\ x = s.name)
    <3>1. x \in DOMAIN env /\ x \in DOMAIN captured
      BY <1>3, <1>15, <2>2 DEF insert, BoundInv
    <3>2. env'[x] = env[x] /\ captured'[x] = captured[x]
      BY <1>3, <2>2, <3>1 DEF insert
    <3> QED
      BY <3>1, <3>2 DEF BoundInv
  <2> QED
    BY <2>1, <2>2
<1>16. ThresholdRoundTrip'
  <2> DEFINE op == s.method.operand
             now == fw'.threshold[s.method.selector]
  <2> SUFFICES ASSUME row'.verb = "is_ok", row'.applied, row'.method.name = "set_threshold"
               PROVE  /\ row'.arg \in dk_to_c(0)..dk_to_c(U32 - 1) =>
                           Celsius(now) - row'.arg \in -5..5
                      /\ (op.kind = "var" /\ captured'[op.v] # NoRpm) => now = captured'[op.v]
    BY <1>4, <1>7 DEF ThresholdRoundTrip
  <2>1. arg.ok /\ reply.applied /\ s.method.name = "set_threshold" /\ ~binds
    BY <1>4
  <2>2. now = sent(s.method, arg.v) /\ row'.arg = arg.v /\ captured' = captured
    BY <1>3, <1>4, <1>10, <2>1
  <2> HIDE DEF now, op
  <2>3. ASSUME op.kind = "var", captured[op.v] # NoRpm
        PROVE  now = captured[op.v]
    <3>1. op.v \in DOMAIN env /\ arg.v = env[op.v].n
      BY <1>8, <2>1, <2>3 DEF op
    <3>2. captured[op.v] \in Dk /\ env[op.v] = Num(Celsius(captured[op.v]))
      BY <2>3, <3>1 DEF BoundInv
    <3>3. arg.v = Celsius(captured[op.v])
      BY <3>1, <3>2 DEF Num
    <3> QED
      BY <1>9, <2>1, <2>2, <3>2, <3>3
  <2> QED
    BY <1>9, <2>1, <2>2, <2>3
<1> QED
  BY <1>1, <1>7, <1>11, <1>14, <1>15, <1>16 DEF BoundInv

(* A threshold that was set is the nearest the EC can store, and one read  *)
(* into a variable and set again is exactly what was read, for every       *)
(* script, every temperature and every value the EC can hold.              *)
THEOREM ThresholdsRoundTrip == Spec => []ThresholdRoundTrip
<1>1. BoundInv /\ [Next]_vars => BoundInv'
  <2> SUFFICES ASSUME BoundInv, [Next]_vars
               PROVE  BoundInv'
    OBVIOUS
  <2>1. ASSUME source' = source, fw' = fw, \/ env' = <<>> /\ captured' = <<>>
                                           \/ env' = env /\ captured' = captured,
               row' = NoRow \/ (row' = row /\ captured' = captured)
        PROVE  BoundInv'
    <3>1. Dk' = Dk /\ FwType' = FwType /\ \A k : Celsius(k)' = Celsius(k)
      BY <2>1 DEF Dk, FwType, Celsius
    <3>2. ThresholdRoundTrip'
      BY <2>1, <3>1 DEF BoundInv, ThresholdRoundTrip, NoRow
    <3>3. /\ DOMAIN captured' = DOMAIN env'
          /\ \A x \in DOMAIN env' :
               /\ Value(env'[x])
               /\ captured'[x] # NoRpm =>
                    captured'[x] \in Dk /\ env'[x] = Num(Celsius(captured'[x]))
      BY <2>1 DEF BoundInv
    <3> QED
      BY <2>1, <3>1, <3>2, <3>3 DEF BoundInv
  <2>2. ASSUME NEW s \in Statements, Execute(s)
        PROVE  BoundInv'
    BY <2>2, ExecuteKeepsBoundInv
  <2>3. CASE Open \/ Unreadable \/ Sleep \/ Close
    BY <2>1, <2>3 DEF Open, Unreadable, Sleep, Close, history
  <2>4. CASE UNCHANGED vars
    BY <2>1, <2>4 DEF vars, history
  <2> QED
    BY <2>2, <2>3, <2>4 DEF Next
<1>2. BoundInv => ThresholdRoundTrip
  BY DEF BoundInv
<1> QED
  BY <1>1, <1>2, BoundInit, PTL DEF Spec

-----------------------------------------------------------------------------
(***************************************************************************)
(* Where statements start.  parse works line by line and cuts statements   *)
(* off a buffer; the reference reads the tokens of the whole file.  Reads  *)
(* relates the two after every turn of the inner loop and every line: the  *)
(* buffer holds the tokens that follow the last terminator cut at, and the *)
(* statements cut off are the ones that begin before it.                   *)
(***************************************************************************)

(* A set of naturals has a least member.                                   *)
LEMMA LeastMember ==
  ASSUME NEW T \in SUBSET Nat, T # {}
  PROVE  \E x \in T : \A y \in T : x <= y
<1>1. \E x \in T : \A y \in T : <<y, x>> \notin OpToRel(<, Nat)
  BY WFMin, NatLessThanWellFounded
<1>2. PICK x \in T : \A y \in T : ~(y < x)
  BY <1>1 DEF OpToRel
<1> QED
  BY <1>2

(* A function defined by recursion over 0..n exists: G[i] is its step i.   *)
Steps(n, S) == [1..n -> [S -> S]]
Recurs(f, b, n, G, S) ==
  f \in [0..n -> S] /\ \A i \in 0..n : f[i] = IF i = 0 THEN b ELSE G[i][f[i - 1]]
LEMMA Recursion ==
  ASSUME NEW S, NEW b \in S, NEW n \in Nat, NEW G \in Steps(n, S)
  PROVE  \E f : Recurs(f, b, n, G, S)
<1>0. G \in [1..n -> [S -> S]]
  BY DEF Steps
<1> DEFINE step(f, i) == IF i = 0 THEN b ELSE G[i][f[i - 1]]
           part(k) == \E f \in [0..k -> S] : \A i \in 0..k : f[i] = step(f, i)
           good == {k \in Nat : k <= n => part(k)}
<1>1. 0 \in good
  <2>1. [i \in 0..0 |-> b] \in [0..0 -> S]
    OBVIOUS
  <2>2. \A i \in 0..0 : [j \in 0..0 |-> b][i] = step([j \in 0..0 |-> b], i)
    OBVIOUS
  <2> QED BY <2>1, <2>2
<1>2. \A k \in good : k + 1 \in good
  <2>a. SUFFICES ASSUME NEW k \in good, k + 1 <= n PROVE part(k + 1)
    <3> HIDE DEF part
    <3> QED OBVIOUS
  <2>b. k \in Nat /\ part(k)
    <3> HIDE DEF part
    <3> QED BY <2>a
  <2>c. PICK f \in [0..k -> S] : \A i \in 0..k : f[i] = step(f, i)
    BY <2>b DEF part
  <2> DEFINE h == [i \in 0..k+1 |-> IF i = k + 1 THEN G[k + 1][f[k]] ELSE f[i]]
  <2>1. f[k] \in S /\ G[k + 1] \in [S -> S] /\ k + 1 # 0 /\ k + 1 - 1 = k
    BY <1>0, <2>a, <2>b, <2>c
  <2>2. h \in [0..k+1 -> S]
    BY <2>b, <2>1, <2>c
  <2>3. \A i \in 0..k+1 : h[i] = step(h, i)
    <3> SUFFICES ASSUME NEW i \in 0..k+1 PROVE h[i] = step(h, i)
      OBVIOUS
    <3>1. CASE i = k + 1
      <4>1. h[i] = G[k + 1][f[k]] /\ h[k] = f[k]
        BY <2>b, <2>1, <3>1
      <4> QED BY <3>1, <4>1, <2>1
    <3>2. CASE i # k + 1
      <4>1. i \in 0..k /\ h[i] = f[i]
        BY <2>b, <2>1, <3>2
      <4>2. i # 0 => i - 1 \in 0..k /\ h[i - 1] = f[i - 1]
        BY <2>b, <2>1, <3>2
      <4> HIDE DEF h
      <4> QED BY <2>c, <4>1, <4>2
    <3> QED BY <3>1, <3>2
  <2> QED BY <2>2, <2>3
<1>3. good = Nat
  <2> HIDE DEF good
  <2>1. good \in SUBSET Nat BY DEF good
  <2> QED BY <1>1, <1>2, <2>1, InductionOnNat
<1> QED
  <2> HIDE DEF part
  <2>1. part(n) BY <1>3
  <2> QED BY <2>1 DEF part, Recurs

(* str::find finds the first place, or none.                               *)
LEMMA FindFirst ==
  ASSUME NEW D, NEW s \in Seq(D), NEW tok
  PROVE  /\ find(s, tok) \in 0..Len(s)
         /\ find(s, tok) = 0 => \A i \in 1..Len(s) : s[i] # tok
         /\ find(s, tok) # 0 => /\ s[find(s, tok)] = tok
                                /\ \A j \in 1..(find(s, tok) - 1) : s[j] # tok
<1>0. Len(s) \in Nat
  OBVIOUS
<1>1. CASE \E i \in 1..Len(s) : s[i] = tok
  <2> DEFINE T == {i \in 1..Len(s) : s[i] = tok}
  <2>1. T \in SUBSET Nat /\ T # {}
    BY <1>0, <1>1
  <2>2. PICK x \in T : \A y \in T : x <= y
    <3> HIDE DEF T
    <3> QED BY <2>1, LeastMember
  <2>3. x \in 1..Len(s) /\ s[x] = tok /\ \A j \in 1..(x - 1) : s[j] # tok
    BY <1>0, <2>2
  <2>4. find(s, tok) = CHOOSE i \in 1..Len(s) : s[i] = tok /\ \A j \in 1..(i - 1) : s[j] # tok
    BY <1>1 DEF find
  <2>5. /\ find(s, tok) \in 1..Len(s) /\ s[find(s, tok)] = tok
        /\ \A j \in 1..(find(s, tok) - 1) : s[j] # tok
    BY <2>3, <2>4
  <2> QED BY <1>0, <2>5
<1>2. CASE ~\E i \in 1..Len(s) : s[i] = tok
  BY <1>0, <1>2 DEF find
<1> QED BY <1>1, <1>2

(* A comment is cut off at its end: what is left is the line's beginning.  *)
LEMMA UncommentedOk ==
  ASSUME NEW raw \in Seq(Token)
  PROVE  /\ Uncommented(raw) \in Seq(Token)
         /\ Len(Uncommented(raw)) \in 0..Len(raw)
         /\ \A k \in 1..Len(Uncommented(raw)) : Uncommented(raw)[k] = raw[k]
<1>1. find(raw, "hash") \in 0..Len(raw) /\ Len(raw) \in Nat
  BY FindFirst
<1>2. CASE find(raw, "hash") = 0
  BY <1>1, <1>2 DEF Uncommented
<1>3. CASE find(raw, "hash") # 0
  <2> DEFINE n == find(raw, "hash") - 1
  <2>1. n \in Nat /\ n <= Len(raw) /\ \A i \in 1..n : raw[i] \in Token
    BY <1>1, <1>3
  <2>2. Uncommented(raw) = SubSeq(raw, 1, n)
    BY <1>3 DEF Uncommented
  <2> HIDE DEF n
  <2>3. /\ SubSeq(raw, 1, n) \in Seq(Token) /\ Len(SubSeq(raw, 1, n)) = n
        /\ \A i \in 1..n : SubSeq(raw, 1, n)[i] = raw[i]
    BY <2>1
  <2> QED BY <2>1, <2>2, <2>3, <1>1
<1> QED BY <1>2, <1>3

(* Facts of arithmetic and of records that the proofs below cite: a token  *)
(* of a line lies within the file;                                         *)
LEMMA Within ==
  ASSUME NEW a \in Nat, NEW b \in Nat, NEW c \in Nat, a + b <= c, NEW k \in 1..b
  PROVE  a + k \in 1..c
OBVIOUS

(* counting from the start, or from the last terminator;                   *)
LEMMA Offsets ==
  ASSUME NEW m \in Nat, NEW n \in Nat, NEW s \in 1..(n - m), NEW k \in 1..(n - (m + s))
  PROVE  k \in 1..((n - m) - s) /\ s + k \in 1..(n - m) /\ m + (s + k) = (m + s) + k
OBVIOUS

(* a buffer that got shorter still fits the turns that are left;           *)
LEMMA Shorter ==
  ASSUME NEW x \in Nat, NEW y \in Nat, NEW z \in Nat, NEW k \in 1..z,
         x < y, y + (k - 1) <= z
  PROVE  x + k <= z
OBVIOUS

(* and the fields of a token are what it was built from.                   *)
LEMMA FieldsOf ==
  ASSUME NEW r, NEW x, NEW y, r = [tok |-> x, line |-> y]
  PROVE  r.tok = x /\ r.line = y
OBVIOUS

(* The file as one sequence of tokens: E[i] of them are on its first i     *)
(* lines.                                                                  *)
LEMMA FlatOk ==
  ASSUME NEW content \in Seq(Seq(Token))
  PROVE  \E E \in [0..Len(content) -> Nat] :
           /\ Flat(content) \in Seq([tok : Token, line : Nat])
           /\ E[0] = 0 /\ E[Len(content)] = Len(Flat(content))
           /\ \A i \in 1..Len(content) :
                /\ E[i] = E[i - 1] + Len(Uncommented(content[i]))
                /\ E[i] <= Len(Flat(content))
                /\ \A k \in 1..Len(Uncommented(content[i])) :
                     Flat(content)[E[i - 1] + k]
                       = [tok |-> Uncommented(content[i])[k], line |-> i]
<1> DEFINE N == Len(content)
           F == [tok : Token, line : Nat]
           S == Seq(F)
           U(i) == Uncommented(content[i])
           piece(i) == [k \in 1..Len(U(i)) |-> [tok |-> content[i][k], line |-> i]]
           step(g, i) == IF i = 0 THEN <<>> ELSE g[i - 1] \o piece(i)
           flat == CHOOSE g : g = [i \in 0..N |-> step(g, i)]
<1>0. N \in Nat
  OBVIOUS
<1>1. \A i \in 1..N : /\ U(i) \in Seq(Token) /\ Len(U(i)) \in Nat
                      /\ \A k \in 1..Len(U(i)) : content[i][k] = U(i)[k] /\ U(i)[k] \in Token
  <2> SUFFICES ASSUME NEW i \in 1..N
               PROVE  /\ U(i) \in Seq(Token) /\ Len(U(i)) \in Nat
                      /\ \A k \in 1..Len(U(i)) : content[i][k] = U(i)[k] /\ U(i)[k] \in Token
    OBVIOUS
  <2>1. content[i] \in Seq(Token)
    OBVIOUS
  <2>2. /\ U(i) \in Seq(Token) /\ Len(U(i)) \in Nat
        /\ \A k \in 1..Len(U(i)) : U(i)[k] = content[i][k]
    BY <2>1, UncommentedOk
  <2> QED BY <2>2
<1> HIDE DEF U
<1>2. \A i \in 1..N : /\ piece(i) \in S /\ Len(piece(i)) = Len(U(i))
                      /\ \A k \in 1..Len(U(i)) : piece(i)[k] = [tok |-> U(i)[k], line |-> i]
  <2> SUFFICES ASSUME NEW i \in 1..N
               PROVE  /\ piece(i) \in S /\ Len(piece(i)) = Len(U(i))
                      /\ \A k \in 1..Len(U(i)) : piece(i)[k] = [tok |-> U(i)[k], line |-> i]
    OBVIOUS
  <2>1. \A k \in 1..Len(U(i)) : [tok |-> content[i][k], line |-> i] \in F
    <3> SUFFICES ASSUME NEW k \in 1..Len(U(i))
                 PROVE  [tok |-> content[i][k], line |-> i] \in F
      OBVIOUS
    <3>1. content[i][k] \in Token
      BY <1>1
    <3>2. i \in Nat
      BY <1>0
    <3> QED BY <3>1, <3>2
  <2> HIDE DEF F
  <2>2. piece(i) \in S /\ Len(piece(i)) = Len(U(i))
    BY <2>1, <1>1
  <2> QED BY <2>2, <1>1
<1>3. Flat(content) = flat[N]
  BY DEF Flat, U
<1> HIDE DEF F, piece, N
<1>4. flat \in [0..N -> S] /\ \A i \in 0..N : flat[i] = step(flat, i)
  <2> DEFINE G == [i \in 1..N |-> [x \in S |-> x \o piece(i)]]
             b == <<>>
  <2>1. G \in Steps(N, S)
    BY <1>2 DEF Steps
  <2>2. b \in S
    OBVIOUS
  <2> HIDE DEF G, S, b
  <2>a. PICK g : Recurs(g, b, N, G, S)
    BY <1>0, <2>1, <2>2, Recursion
  <2>3. /\ g \in [0..N -> S]
        /\ \A i \in 0..N : g[i] = IF i = 0 THEN b ELSE G[i][g[i - 1]]
    BY <2>a DEF Recurs
  <2>4. \A i \in 0..N : g[i] = step(g, i)
    <3> SUFFICES ASSUME NEW i \in 0..N
                 PROVE  g[i] = step(g, i)
      OBVIOUS
    <3>1. CASE i = 0
      BY <2>3, <3>1 DEF b
    <3>2. CASE i # 0
      <4>1. i \in 1..N /\ i - 1 \in 0..N /\ g[i - 1] \in S
        BY <1>0, <2>3, <3>2
      <4>2. g[i] = G[i][g[i - 1]]
        BY <2>3, <3>2
      <4>3. G[i][g[i - 1]] = g[i - 1] \o piece(i)
        BY <4>1 DEF G
      <4> QED BY <3>2, <4>2, <4>3
    <3> QED BY <3>1, <3>2
  <2>5. g = [i \in 0..N |-> step(g, i)]
    <3> HIDE DEF step
    <3> QED BY <2>3, <2>4
  <2>6. flat = [i \in 0..N |-> step(flat, i)]
    <3> HIDE DEF step
    <3> QED BY <2>5
  <2> HIDE DEF flat
  <2>7. \A i \in 0..N : flat[i] = step(flat, i)
    <3> HIDE DEF step
    <3> QED BY <2>6
  <2> DEFINE ok == {n \in Nat : n <= N => flat[n] \in S}
  <2>8. 0 \in ok
    <3>1. flat[0] = b
      BY <1>0, <2>7 DEF b
    <3> QED BY <2>2, <3>1
  <2>9. \A n \in ok : n + 1 \in ok
    <3> SUFFICES ASSUME NEW n \in Nat, flat[n] \in S, n + 1 <= N
                 PROVE  flat[n + 1] \in S
      BY <1>0
    <3>1. n + 1 \in 0..N /\ n + 1 \in 1..N /\ n + 1 # 0 /\ n + 1 - 1 = n
      BY <1>0
    <3>2. flat[n + 1] = step(flat, n + 1)
      <4> HIDE DEF step
      <4> QED BY <2>7, <3>1
    <3>3. piece(n + 1) \in S
      BY <1>2, <3>1
    <3> QED BY <3>1, <3>2, <3>3 DEF S
  <2>10. ok = Nat
    <3> HIDE DEF ok
    <3>1. ok \in SUBSET Nat BY DEF ok
    <3> QED BY <2>8, <2>9, <3>1, InductionOnNat
  <2>11. \A i \in 0..N : flat[i] \in S
    BY <1>0, <2>10
  <2> QED BY <2>6, <2>7, <2>11
<1> HIDE DEF flat
<1> DEFINE E == [i \in 0..N |-> Len(flat[i])]
<1>5. E \in [0..N -> Nat] /\ E[0] = 0
  <2>1. flat[0] = <<>>
    BY <1>0, <1>4
  <2> QED BY <1>0, <1>4, <2>1
<1> DEFINE line(j, i) == /\ flat[i] = flat[j] \o piece(i)
                         /\ flat[j] \in S /\ flat[i] \in S
                         /\ E[i] = E[j] + Len(U(i))
                         /\ E[i] = Len(flat[i]) /\ E[j] = Len(flat[j])
<1>6. \A i \in 1..N : line(i - 1, i)
  <2> SUFFICES ASSUME NEW i \in 1..N
               PROVE  line(i - 1, i)
    OBVIOUS
  <2>1. i \in 0..N /\ i - 1 \in 0..N /\ i # 0
    BY <1>0
  <2>2. flat[i] = flat[i - 1] \o piece(i) /\ flat[i - 1] \in S
    BY <1>4, <2>1
  <2>3. Len(flat[i]) = Len(flat[i - 1]) + Len(piece(i))
    BY <2>2, <1>2
  <2>4. E[i] = Len(flat[i]) /\ E[i - 1] = Len(flat[i - 1])
    BY <2>1
  <2> HIDE DEF E
  <2>5. flat[i] \in S
    BY <2>1, <1>4
  <2> QED BY <2>2, <2>3, <2>4, <2>5, <1>2
<1> DEFINE upTo(n) == \A i \in 1..n :
                        /\ E[i] <= Len(flat[n])
                        /\ \A k \in 1..Len(U(i)) :
                             flat[n][E[i - 1] + k] = [tok |-> U(i)[k], line |-> i]
           ok == {n \in Nat : n <= N => upTo(n)}
<1> HIDE DEF E
<1>7. 0 \in ok
  OBVIOUS
<1>8. \A n \in ok : n + 1 \in ok
  <2> SUFFICES ASSUME NEW n \in Nat, upTo(n), n + 1 <= N
               PROVE  upTo(n + 1)
    <3> HIDE DEF upTo
    <3> QED BY <1>0
  <2> SUFFICES ASSUME NEW i \in 1..(n + 1)
               PROVE  /\ E[i] <= Len(flat[n + 1])
                      /\ \A k \in 1..Len(U(i)) :
                           flat[n + 1][E[i - 1] + k] = [tok |-> U(i)[k], line |-> i]
    OBVIOUS
  <2>1. /\ n + 1 \in 1..N /\ n + 1 - 1 = n /\ i \in 1..N /\ i - 1 \in 0..N
        /\ n \in 0..N /\ i \in 0..N
    BY <1>0
  <2>z. line(n, n + 1) /\ line(i - 1, i)
    <3> HIDE DEF line
    <3> QED BY <1>6, <2>1
  <2>a. /\ flat[n + 1] = flat[n] \o piece(n + 1)
        /\ flat[n] \in S /\ flat[n + 1] \in S
        /\ E[n + 1] = Len(flat[n + 1]) /\ E[n] = Len(flat[n])
    BY <2>z
  <2>b. piece(n + 1) \in S /\ Len(piece(n + 1)) = Len(U(n + 1))
    BY <1>2, <2>1
  <2>2. /\ flat[n + 1] = flat[n] \o piece(n + 1) /\ flat[n] \in S /\ flat[n + 1] \in S
        /\ Len(flat[n + 1]) = Len(flat[n]) + Len(piece(n + 1))
        /\ piece(n + 1) \in S /\ Len(piece(n + 1)) = Len(U(n + 1))
        /\ Len(flat[n]) \in Nat
    BY <2>a, <2>b, <2>1, ConcatProperties, LenProperties
  <2> HIDE DEF upTo, ok, S
  <2>3. E[i - 1] \in Nat /\ E[i] = E[i - 1] + Len(U(i)) /\ Len(U(i)) \in Nat
    BY <1>5, <2>z, <1>1, <2>1
  <2>c. /\ Len(flat[n]) \in Nat /\ Len(piece(n + 1)) = Len(U(n + 1))
        /\ Len(U(n + 1)) \in Nat /\ Len(flat[n + 1]) = Len(flat[n]) + Len(U(n + 1))
    BY <2>2, <1>1, <2>1
  <2>4. CASE i = n + 1
    <3>1. E[i] = Len(flat[n + 1]) /\ E[i - 1] = Len(flat[n])
      BY <2>4, <2>a, <2>1
    <3>2. ASSUME NEW k \in 1..Len(U(i))
          PROVE  flat[n + 1][E[i - 1] + k] = [tok |-> U(i)[k], line |-> i]
      <4>1. piece(i)[k] = [tok |-> U(i)[k], line |-> i]
        BY <1>2, <2>1
      <4>2. (flat[n] \o piece(n + 1))[Len(flat[n]) + k] = piece(n + 1)[k]
        <5>1. Len(flat[n]) + k \in 1..(Len(flat[n]) + Len(piece(n + 1)))
          <6>1. \A a, b, c \in Nat : c \in 1..b => a + c \in 1..(a + b)
            OBVIOUS
          <6>2. k \in 1..Len(piece(n + 1)) /\ k \in Nat /\ Len(piece(n + 1)) \in Nat
            BY <2>c, <2>4
          <6> QED BY <2>c, <6>1, <6>2, Zenon
        <5>2. k \in Nat \ {0} /\ ~(Len(flat[n]) + k <= Len(flat[n]))
              /\ Len(flat[n]) + k - Len(flat[n]) = k
          BY <2>2, <2>3
        <5> QED BY <5>1, <5>2, <2>2, ConcatProperties
      <4> QED BY <2>2, <2>4, <3>1, <4>1, <4>2
    <3>3. E[i] <= Len(flat[n + 1])
      BY <2>c, <3>1
    <3> QED BY <3>2, <3>3
  <2>5. CASE i # n + 1
    <3>1. i \in 1..n
      BY <2>5
    <3>2. E[i] <= Len(flat[n])
      BY <3>1 DEF upTo
    <3>3. ASSUME NEW k \in 1..Len(U(i))
          PROVE  flat[n + 1][E[i - 1] + k] = [tok |-> U(i)[k], line |-> i]
      <4>1. flat[n][E[i - 1] + k] = [tok |-> U(i)[k], line |-> i]
        BY <3>1 DEF upTo
      <4>2. E[i - 1] + k \in 1..Len(flat[n])
        <5>1. E[i - 1] + Len(U(i)) <= Len(flat[n])
          BY <2>3, <3>2, Zenon
        <5>2. E[i - 1] \in Nat /\ Len(U(i)) \in Nat /\ Len(flat[n]) \in Nat
          BY <2>3, <2>c, Zenon
        <5> QED BY <3>3, <5>1, <5>2, Within, Zenon
      <4>3. (flat[n] \o piece(n + 1))[E[i - 1] + k] = flat[n][E[i - 1] + k]
        <5>1. E[i - 1] + k \in 1..(Len(flat[n]) + Len(piece(n + 1))) /\ E[i - 1] + k <= Len(flat[n])
          <6>1. \A a, b, c \in Nat : c \in 1..a => c \in 1..(a + b) /\ c <= a
            OBVIOUS
          <6>2. Len(piece(n + 1)) \in Nat
            BY <2>c
          <6>3. E[i - 1] + k \in Nat
            BY <2>3
          <6> QED BY <2>c, <4>2, <6>1, <6>2, <6>3, Zenon
        <5> QED BY <5>1, <2>2, ConcatProperties
      <4> QED BY <2>2, <4>1, <4>3
    <3>4. E[i] <= Len(flat[n + 1])
      <4>1. E[i] \in Int
        BY <2>3
      <4>2. Len(flat[n]) \in Int /\ Len(U(n + 1)) \in Int
        BY <2>c
      <4>3. Len(flat[n + 1]) = Len(flat[n]) + Len(U(n + 1))
        BY <2>c
      <4>4. \A x, y, z, b \in Int : x <= y /\ z = y + b /\ b >= 0 => x <= z
        OBVIOUS
      <4>5. Len(flat[n + 1]) \in Int
        BY <4>2, <4>3
      <4>6. Len(U(n + 1)) >= 0
        BY <2>c
      <4> QED BY <3>2, <4>1, <4>2, <4>3, <4>4, <4>5, <4>6, Zenon
    <3> QED BY <3>3, <3>4
  <2> QED BY <2>4, <2>5
<1>9. ok = Nat
  <2> HIDE DEF ok
  <2>1. ok \in SUBSET Nat BY DEF ok
  <2> QED BY <1>7, <1>8, <2>1, InductionOnNat
<1>10. upTo(N)
  <2> HIDE DEF upTo
  <2> QED BY <1>0, <1>9
<1>11. E[N] = Len(flat[N]) /\ flat[N] \in S
  BY <1>0, <1>4 DEF E
<1>12. \A i \in 1..N :
         /\ E[i] = E[i - 1] + Len(U(i)) /\ E[i] <= Len(flat[N])
         /\ \A k \in 1..Len(U(i)) :
              flat[N][E[i - 1] + k] = [tok |-> U(i)[k], line |-> i]
  BY <1>6, <1>10
<1> HIDE DEF upTo, ok, line, step
<1>13. Flat(content) \in S /\ E[N] = Len(Flat(content))
  BY <1>3, <1>11
<1>14. \A i \in 1..N :
         /\ E[i] = E[i - 1] + Len(U(i)) /\ E[i] <= Len(Flat(content))
         /\ \A k \in 1..Len(U(i)) :
              Flat(content)[E[i - 1] + k] = [tok |-> U(i)[k], line |-> i]
  BY <1>3, <1>12
<1> QED
  BY <1>5, <1>13, <1>14, Zenon DEF F, U, N

(* up[k] are the members of S up to k, in order.                           *)
Ordered(up, S, n) ==
  /\ up \in [0..n -> Seq(Nat)]
  /\ up[0] = <<>> /\ up[n] = InOrder(S, n)
  /\ \A k \in 1..n : up[k] = IF k \in S THEN Append(up[k - 1], k) ELSE up[k - 1]

(* InOrder is the last of them.                                            *)
LEMMA InOrderOk ==
  ASSUME NEW n \in Nat, NEW S
  PROVE  \E up : Ordered(up, S, n)
<1> DEFINE Q == Seq(Nat)
           b == <<>>
           step(g, k) == IF k = 0 THEN <<>>
                         ELSE IF k \in S THEN Append(g[k - 1], k) ELSE g[k - 1]
           upto == CHOOSE g : g = [k \in 0..n |-> step(g, k)]
           G == [k \in 1..n |-> [x \in Q |-> IF k \in S THEN Append(x, k) ELSE x]]
<1>1. G \in Steps(n, Q) /\ b \in Q
  <2>1. \A k \in 1..n : \A x \in Q : (IF k \in S THEN Append(x, k) ELSE x) \in Q
    OBVIOUS
  <2> HIDE DEF Q
  <2>2. G \in Steps(n, Q)
    BY <2>1 DEF Steps
  <2> QED BY <2>2 DEF Q
<1> HIDE DEF Q, G, b
<1>2. PICK g : Recurs(g, b, n, G, Q)
  BY <1>1, Recursion
<1>3. g \in [0..n -> Q] /\ \A i \in 0..n : g[i] = IF i = 0 THEN b ELSE G[i][g[i - 1]]
  BY <1>2 DEF Recurs
<1>4. \A k \in 0..n : g[k] = step(g, k)
  <2> SUFFICES ASSUME NEW k \in 0..n
               PROVE  g[k] = step(g, k)
    OBVIOUS
  <2>1. CASE k = 0
    BY <1>3, <2>1 DEF b
  <2>2. CASE k # 0
    <3>1. k \in 1..n /\ k - 1 \in 0..n /\ g[k - 1] \in Q
      BY <1>3, <2>2
    <3>2. g[k] = G[k][g[k - 1]]
      BY <1>3, <2>2
    <3>3. G[k][g[k - 1]] = IF k \in S THEN Append(g[k - 1], k) ELSE g[k - 1]
      BY <3>1 DEF G
    <3> QED BY <2>2, <3>2, <3>3
  <2> QED BY <2>1, <2>2
<1>5. g = [k \in 0..n |-> step(g, k)]
  <2> HIDE DEF step
  <2> QED BY <1>3, <1>4
<1>6. upto = [k \in 0..n |-> step(upto, k)]
  <2> HIDE DEF step
  <2> QED BY <1>5
<1>7. InOrder(S, n) = upto[n]
  BY DEF InOrder
<1> HIDE DEF upto
<1>8. \A k \in 0..n : upto[k] = step(upto, k)
  <2> HIDE DEF step
  <2> QED BY <1>6
<1> DEFINE ok == {k \in Nat : k <= n => upto[k] \in Q}
<1>9. 0 \in ok
  <2>1. upto[0] = b
    BY <1>8 DEF b
  <2> QED BY <1>1, <2>1
<1>10. \A k \in ok : k + 1 \in ok
  <2> SUFFICES ASSUME NEW k \in Nat, upto[k] \in Q, k + 1 <= n
               PROVE  upto[k + 1] \in Q
    OBVIOUS
  <2>1. k + 1 \in 0..n /\ k + 1 # 0 /\ k + 1 - 1 = k /\ k + 1 \in Nat
    OBVIOUS
  <2>2. upto[k + 1] = step(upto, k + 1)
    <3> HIDE DEF step
    <3> QED BY <1>8, <2>1
  <2>3. upto[k + 1] = IF k + 1 \in S THEN Append(upto[k], k + 1) ELSE upto[k]
    BY <2>1, <2>2
  <2> QED BY <2>1, <2>3 DEF Q
<1>11. ok = Nat
  <2> HIDE DEF ok
  <2>1. ok \in SUBSET Nat BY DEF ok
  <2> QED BY <1>9, <1>10, <2>1, InductionOnNat
<1>12. upto \in [0..n -> Q]
  <2>1. \A k \in 0..n : upto[k] \in Q
    BY <1>11
  <2> QED BY <1>6, <2>1
<1>13. \A k \in 1..n : upto[k] = IF k \in S THEN Append(upto[k - 1], k) ELSE upto[k - 1]
  BY <1>8
<1>14. upto[0] = <<>>
  BY <1>8
<1> QED
  BY <1>7, <1>12, <1>13, <1>14 DEF Ordered, Q

(* They are members of S, increasing, and all of them.                     *)
LEMMA OrderedFacts ==
  ASSUME NEW n \in Nat, NEW S, NEW up, Ordered(up, S, n), NEW m \in 0..n
  PROVE  /\ up[m] \in Seq(Nat)
         /\ \A i \in 1..Len(up[m]) : up[m][i] \in S /\ up[m][i] \in 1..m
         /\ \A i, j \in 1..Len(up[m]) : i < j => up[m][i] < up[m][j]
         /\ \A x \in S : x \in 1..m => \E i \in 1..Len(up[m]) : up[m][i] = x
<1> DEFINE fact(s, k) ==
             /\ s \in Seq(Nat)
             /\ \A i \in 1..Len(s) : s[i] \in S /\ s[i] \in 1..k
             /\ \A i, j \in 1..Len(s) : i < j => s[i] < s[j]
             /\ \A x \in S : x \in 1..k => \E i \in 1..Len(s) : s[i] = x
           ok == {k \in Nat : k <= n => fact(up[k], k)}
<1>1. 0 \in ok
  <2>1. up[0] = <<>>
    BY DEF Ordered
  <2>2. fact(<<>>, 0)
    OBVIOUS
  <2> QED BY <2>1, <2>2
<1>2. \A k \in ok : k + 1 \in ok
  <2> SUFFICES ASSUME NEW k \in Nat, fact(up[k], k), k + 1 <= n
               PROVE  fact(up[k + 1], k + 1)
    <3> HIDE DEF fact
    <3> QED OBVIOUS
  <2> DEFINE s == up[k]
             t == up[k + 1]
  <2>1. t = IF k + 1 \in S THEN Append(s, k + 1) ELSE s
    <3>1. k + 1 \in 1..n /\ k + 1 - 1 = k
      OBVIOUS
    <3> QED BY <3>1 DEF Ordered
  <2>2. fact(s, k)
    OBVIOUS
  <2> HIDE DEF s, t
  <2>3. CASE k + 1 \in S
    <3>1. /\ t \in Seq(Nat) /\ Len(t) = Len(s) + 1 /\ t[Len(s) + 1] = k + 1
          /\ \A i \in 1..Len(s) : t[i] = s[i]
          /\ Len(s) \in Nat
      BY <2>1, <2>2, <2>3, AppendProperties, LenProperties
    <3>2. ASSUME NEW i \in 1..Len(t)
          PROVE  t[i] \in S /\ t[i] \in 1..(k + 1)
      <4>1. CASE i = Len(s) + 1
        BY <3>1, <4>1, <2>3
      <4>2. CASE i # Len(s) + 1
        <5>1. i \in 1..Len(s)
          BY <3>1, <4>2
        <5>2. t[i] = s[i] /\ s[i] \in S /\ s[i] \in 1..k
          BY <3>1, <5>1, <2>2
        <5>3. \A y \in 1..k : y \in 1..(k + 1)
          OBVIOUS
        <5> QED BY <5>2, <5>3, Zenon
      <4> QED BY <4>1, <4>2
    <3>3. ASSUME NEW i \in 1..Len(t), NEW j \in 1..Len(t), i < j
          PROVE  t[i] < t[j]
      <4>0. i \in 1..Len(s)
        <5>1. Len(s) \in Nat /\ Len(t) = Len(s) + 1
          BY <3>1
        <5> QED BY <3>3, <5>1
      <4>1. i \in 1..Len(s) /\ t[i] = s[i] /\ s[i] \in 1..k
        BY <3>1, <4>0, <2>2, Zenon
      <4>2. CASE j = Len(s) + 1
        BY <3>1, <4>1, <4>2
      <4>3. CASE j # Len(s) + 1
        <5>1. j \in 1..Len(s)
          BY <3>1, <4>3
        <5>2. t[j] = s[j] /\ s[i] < s[j]
          BY <3>1, <3>3, <4>1, <5>1, <2>2
        <5> QED BY <4>1, <5>2
      <4> QED BY <4>2, <4>3
    <3>4. ASSUME NEW x \in S, x \in 1..(k + 1)
          PROVE  \E i \in 1..Len(t) : t[i] = x
      <4>1. CASE x = k + 1
        <5>1. Len(s) + 1 \in 1..Len(t)
          BY <3>1
        <5> QED BY <3>1, <4>1, <5>1
      <4>2. CASE x # k + 1
        <5>1. PICK i \in 1..Len(s) : s[i] = x
          BY <2>2, <3>4, <4>2
        <5>2. i \in 1..Len(t) /\ t[i] = x
          BY <3>1, <5>1
        <5> QED BY <5>2
      <4> QED BY <4>1, <4>2
    <3>5. fact(t, k + 1)
      BY <3>1, <3>2, <3>3, <3>4
    <3> QED BY <3>5 DEF t
  <2>4. CASE k + 1 \notin S
    <3>1. fact(s, k + 1)
      <4>1. \A y \in 1..k : y \in 1..(k + 1)
        OBVIOUS
      <4>2. \A y \in 1..(k + 1) : y \in 1..k \/ y = k + 1
        OBVIOUS
      <4>3. \A i \in 1..Len(s) : s[i] \in S /\ s[i] \in 1..(k + 1)
        BY <2>2, <4>1, Zenon
      <4>4. \A x \in S : x \in 1..(k + 1) => \E i \in 1..Len(s) : s[i] = x
        BY <2>2, <2>4, <4>2, Zenon
      <4> QED BY <2>2, <4>3, <4>4, Zenon
    <3> QED BY <2>1, <2>4, <3>1 DEF t
  <2> QED BY <2>3, <2>4
<1>3. ok = Nat
  <2> HIDE DEF ok
  <2>1. ok \in SUBSET Nat BY DEF ok
  <2> QED BY <1>1, <1>2, <2>1, InductionOnNat
<1>4. fact(up[m], m)
  <2> HIDE DEF fact
  <2> QED BY <1>3
<1> QED
  BY <1>4

(* Between two numbers with none of S in it nothing is added.              *)
LEMMA OrderedSkip ==
  ASSUME NEW n \in Nat, NEW S, NEW up, Ordered(up, S, n),
         NEW a \in 0..n, NEW m \in a..n, \A k \in (a + 1)..m : k \notin S
  PROVE  up[m] = up[a]
<1> DEFINE ok == {d \in Nat : a + d <= m => up[a + d] = up[a]}
<1>1. 0 \in ok
  OBVIOUS
<1>2. \A d \in ok : d + 1 \in ok
  <2> SUFFICES ASSUME NEW d \in Nat, a + d <= m => up[a + d] = up[a], a + (d + 1) <= m
               PROVE  up[a + (d + 1)] = up[a]
    OBVIOUS
  <2>1. a + (d + 1) \in 1..n /\ a + (d + 1) - 1 = a + d /\ a + (d + 1) \in (a + 1)..m
        /\ a + d <= m
    OBVIOUS
  <2>2. up[a + (d + 1)] = up[a + d]
    BY <2>1 DEF Ordered
  <2> QED BY <2>1, <2>2
<1>3. ok = Nat
  <2> HIDE DEF ok
  <2>1. ok \in SUBSET Nat BY DEF ok
  <2> QED BY <1>1, <1>2, <2>1, InductionOnNat
<1>4. m - a \in Nat /\ a + (m - a) = m /\ a + (m - a) <= m
  OBVIOUS
<1> QED
  BY <1>3, <1>4

(* The locals of parse.                                                    *)
Parsed == [line : Nat, text : Seq(Token)]
Parser == [buf : Seq(Token), start_line : Nat, out : Seq(Parsed)]

\* What the parser cut off is the statement that token p of f begins.
Matches(f, o, p) ==
  /\ o.line = f[p].line
  /\ (\E k \in 1..Len(o.text) : o.text[k] = "x") <=> (\E j \in Part(f, p) : f[j].tok = "x")
  /\ Len(f) \notin Part(f, p)

\* Of the first n tokens of f the parser has cut off the first m.
Reads(f, up, st, m, n) ==
  /\ st \in Parser
  /\ n \in 0..Len(f) /\ m \in 0..n
  /\ m = 0 \/ f[m].tok = "semi"
  /\ Len(st.buf) = n - m /\ \A k \in 1..(n - m) : st.buf[k] = f[m + k].tok
  /\ m < n => st.start_line = f[m + 1].line
  /\ Len(st.out) = Len(up[m])
  /\ \A i \in 1..Len(st.out) : Matches(f, st.out[i], up[m][i])

Unterminated(st) == \A k \in 1..Len(st.buf) : st.buf[k] # "semi"

(* What one turn of the inner loop cuts off and leaves.                    *)
LEMMA CutOk ==
  ASSUME NEW st \in Parser, NEW lineno \in Nat
  PROVE  LET semi == find(st.buf, "semi")
             src == SubSeq(st.buf, 1, semi - 1)
             rest == SubSeq(st.buf, semi + 1, Len(st.buf))
         IN  /\ cut(st, lineno) \in Parser
             /\ semi \in 0..Len(st.buf)
             /\ semi = 0 => cut(st, lineno) = st /\ Unterminated(st)
             /\ semi # 0 =>
                  /\ st.buf[semi] = "semi" /\ \A k \in 1..(semi - 1) : st.buf[k] # "semi"
                  /\ src \in Seq(Token) /\ Len(src) = semi - 1
                  /\ \A k \in 1..(semi - 1) : src[k] = st.buf[k]
                  /\ rest \in Seq(Token) /\ Len(rest) = Len(st.buf) - semi
                  /\ \A k \in 1..(Len(st.buf) - semi) : rest[k] = st.buf[semi + k]
                  /\ cut(st, lineno) =
                       [buf |-> rest, start_line |-> lineno,
                        out |-> IF src = <<>> THEN st.out
                                ELSE Append(st.out, [line |-> st.start_line, text |-> src])]
<1> DEFINE b == st.buf
           semi == find(b, "semi")
           L == Len(b)
           src == SubSeq(b, 1, semi - 1)
           rest == SubSeq(b, semi + 1, L)
<1>1. b \in Seq(Token) /\ L \in Nat /\ st.start_line \in Nat /\ st.out \in Seq(Parsed)
  BY DEF Parser
<1>2. /\ semi \in 0..L
      /\ semi = 0 => \A i \in 1..L : b[i] # "semi"
      /\ semi # 0 => b[semi] = "semi" /\ \A k \in 1..(semi - 1) : b[k] # "semi"
  <2> HIDE DEF b
  <2> QED BY <1>1, FindFirst
<1>3. CASE semi = 0
  <2>1. cut(st, lineno) = st
    BY <1>3 DEF cut
  <2> QED BY <1>2, <1>3, <2>1 DEF Unterminated
<1>4. CASE semi # 0
  <2> HIDE DEF semi, b
  <2>a. \A i \in 1..L : b[i] \in Token
    BY <1>1
  <2> HIDE DEF L
  <2>b. semi \in 1..L /\ L \in Nat
    <3>1. semi \in 0..L
      BY <1>2
    <3>2. L \in Nat
      BY <1>1
    <3> QED BY <1>4, <3>1, <3>2
  <2>1. /\ semi - 1 \in Int /\ semi + 1 \in Int /\ L \in Int
        /\ \A i \in 1..(semi - 1) : b[i] \in Token
        /\ \A i \in (semi + 1)..L : b[i] \in Token
    BY <2>a, <2>b
  <2>2. /\ src \in Seq(Token) /\ Len(src) = semi - 1
        /\ \A k \in 1..(semi - 1) : src[k] = b[k]
    <3>1. /\ src \in Seq(Token) /\ Len(src) = IF 1 <= semi - 1 THEN semi - 1 - 1 + 1 ELSE 0
          /\ \A k \in 1..(semi - 1 - 1 + 1) : src[k] = b[1 + k - 1]
      BY <2>1, SubSeqProperties
    <3>2. semi - 1 \in Nat /\ semi - 1 - 1 + 1 = semi - 1 /\ \A k \in 1..(semi - 1) : 1 + k - 1 = k
      BY <2>b
    <3> HIDE DEF src
    <3> QED BY <3>1, <3>2
  <2>3. /\ rest \in Seq(Token) /\ Len(rest) = L - semi
        /\ \A k \in 1..(L - semi) : rest[k] = b[semi + k]
    <3>1. /\ rest \in Seq(Token)
          /\ Len(rest) = IF semi + 1 <= L THEN L - (semi + 1) + 1 ELSE 0
          /\ \A k \in 1..(L - (semi + 1) + 1) : rest[k] = b[semi + 1 + k - 1]
      BY <2>1, SubSeqProperties
    <3>2. L - semi \in Nat /\ L - (semi + 1) + 1 = L - semi
          /\ \A k \in 1..(L - semi) : semi + 1 + k - 1 = semi + k
      BY <2>b
    <3> HIDE DEF rest
    <3>3. Len(rest) = L - semi
      BY <2>b, <3>1
    <3> QED BY <3>1, <3>2, <3>3
  <2>4. cut(st, lineno) =
          [buf |-> rest, start_line |-> lineno,
           out |-> IF src = <<>> THEN st.out
                   ELSE Append(st.out, [line |-> st.start_line, text |-> src])]
    BY <1>4 DEF cut, semi, b, L
  <2>5. cut(st, lineno) \in Parser
    <3> HIDE DEF src, rest
    <3>1. [line |-> st.start_line, text |-> src] \in Parsed
      BY <1>1, <2>2 DEF Parsed
    <3>2. (IF src = <<>> THEN st.out
           ELSE Append(st.out, [line |-> st.start_line, text |-> src])) \in Seq(Parsed)
      BY <1>1, <3>1
    <3> QED BY <2>3, <2>4, <3>2 DEF Parser
  <2> HIDE DEF src, rest
  <2>6. /\ semi \in 0..L /\ b[semi] = "semi" /\ \A k \in 1..(semi - 1) : b[k] # "semi"
    BY <1>2, <1>4
  <2> QED BY <1>4, <2>2, <2>3, <2>4, <2>5, <2>6 DEF src, rest, semi, b, L
<1> QED BY <1>3, <1>4

Tokens == Seq([tok : Token, line : Nat])
OnLine(f, a, n, lineno) == \A j \in (a + 1)..n : f[j].line = lineno

(* A turn cuts off the next statement of the file, if there is one before  *)
(* the terminator, and gives it the line of its first token.               *)
LEMMA CutReads ==
  ASSUME NEW f \in Tokens, NEW up, Ordered(up, Begins(f), Len(f)),
         NEW st, NEW m \in Nat, NEW n \in Nat, Reads(f, up, st, m, n),
         NEW lineno \in Nat, NEW semi \in Nat \ {0}, semi = find(st.buf, "semi"),
         OnLine(f, m + semi, n, lineno)
  PROVE  /\ Reads(f, up, cut(st, lineno), m + semi, n)
         /\ semi \in 1..(n - m) /\ f[m + semi].tok = "semi"
<1> DEFINE src == SubSeq(st.buf, 1, semi - 1)
           rest == SubSeq(st.buf, semi + 1, Len(st.buf))
           next == cut(st, lineno)
           L == Len(f)
<1>1. st \in Parser
  BY DEF Reads
<1>2. /\ next \in Parser /\ semi \in 0..Len(st.buf)
      /\ st.buf[semi] = "semi" /\ \A k \in 1..(semi - 1) : st.buf[k] # "semi"
      /\ src \in Seq(Token) /\ Len(src) = semi - 1
      /\ \A k \in 1..(semi - 1) : src[k] = st.buf[k]
      /\ rest \in Seq(Token) /\ Len(rest) = Len(st.buf) - semi
      /\ \A k \in 1..(Len(st.buf) - semi) : rest[k] = st.buf[semi + k]
      /\ next = [buf |-> rest, start_line |-> lineno,
                 out |-> IF src = <<>> THEN st.out
                         ELSE Append(st.out, [line |-> st.start_line, text |-> src])]
  BY <1>1, CutOk, Zenon
<1>3. L \in Nat
  BY DEF Tokens
<1> HIDE DEF src, rest, next, L
<1>4. /\ n \in 0..L /\ m \in 0..n /\ Len(st.buf) = n - m
      /\ \A k \in 1..(n - m) : st.buf[k] = f[m + k].tok
  BY DEF Reads, L
<1>5. n \in Nat /\ m \in Nat /\ m <= n /\ n <= L
  BY <1>3, <1>4
<1>6. semi \in 1..(n - m)
  <2>1. semi \in 0..(n - m)
    BY <1>2, <1>4
  <2> QED BY <1>5, <2>1
<1>7. /\ f[m + semi].tok = "semi" /\ \A k \in 1..(semi - 1) : f[m + k].tok # "semi"
  <2>1. \A k \in 1..(semi - 1) : k \in 1..(n - m)
    BY <1>5, <1>6
  <2>2. f[m + semi].tok = "semi"
    BY <1>2, <1>4, <1>6, Zenon
  <2>3. \A k \in 1..(semi - 1) : st.buf[k] # "semi" /\ st.buf[k] = f[m + k].tok
    BY <1>2, <1>4, <2>1, Zenon
  <2> QED BY <2>2, <2>3, Zenon
<1>8. next.buf = rest /\ next.start_line = lineno
  BY <1>2
<1>9. m + semi \in 0..n /\ m + semi \in Nat /\ n - (m + semi) = (n - m) - semi
  BY <1>5, <1>6
<1>10. /\ Len(next.buf) = n - (m + semi)
       /\ \A k \in 1..(n - (m + semi)) : next.buf[k] = f[(m + semi) + k].tok
  <2>1. Len(next.buf) = n - (m + semi)
    BY <1>2, <1>4, <1>8, <1>9
  <2>2. ASSUME NEW k \in 1..(n - (m + semi))
        PROVE  next.buf[k] = f[(m + semi) + k].tok
    <3>1. k \in 1..((n - m) - semi) /\ semi + k \in 1..(n - m) /\ m + (semi + k) = (m + semi) + k
      BY <1>6, <2>2, Offsets
    <3>2. rest[k] = st.buf[semi + k]
      BY <1>2, <1>4, <3>1
    <3>3. st.buf[semi + k] = f[m + (semi + k)].tok
      BY <1>4, <3>1
    <3> QED BY <1>8, <3>1, <3>2, <3>3
  <2> QED BY <2>1, <2>2
<1>11. m + semi < n => next.start_line = f[(m + semi) + 1].line
  <2> SUFFICES ASSUME m + semi < n
               PROVE  next.start_line = f[(m + semi) + 1].line
    OBVIOUS
  <2>1. (m + semi) + 1 \in (m + semi + 1)..n
    <3>1. \A a, c \in Nat : a < c => a + 1 \in (a + 1)..c
      OBVIOUS
    <3> QED BY <1>9, <3>1, Zenon
  <2> QED BY <1>8, <2>1 DEF OnLine
<1> DEFINE B == Begins(f)
<1>12. m \in 0..L /\ m + semi \in 0..L /\ m + 1 \in 1..L /\ m + 1 \in 0..L /\ m + 1 - 1 = m
       /\ m + semi \in (m + 1)..L /\ m + 1 \in Nat
  BY <1>3, <1>5, <1>6
<1>13. /\ Len(st.out) = Len(up[m])
       /\ \A i \in 1..Len(st.out) : Matches(f, st.out[i], up[m][i])
       /\ st.out \in Seq(Parsed) /\ up[m] \in Seq(Nat)
  BY <1>1, <1>3, <1>12, OrderedFacts DEF Reads, Parser, L
<1>14. /\ Len(next.out) = Len(up[m + semi])
       /\ \A i \in 1..Len(next.out) : Matches(f, next.out[i], up[m + semi][i])
  <2>1. CASE semi = 1
    <3>1. next.out = st.out
      <4>1. src = <<>>
        BY <1>2, <2>1
      <4> QED BY <1>2, <4>1
    <3>2. m + 1 \notin B
      BY <1>7, <2>1 DEF Begins
    <3>3. up[m + 1] = up[m]
      <4>1. up[m + 1] = IF m + 1 \in B THEN Append(up[m + 1 - 1], m + 1) ELSE up[m + 1 - 1]
        BY <1>12 DEF Ordered, L
      <4> QED BY <1>12, <3>2, <4>1
    <3> QED BY <1>13, <2>1, <3>1, <3>3
  <2>2. CASE semi # 1
    <3>a. semi \in Nat /\ 1 \in 1..(semi - 1) /\ semi > 1 /\ semi - 1 \in Nat /\ semi - 1 # 0
      BY <1>5, <1>6, <2>2
    <3> DEFINE stmt == [line |-> st.start_line, text |-> src]
    <3>1. next.out = Append(st.out, stmt)
      <4>1. src # <<>>
        BY <1>2, <3>a
      <4> QED BY <1>2, <4>1
    <3>2. m + 1 \in B
      <4>1. f[m + 1].tok # "semi"
        BY <1>7, <3>a
      <4>2. m + 1 = 1 \/ f[m + 1 - 1].tok = "semi"
        BY <1>12 DEF Reads
      <4>3. m + 1 \in 1..Len(f)
        BY <1>12 DEF L
      <4> QED BY <4>1, <4>2, <4>3 DEF Begins
    <3>3. \A k \in (m + 1 + 1)..(m + semi) : k \notin B
      <4> SUFFICES ASSUME NEW k \in (m + 1 + 1)..(m + semi)
                   PROVE  k \notin B
        OBVIOUS
      <4>1. CASE k = m + semi
        BY <1>7, <4>1 DEF Begins
      <4>2. CASE k # m + semi
        <5>1. k - 1 - m \in 1..(semi - 1) /\ m + (k - 1 - m) = k - 1 /\ k # 1
          BY <1>5, <3>a, <4>2
        <5>2. f[k - 1].tok # "semi"
          BY <1>7, <5>1
        <5> QED BY <5>1, <5>2 DEF Begins
      <4> QED BY <4>1, <4>2
    <3>4. up[m + 1] = Append(up[m], m + 1)
      <4>1. up[m + 1] = IF m + 1 \in B THEN Append(up[m + 1 - 1], m + 1) ELSE up[m + 1 - 1]
        BY <1>12 DEF Ordered, L
      <4> QED BY <1>12, <3>2, <4>1
    <3>5. up[m + semi] = up[m + 1]
      <4> HIDE DEF B
      <4>1. Ordered(up, B, L)
        BY DEF B, L
      <4> QED BY <1>3, <1>12, <3>3, <4>1, OrderedSkip
    <3>6. Matches(f, stmt, m + 1)
      <4>1. st.start_line = f[m + 1].line
        BY <1>5, <1>6 DEF Reads
      <4>2. Part(f, m + 1) = (m + 1)..(m + semi - 1)
        <5>1. ASSUME NEW j \in Part(f, m + 1)
              PROVE  j \in (m + 1)..(m + semi - 1)
          <6>1. j \in (m + 1)..L /\ \A k \in (m + 1)..j : f[k].tok # "semi"
            BY DEF Part, L
          <6>2. ~(m + semi \in (m + 1)..j)
            BY <1>7, <6>1
          <6> QED BY <1>3, <1>5, <3>a, <6>1, <6>2
        <5>2. ASSUME NEW j \in (m + 1)..(m + semi - 1)
              PROVE  j \in Part(f, m + 1)
          <6>1. j \in (m + 1)..L
            <7>1. m + semi \in (m + 1)..L
              BY <1>12
            <7>2. L \in Nat /\ semi \in Nat
              BY <1>3
            <7> QED BY <7>1, <7>2
          <6>2. ASSUME NEW k \in (m + 1)..j
                PROVE  f[k].tok # "semi"
            <7>1. k - m \in 1..(semi - 1) /\ m + (k - m) = k
              BY <1>5, <3>a
            <7> QED BY <1>7, <7>1
          <6> QED BY <6>1, <6>2 DEF Part, L
        <5> QED BY <5>1, <5>2
      <4>3. (\E k \in 1..Len(src) : src[k] = "x") <=> (\E j \in Part(f, m + 1) : f[j].tok = "x")
        <5>0. Len(src) = semi - 1
          BY <1>2
        <5>1. ASSUME NEW k \in 1..(semi - 1)
              PROVE  m + k \in Part(f, m + 1) /\ src[k] = f[m + k].tok
          <6>1. k \in 1..(n - m) /\ m + k \in (m + 1)..(m + semi - 1)
            BY <1>5, <1>6, <3>a
          <6> QED BY <1>2, <1>4, <4>2, <6>1
        <5>2. ASSUME NEW j \in Part(f, m + 1)
              PROVE  j - m \in 1..(semi - 1) /\ m + (j - m) = j
          <6>1. j \in (m + 1)..(m + semi - 1)
            BY <4>2, <5>2, Zenon
          <6> QED BY <1>5, <3>a, <6>1
        <5>3. ASSUME NEW k \in 1..Len(src), src[k] = "x"
              PROVE  \E j \in Part(f, m + 1) : f[j].tok = "x"
          BY <5>0, <5>1, <5>3, Zenon
        <5>4. ASSUME NEW j \in Part(f, m + 1), f[j].tok = "x"
              PROVE  \E k \in 1..Len(src) : src[k] = "x"
          <6>1. j - m \in 1..(semi - 1) /\ f[m + (j - m)].tok = "x"
            BY <5>2, <5>4, Zenon
          <6> QED BY <5>0, <5>1, <6>1, Zenon
        <5> QED BY <5>3, <5>4, Zenon
      <4>4. Len(f) \notin Part(f, m + 1)
        <5>1. L \notin (m + 1)..(m + semi - 1)
          BY <1>3, <1>5, <1>12, <3>a
        <5> QED BY <4>2, <5>1 DEF L
      <4> QED BY <4>1, <4>3, <4>4 DEF Matches
    <3>7. stmt \in Parsed
      BY <1>1, <1>2 DEF Parsed, Parser
    <3> HIDE DEF stmt
    <3> DEFINE o == st.out
               u == up[m]
               N == Len(o)
    <3>8. o \in Seq(Parsed) /\ u \in Seq(Nat) /\ Len(u) = N /\ N \in Nat
      BY <1>13
    <3>9. /\ Len(Append(o, stmt)) = N + 1 /\ Len(Append(u, m + 1)) = N + 1
          /\ Append(o, stmt)[N + 1] = stmt /\ Append(u, m + 1)[N + 1] = m + 1
          /\ \A i \in 1..N : Append(o, stmt)[i] = o[i]
          /\ \A i \in 1..N : Append(u, m + 1)[i] = u[i]
      <4> HIDE DEF o, u
      <4> QED BY <1>12, <3>7, <3>8, AppendProperties
    <3>10. ASSUME NEW i \in 1..(N + 1)
           PROVE  Matches(f, Append(o, stmt)[i], Append(u, m + 1)[i])
      <4>1. CASE i = N + 1
        BY <3>6, <3>9, <4>1, Zenon
      <4>2. CASE i # N + 1
        <5>1. i \in 1..N
          <6> HIDE DEF N
          <6>1. N \in Nat
            BY <3>8
          <6> QED BY <4>2, <6>1
        <5>2. Matches(f, o[i], u[i])
          BY <1>13, <5>1, Zenon
        <5> QED BY <3>9, <5>1, <5>2, Zenon
      <4> QED BY <4>1, <4>2
    <3> QED BY <3>1, <3>4, <3>5, <3>9, <3>10, Zenon
  <2> QED BY <2>1, <2>2
<1>15. Reads(f, up, next, m + semi, n)
  BY <1>2, <1>4, <1>7, <1>9, <1>10, <1>11, <1>14, Zenon DEF Reads, L
<1> QED BY <1>6, <1>7, <1>15 DEF next

(* Induction along 0..n.                                                   *)
LEMMA Along ==
  ASSUME NEW n \in Nat, NEW T, 0 \in T, \A i \in 1..n : i - 1 \in T => i \in T
  PROVE  \A i \in 0..n : i \in T
<1> DEFINE ok == {k \in Nat : k <= n => k \in T}
<1>1. 0 \in ok
  OBVIOUS
<1>2. \A k \in ok : k + 1 \in ok
  <2> SUFFICES ASSUME NEW k \in Nat, k <= n => k \in T, k + 1 <= n
               PROVE  k + 1 \in T
    OBVIOUS
  <2>1. k + 1 \in 1..n /\ k + 1 - 1 = k
    OBVIOUS
  <2> QED BY <2>1
<1>3. ok = Nat
  <2> HIDE DEF ok
  <2>1. ok \in SUBSET Nat BY DEF ok
  <2> QED BY <1>1, <1>2, <2>1, InductionOnNat
<1> QED BY <1>3

\* No terminator after token a, up to token n.
Clear(f, a, n) == \A j \in (a + 1)..n : f[j].tok # "semi"

(* A turn cuts a statement off, and leaves less, or finds no terminator:   *)
(* those there are stand on the line just joined, after token n.           *)
LEMMA TurnReads ==
  ASSUME NEW f \in Tokens, NEW up, Ordered(up, Begins(f), Len(f)),
         NEW st, NEW m \in Nat, NEW a \in Nat, NEW n \in Nat,
         Reads(f, up, st, m, n), Clear(f, m, a),
         NEW lineno \in Nat, OnLine(f, a, n, lineno)
  PROVE  \E mm \in Nat :
           /\ Reads(f, up, cut(st, lineno), mm, n) /\ Clear(f, mm, a)
           /\ \/ cut(st, lineno) = st /\ Unterminated(st)
              \/ Len(cut(st, lineno).buf) \in Nat /\ Len(cut(st, lineno).buf) < Len(st.buf)
<1> DEFINE semi == find(st.buf, "semi")
           next == cut(st, lineno)
<1>1. st \in Parser
  BY DEF Reads
<1>2. /\ semi \in 0..Len(st.buf)
      /\ semi = 0 => next = st /\ Unterminated(st)
      /\ semi # 0 => st.buf[semi] = "semi"
  BY <1>1, CutOk, Zenon
<1>3. st.buf \in Seq(Token) /\ Len(st.buf) \in Nat
  BY <1>1 DEF Parser
<1>4. /\ m \in 0..n /\ Len(st.buf) = n - m
      /\ \A k \in 1..(n - m) : st.buf[k] = f[m + k].tok
  BY DEF Reads
<1>5. CASE semi = 0
  BY <1>2, <1>5
<1>6. CASE semi # 0
  <2> HIDE DEF semi
  <2>1. semi \in 1..(n - m) /\ semi \in Nat \ {0} /\ m + semi \in Nat /\ m + semi \in (m + 1)..n
    <3>1. semi \in 0..(n - m) /\ n - m \in Nat
      BY <1>2, <1>3, <1>4
    <3> QED BY <1>6, <3>1
  <2>2. f[m + semi].tok = "semi"
    BY <1>2, <1>4, <1>6, <2>1
  <2>3. m + semi > a
    <3>1. ~(m + semi \in (m + 1)..a)
      BY <2>2 DEF Clear
    <3> QED BY <2>1, <3>1
  <2>4. OnLine(f, m + semi, n, lineno)
    <3>1. \A j \in (m + semi + 1)..n : j \in (a + 1)..n
      BY <2>1, <2>3
    <3> QED BY <3>1 DEF OnLine
  <2>5. Reads(f, up, next, m + semi, n)
    <3>1. semi = find(st.buf, "semi")
      BY DEF semi
    <3> QED BY <2>1, <2>4, <3>1, CutReads
  <2>6. Clear(f, m + semi, a)
    BY <2>1, <2>3 DEF Clear
  <2> HIDE DEF next
  <2>7. Len(next.buf) = n - (m + semi)
    BY <2>5 DEF Reads
  <2>8. Len(next.buf) \in Nat /\ Len(next.buf) < Len(st.buf)
    BY <1>4, <2>1, <2>7
  <2> QED BY <2>1, <2>5, <2>6, <2>8 DEF next
<1> QED BY <1>5, <1>6

\* The turns of the inner loop.
Turned(t, whole, lineno, n) ==
  /\ t \in [0..n -> Parser] /\ t[0] = whole
  /\ \A k \in 1..n : t[k] = cut(t[k - 1], lineno)

(* parse_line is the last of as many turns as there are tokens.            *)
LEMMA ParseLineOk ==
  ASSUME NEW st \in Parser, NEW lineno \in Nat, NEW raw \in Seq(Token)
  PROVE  LET line == Uncommented(raw)
             whole == joined(st, lineno, line)
             n == Len(whole.buf)
         IN  /\ whole \in Parser /\ n \in Nat
             /\ line = <<>> => parse_line(st, lineno, raw) = st
             /\ line # <<>> => \E t : /\ Turned(t, whole, lineno, n)
                                      /\ parse_line(st, lineno, raw) = t[n]
<1> DEFINE line == Uncommented(raw)
           whole == joined(st, lineno, line)
           n == Len(whole.buf)
           step(g, k) == IF k = 0 THEN whole ELSE cut(g[k - 1], lineno)
           turn == CHOOSE g : g = [k \in 0..n |-> step(g, k)]
           G == [k \in 1..n |-> [x \in Parser |-> cut(x, lineno)]]
<1>1. line \in Seq(Token)
  BY UncommentedOk
<1>2. whole \in Parser
  <2> HIDE DEF line
  <2> QED BY <1>1 DEF joined, Parser
<1>3. n \in Nat
  <2>1. whole.buf \in Seq(Token)
    BY <1>2 DEF Parser
  <2> HIDE DEF whole
  <2> QED BY <2>1
<1>4. parse_line(st, lineno, raw) = IF line = <<>> THEN st ELSE turn[n]
  BY DEF parse_line
<1> HIDE DEF line, whole, n
<1>5. \A x \in Parser : cut(x, lineno) \in Parser
  BY CutOk
<1>6. G \in Steps(n, Parser)
  BY <1>5 DEF Steps
<1> HIDE DEF G
<1>7. PICK g : Recurs(g, whole, n, G, Parser)
  BY <1>2, <1>3, <1>6, Recursion
<1>8. g \in [0..n -> Parser] /\ \A i \in 0..n : g[i] = IF i = 0 THEN whole ELSE G[i][g[i - 1]]
  BY <1>7 DEF Recurs
<1>9. \A k \in 0..n : g[k] = step(g, k)
  <2> SUFFICES ASSUME NEW k \in 0..n
               PROVE  g[k] = step(g, k)
    OBVIOUS
  <2>1. CASE k = 0
    BY <1>8, <2>1
  <2>2. CASE k # 0
    <3>1. k \in 1..n /\ k - 1 \in 0..n /\ g[k - 1] \in Parser
      BY <1>3, <1>8, <2>2
    <3>2. g[k] = G[k][g[k - 1]]
      BY <1>8, <2>2
    <3>3. G[k][g[k - 1]] = cut(g[k - 1], lineno)
      BY <3>1 DEF G
    <3> QED BY <2>2, <3>2, <3>3
  <2> QED BY <2>1, <2>2
<1>10. g = [k \in 0..n |-> step(g, k)]
  <2> HIDE DEF step
  <2> QED BY <1>8, <1>9
<1>11. turn = [k \in 0..n |-> step(turn, k)]
  <2> HIDE DEF step
  <2> QED BY <1>10
<1> HIDE DEF turn
<1>12. \A k \in 0..n : turn[k] = step(turn, k)
  <2> HIDE DEF step
  <2> QED BY <1>11
<1>13. turn[0] = whole
  BY <1>3, <1>12
<1>14. \A k \in 1..n : turn[k] = cut(turn[k - 1], lineno)
  BY <1>3, <1>12
<1> DEFINE T == {k \in Nat : turn[k] \in Parser}
<1>15. \A k \in 1..n : k - 1 \in T => k \in T
  <2> SUFFICES ASSUME NEW k \in 1..n, turn[k - 1] \in Parser
               PROVE  k \in T
    OBVIOUS
  <2>1. k \in Nat
    BY <1>3
  <2>2. turn[k] \in Parser
    BY <1>5, <1>14
  <2> QED BY <2>1, <2>2
<1>16. 0 \in T
  BY <1>2, <1>13
<1>17. \A k \in 0..n : k \in T
  <2> HIDE DEF T
  <2> QED BY <1>3, <1>15, <1>16, Along
<1>18. turn \in [0..n -> Parser]
  BY <1>11, <1>17
<1>19. Turned(turn, whole, lineno, n)
  BY <1>13, <1>14, <1>18 DEF Turned
<1> QED BY <1>2, <1>3, <1>4, <1>19 DEF line, whole, n

(* Joining a line to buf.                                                  *)
LEMMA JoinReads ==
  ASSUME NEW f \in Tokens, NEW up, NEW st, NEW m \in Nat, NEW a \in Nat, NEW n \in Nat,
         Reads(f, up, st, m, a), NEW lineno \in Nat,
         NEW line \in Seq(Token), line # <<>>, n = a + Len(line), n <= Len(f),
         \A k \in 1..Len(line) : f[a + k].tok = line[k],
         OnLine(f, a, n, lineno)
  PROVE  Reads(f, up, joined(st, lineno, line), m, n)
<1> DEFINE next == joined(st, lineno, line)
           b == st.buf
           L == Len(f)
           w == Len(line)
<1>0. L \in Nat /\ w \in Nat \ {0} /\ st \in Parser
  BY DEF Tokens, Reads
<1>1. b \in Seq(Token) /\ st.start_line \in Nat /\ st.out \in Seq(Parsed)
  BY <1>0 DEF Parser
<1>2. /\ m \in 0..a /\ Len(b) = a - m /\ \A k \in 1..(a - m) : b[k] = f[m + k].tok
      /\ m = 0 \/ f[m].tok = "semi"
      /\ m < a => st.start_line = f[m + 1].line
      /\ Len(st.out) = Len(up[m])
      /\ \A i \in 1..Len(st.out) : Matches(f, st.out[i], up[m][i])
  BY DEF Reads
<1>3. /\ next.buf = b \o line /\ next.out = st.out
      /\ next.start_line = IF b = <<>> THEN lineno ELSE st.start_line
  BY DEF joined
<1>4. next \in Parser
  <2> HIDE DEF b
  <2> QED BY <1>0, <1>1 DEF joined, Parser, b
<1> HIDE DEF next, b, L, w
<1>5. n = a + w /\ n <= L
  BY DEF w, L
<1>6. n \in 0..L /\ m \in 0..n /\ a - m \in Nat /\ n - m = (a - m) + w
  <2>1. m \in 0..a /\ L \in Nat /\ w \in Nat
    BY <1>0, <1>2
  <2> QED BY <1>5, <2>1
<1>7. Len(next.buf) = n - m
  <2>1. Len(b \o line) = Len(b) + w
    BY <1>1 DEF w
  <2> QED BY <2>1, <1>2, <1>3, <1>6
<1>8. ASSUME NEW k \in 1..(n - m)
      PROVE  next.buf[k] = f[m + k].tok
  <2>1. CASE k <= a - m
    <3>1. k \in 1..(a - m)
      BY <1>6, <2>1
    <3>2. (b \o line)[k] = b[k]
      <4>1. k \in 1..(Len(b) + Len(line)) /\ k <= Len(b)
        BY <1>2, <1>6, <2>1 DEF w
      <4> QED BY <1>1, <4>1, ConcatProperties
    <3> QED BY <1>2, <1>3, <3>1, <3>2
  <2>2. CASE ~(k <= a - m)
    <3>1. k - (a - m) \in 1..w /\ a + (k - (a - m)) = m + k
      BY <1>0, <1>2, <1>6, <2>2
    <3>2. (b \o line)[k] = line[k - (a - m)]
      <4>1. k \in 1..(Len(b) + Len(line)) /\ ~(k <= Len(b))
        BY <1>2, <1>6, <2>2 DEF w
      <4>2. (b \o line)[k] = line[k - Len(b)]
        BY <1>1, <4>1, ConcatProperties, Zenon
      <4> QED BY <1>2, <4>2
    <3>3. f[a + (k - (a - m))].tok = line[k - (a - m)]
      BY <3>1 DEF w
    <3> QED BY <1>3, <3>1, <3>2, <3>3
  <2> QED BY <2>1, <2>2
<1>9. m < n => next.start_line = f[m + 1].line
  <2>1. CASE b = <<>>
    <3>1. m = a
      <4>1. Len(b) = 0
        BY <2>1
      <4> QED BY <1>2, <4>1
    <3>2. m + 1 \in (a + 1)..n
      BY <1>0, <1>5, <3>1
    <3> QED BY <1>3, <2>1, <3>2 DEF OnLine
  <2>2. CASE b # <<>>
    <3>1. Len(b) # 0
      BY <1>1, <2>2
    <3>2. m < a
      BY <1>2, <3>1
    <3> QED BY <1>2, <1>3, <2>2, <3>2
  <2> QED BY <2>1, <2>2
<1>10. /\ Len(next.out) = Len(up[m])
       /\ \A i \in 1..Len(next.out) : Matches(f, next.out[i], up[m][i])
  BY <1>2, <1>3, Zenon
<1> QED BY <1>2, <1>4, <1>6, <1>7, <1>8, <1>9, <1>10, Zenon DEF Reads, L, next

(* A line is read whole: all its terminators have been cut at.             *)
LEMMA LineReads ==
  ASSUME NEW f \in Tokens, NEW up, Ordered(up, Begins(f), Len(f)),
         NEW st, NEW m \in Nat, NEW a \in Nat, NEW n \in Nat,
         Reads(f, up, st, m, a), Unterminated(st),
         NEW lineno \in Nat, NEW raw \in Seq(Token),
         n = a + Len(Uncommented(raw)), n <= Len(f),
         \A k \in 1..Len(Uncommented(raw)) :
           f[a + k] = [tok |-> Uncommented(raw)[k], line |-> lineno]
  PROVE  \E mm \in Nat : /\ Reads(f, up, parse_line(st, lineno, raw), mm, n)
                         /\ Unterminated(parse_line(st, lineno, raw))
<1> DEFINE line == Uncommented(raw)
           whole == joined(st, lineno, line)
           N == Len(whole.buf)
           last == parse_line(st, lineno, raw)
<1>1. st \in Parser /\ line \in Seq(Token) /\ Len(line) \in Nat
  <2>1. line \in Seq(Token)
    BY UncommentedOk
  <2>2. st \in Parser
    BY DEF Reads
  <2> HIDE DEF line
  <2> QED BY <2>1, <2>2
<1>2. /\ whole \in Parser /\ N \in Nat
      /\ line = <<>> => last = st
      /\ line # <<>> => \E t : Turned(t, whole, lineno, N) /\ last = t[N]
  BY <1>1, ParseLineOk, Zenon
<1>3. n = a + Len(line) /\ \A k \in 1..Len(line) : f[a + k] = [tok |-> line[k], line |-> lineno]
  OBVIOUS
<1> HIDE DEF line, last
<1>4. CASE line = <<>>
  <2>1. n = a /\ last = st
    BY <1>2, <1>3, <1>4
  <2> QED BY <2>1 DEF last
<1>5. CASE line # <<>>
  <2>1. PICK t : Turned(t, whole, lineno, N) /\ last = t[N]
    BY <1>2, <1>5
  <2>2. OnLine(f, a, n, lineno) /\ \A k \in 1..Len(line) : f[a + k].tok = line[k]
    <3>1. \A k \in 1..Len(line) : f[a + k].tok = line[k] /\ f[a + k].line = lineno
      <4> SUFFICES ASSUME NEW k \in 1..Len(line)
                   PROVE  f[a + k].tok = line[k] /\ f[a + k].line = lineno
        OBVIOUS
      <4> DEFINE r == f[a + k]
      <4>1. r = [tok |-> line[k], line |-> lineno]
        BY <1>3, Zenon
      <4> HIDE DEF r
      <4>2. r.tok = line[k] /\ r.line = lineno
        BY <4>1, FieldsOf
      <4> QED BY <4>2 DEF r
    <3>2. \A j \in (a + 1)..n : j - a \in 1..Len(line) /\ a + (j - a) = j
      BY <1>1, <1>3
    <3>3. \A j \in (a + 1)..n : f[j].line = lineno
      <4> SUFFICES ASSUME NEW j \in (a + 1)..n PROVE f[j].line = lineno
        OBVIOUS
      <4>1. f[a + (j - a)].line = lineno
        BY <3>1, <3>2
      <4> QED BY <3>2, <4>1
    <3> QED BY <3>1, <3>3 DEF OnLine
  <2>3. Reads(f, up, whole, m, n)
    BY <1>1, <1>3, <1>5, <2>2, JoinReads
  <2>4. Clear(f, m, a)
    <3> SUFFICES ASSUME NEW j \in (m + 1)..a PROVE f[j].tok # "semi"
      BY DEF Clear
    <3>1. j - m \in 1..(a - m) /\ m + (j - m) = j
      OBVIOUS
    <3>2. Len(st.buf) = a - m /\ st.buf[j - m] = f[m + (j - m)].tok
      BY <3>1 DEF Reads
    <3>3. st.buf[j - m] # "semi"
      BY <3>1, <3>2 DEF Unterminated
    <3> QED BY <3>1, <3>2, <3>3
  <2> HIDE DEF whole, N
  <2> DEFINE at(k) == /\ \E mm \in Nat : Reads(f, up, t[k], mm, n) /\ Clear(f, mm, a)
                      /\ Unterminated(t[k]) \/ (Len(t[k].buf) \in Nat /\ Len(t[k].buf) + k <= N)
             T == {k \in Nat : at(k)}
  <2>5. 0 \in T
    <3>1. t[0] = whole /\ Len(whole.buf) = N
      BY <2>1 DEF Turned, N
    <3>2. Len(t[0].buf) \in Nat /\ Len(t[0].buf) + 0 <= N
      BY <1>2, <3>1
    <3> QED BY <2>3, <2>4, <3>1, <3>2
  <2>6. \A k \in 1..N : k - 1 \in T => k \in T
    <3> SUFFICES ASSUME NEW k \in 1..N, at(k - 1) PROVE at(k)
      <4> HIDE DEF at
      <4>1. \A k \in 1..N : k \in Nat
        BY <1>2
      <4> QED BY <4>1
    <3> DEFINE s == t[k - 1]
    <3>1. PICK mm \in Nat : Reads(f, up, s, mm, n) /\ Clear(f, mm, a)
      OBVIOUS
    <3>2. Unterminated(s) \/ (Len(s.buf) \in Nat /\ Len(s.buf) + (k - 1) <= N)
      OBVIOUS
    <3>3. t[k] = cut(s, lineno)
      BY <2>1 DEF Turned
    <3> HIDE DEF s
    <3>4. \E m2 \in Nat :
            /\ Reads(f, up, cut(s, lineno), m2, n) /\ Clear(f, m2, a)
            /\ \/ cut(s, lineno) = s /\ Unterminated(s)
               \/ Len(cut(s, lineno).buf) \in Nat /\ Len(cut(s, lineno).buf) < Len(s.buf)
      BY <2>2, <3>1, TurnReads
    <3>5. PICK m2 \in Nat :
            /\ Reads(f, up, t[k], m2, n) /\ Clear(f, m2, a)
            /\ \/ t[k] = s /\ Unterminated(s)
               \/ Len(t[k].buf) \in Nat /\ Len(t[k].buf) < Len(s.buf)
      BY <3>3, <3>4
    <3>6. Unterminated(t[k]) \/ (Len(t[k].buf) \in Nat /\ Len(t[k].buf) + k <= N)
      <4>1. CASE Unterminated(s)
        <5>1. s \in Parser
          BY <3>1 DEF Reads
        <5>2. find(s.buf, "semi") = 0 => cut(s, lineno) = s
          BY <5>1, CutOk, Zenon
        <5>3. find(s.buf, "semi") \in 0..Len(s.buf) /\ Len(s.buf) \in Nat
              /\ (find(s.buf, "semi") # 0 => s.buf[find(s.buf, "semi")] = "semi")
          <6>1. s.buf \in Seq(Token)
            BY <5>1 DEF Parser
          <6>2. Len(s.buf) \in Nat
            BY <6>1
          <6> QED BY <6>1, <6>2, FindFirst, Zenon
        <5>4. find(s.buf, "semi") = 0
          BY <4>1, <5>3 DEF Unterminated
        <5> QED BY <3>3, <4>1, <5>2, <5>4
      <4>2. CASE ~Unterminated(s)
        <5>1. Len(t[k].buf) \in Nat /\ Len(t[k].buf) < Len(s.buf) /\ Len(s.buf) \in Nat
              /\ Len(s.buf) + (k - 1) <= N
          BY <3>2, <3>5, <4>2
        <5>2. N \in Nat /\ k \in 1..N
          BY <1>2
        <5>3. Len(t[k].buf) + k <= N
          BY <5>1, <5>2, Shorter, Zenon
        <5> QED BY <5>1, <5>3
      <4> QED BY <4>1, <4>2
    <3> QED BY <3>5, <3>6
  <2>7. N \in T
    <3> HIDE DEF T
    <3>1. \A k \in 0..N : k \in T
      BY <1>2, <2>5, <2>6, Along
    <3> QED BY <1>2, <3>1
  <2>8. PICK mm \in Nat : Reads(f, up, t[N], mm, n)
    BY <2>7
  <2>9. Unterminated(t[N])
    <3>1. Unterminated(t[N]) \/ (Len(t[N].buf) \in Nat /\ Len(t[N].buf) + N <= N)
      BY <2>7
    <3>2. (Len(t[N].buf) \in Nat /\ Len(t[N].buf) + N <= N) => Unterminated(t[N])
      BY <1>2 DEF Unterminated
    <3> QED BY <3>1, <3>2
  <2> QED BY <2>1, <2>8, <2>9 DEF last
<1> QED BY <1>4, <1>5

\* The parser after each line.
First == [buf |-> <<>>, start_line |-> 0, out |-> <<>>]
LinesRead(after, content) ==
  /\ after \in [0..Len(content) -> Parser] /\ after[0] = First
  /\ \A i \in 1..Len(content) : after[i] = parse_line(after[i - 1], i, content[i])

\* What parse makes of its locals at the end of the file.
Outcome(st) ==
  LET bad == {i \in 1..Len(st.out) : \E k \in 1..Len(st.out[i].text) : st.out[i].text[k] = "x"}
  IN  IF bad # {} THEN Err(st.out[Min(bad)].line)
      ELSE IF st.buf # <<>> THEN Err(st.start_line)
      ELSE Ok([i \in 1..Len(st.out) |-> st.out[i].line])

(* parse is the outcome after the last line.                               *)
LEMMA ParseOk ==
  ASSUME NEW content \in Seq(Seq(Token))
  PROVE  \E after : /\ LinesRead(after, content)
                    /\ parse(content) = Outcome(after[Len(content)])
<1> DEFINE n == Len(content)
           step(g, i) == IF i = 0 THEN First ELSE parse_line(g[i - 1], i, content[i])
           after == CHOOSE g : g = [i \in 0..n |-> step(g, i)]
           G == [i \in 1..n |-> [x \in Parser |-> parse_line(x, i, content[i])]]
<1>1. n \in Nat /\ \A i \in 1..n : content[i] \in Seq(Token) /\ i \in Nat
  OBVIOUS
<1>2. First \in Parser
  BY DEF First, Parser
<1>3. parse(content) = Outcome(after[n])
  BY DEF parse, Outcome, First
<1> HIDE DEF n
<1>4. \A i \in 1..n : \A x \in Parser : parse_line(x, i, content[i]) \in Parser
  <2> SUFFICES ASSUME NEW i \in 1..n, NEW x \in Parser
               PROVE  parse_line(x, i, content[i]) \in Parser
    OBVIOUS
  <2> DEFINE raw == content[i]
             line == Uncommented(raw)
             whole == joined(x, i, line)
             N == Len(whole.buf)
  <2>0. raw \in Seq(Token) /\ i \in Nat
    BY <1>1
  <2> HIDE DEF raw
  <2>1. /\ N \in Nat
        /\ line = <<>> => parse_line(x, i, raw) = x
        /\ line # <<>> => \E t : Turned(t, whole, i, N) /\ parse_line(x, i, raw) = t[N]
    BY <2>0, ParseLineOk, Zenon
  <2> HIDE DEF line, whole, N
  <2>2. ASSUME NEW t, Turned(t, whole, i, N) PROVE t[N] \in Parser
    BY <2>1, <2>2 DEF Turned
  <2> QED BY <2>1, <2>2 DEF raw
<1>5. G \in Steps(n, Parser)
  BY <1>4 DEF Steps
<1> HIDE DEF G
<1>6. PICK g : Recurs(g, First, n, G, Parser)
  BY <1>1, <1>2, <1>5, Recursion
<1>7. g \in [0..n -> Parser] /\ \A i \in 0..n : g[i] = IF i = 0 THEN First ELSE G[i][g[i - 1]]
  BY <1>6 DEF Recurs
<1>8. \A i \in 0..n : g[i] = step(g, i)
  <2> SUFFICES ASSUME NEW i \in 0..n
               PROVE  g[i] = step(g, i)
    OBVIOUS
  <2>1. CASE i = 0
    BY <1>7, <2>1
  <2>2. CASE i # 0
    <3>1. i \in 1..n /\ i - 1 \in 0..n /\ g[i - 1] \in Parser
      BY <1>1, <1>7, <2>2
    <3>2. g[i] = G[i][g[i - 1]]
      BY <1>7, <2>2
    <3>3. G[i][g[i - 1]] = parse_line(g[i - 1], i, content[i])
      BY <3>1 DEF G
    <3> QED BY <2>2, <3>2, <3>3
  <2> QED BY <2>1, <2>2
<1>9. g = [i \in 0..n |-> step(g, i)]
  <2> HIDE DEF step
  <2> QED BY <1>7, <1>8
<1>10. after = [i \in 0..n |-> step(after, i)]
  <2> HIDE DEF step
  <2> QED BY <1>9
<1> HIDE DEF after
<1>11. \A i \in 0..n : after[i] = step(after, i)
  <2> HIDE DEF step
  <2> QED BY <1>10
<1>12. after[0] = First
  BY <1>1, <1>11
<1>13. \A i \in 1..n : after[i] = parse_line(after[i - 1], i, content[i])
  BY <1>1, <1>11
<1> DEFINE T == {i \in Nat : after[i] \in Parser}
<1>14. \A i \in 1..n : i - 1 \in T => i \in T
  <2> SUFFICES ASSUME NEW i \in 1..n, after[i - 1] \in Parser
               PROVE  i \in T
    OBVIOUS
  <2>1. i \in Nat
    BY <1>1
  <2>2. after[i] \in Parser
    BY <1>4, <1>13
  <2> QED BY <2>1, <2>2
<1>15. 0 \in T
  BY <1>2, <1>12
<1>16. \A i \in 0..n : i \in T
  <2> HIDE DEF T
  <2> QED BY <1>1, <1>14, <1>15, Along
<1>17. after \in [0..n -> Parser]
  BY <1>10, <1>16
<1>18. LinesRead(after, content)
  BY <1>12, <1>13, <1>17 DEF LinesRead, n
<1> QED BY <1>3, <1>18 DEF n

(* At the end of the file the whole of it has been read.                   *)
LEMMA FileReads ==
  ASSUME NEW content \in Seq(Seq(Token)), NEW up,
         Ordered(up, Begins(Flat(content)), Len(Flat(content))),
         NEW after, LinesRead(after, content)
  PROVE  LET st == after[Len(content)]
             f == Flat(content)
         IN  \E m \in Nat : Reads(f, up, st, m, Len(f)) /\ Unterminated(st)
<1> DEFINE f == Flat(content)
           n == Len(content)
           U(i) == Uncommented(content[i])
<1>1. n \in Nat /\ \A i \in 1..n : content[i] \in Seq(Token) /\ i \in Nat
  OBVIOUS
<1>2. PICK E \in [0..n -> Nat] :
        /\ f \in Seq([tok : Token, line : Nat]) /\ E[0] = 0 /\ E[n] = Len(f)
        /\ \A i \in 1..n :
             /\ E[i] = E[i - 1] + Len(U(i)) /\ E[i] <= Len(f)
             /\ \A k \in 1..Len(U(i)) : f[E[i - 1] + k] = [tok |-> U(i)[k], line |-> i]
  BY FlatOk, Zenon
<1>3. f \in Tokens
  BY <1>2 DEF Tokens
<1>4. /\ after \in [0..n -> Parser] /\ after[0] = First
      /\ \A i \in 1..n : after[i] = parse_line(after[i - 1], i, content[i])
  BY DEF LinesRead
<1>5. Ordered(up, Begins(f), Len(f)) /\ Len(f) \in Nat
  BY <1>2
<1> HIDE DEF f, n
<1> DEFINE at(i) == \E m \in Nat : Reads(f, up, after[i], m, E[i]) /\ Unterminated(after[i])
           T == {i \in Nat : at(i)}
<1>6. 0 \in T
  <2>1. after[0] = First /\ E[0] = 0
    BY <1>2, <1>4
  <2>2. up[0] = <<>>
    BY <1>5 DEF Ordered
  <2>3. Reads(f, up, First, 0, 0)
    <3>1. First \in Parser /\ First.buf = <<>> /\ First.out = <<>>
      BY DEF First, Parser
    <3> HIDE DEF First
    <3> QED BY <1>5, <2>2, <3>1 DEF Reads
  <2>4. Unterminated(First)
    BY DEF First, Unterminated
  <2> QED BY <2>1, <2>3, <2>4
<1>7. \A i \in 1..n : i - 1 \in T => i \in T
  <2> SUFFICES ASSUME NEW i \in 1..n, at(i - 1) PROVE at(i)
    <3> HIDE DEF at
    <3> QED BY <1>1
  <2> DEFINE s == after[i - 1]
             raw == content[i]
             a == E[i - 1]
             b == E[i]
  <2>1. a \in Nat /\ b \in Nat /\ i \in Nat /\ raw \in Seq(Token) /\ after[i] = parse_line(s, i, raw)
    BY <1>1, <1>2, <1>4
  <2>2. /\ b = a + Len(Uncommented(raw)) /\ b <= Len(f)
        /\ \A k \in 1..Len(Uncommented(raw)) :
             f[a + k] = [tok |-> Uncommented(raw)[k], line |-> i]
    BY <1>2
  <2>3. PICK m \in Nat : Reads(f, up, s, m, a) /\ Unterminated(s)
    OBVIOUS
  <2> HIDE DEF s, raw, a, b, at
  <2>4. \E m2 \in Nat : Reads(f, up, parse_line(s, i, raw), m2, b)
                        /\ Unterminated(parse_line(s, i, raw))
    <3>1. /\ a \in Nat /\ b \in Nat /\ i \in Nat /\ raw \in Seq(Token)
          /\ Ordered(up, Begins(f), Len(f))
      BY <1>5, <2>1
    <3> QED BY <1>3, <2>2, <2>3, <3>1, LineReads
  <2> QED BY <2>1, <2>4 DEF at, b
<1>8. n \in T
  <2> HIDE DEF T
  <2>1. \A i \in 0..n : i \in T
    BY <1>1, <1>6, <1>7, Along
  <2> QED BY <1>1, <2>1
<1>9. at(n)
  BY <1>8
<1> QED BY <1>2, <1>9 DEF f, n

(* Min is the least member.                                                *)
LEMMA MinOk ==
  ASSUME NEW T \in SUBSET Nat, NEW x \in T, \A y \in T : x <= y
  PROVE  Min(T) = x
<1>1. Min(T) \in T /\ \A y \in T : Min(T) <= y
  BY DEF Min
<1>2. Min(T) <= x /\ x <= Min(T) /\ Min(T) \in Nat /\ x \in Nat
  BY <1>1
<1> QED BY <1>2

(* The lines that parse gives to the statements, or to its error, are      *)
(* those of their first tokens.                                            *)
LEMMA LinesMatch ==
  ASSUME NEW content \in Seq(Seq(Token))
  PROVE  IF parse(content).ok THEN parse(content).v = FirstTokens(content)
                              ELSE <<parse(content).err>> = FirstTokens(content)
<1> DEFINE f == Flat(content)
           L == Len(f)
           B == Begins(f)
           open == {i \in B : L \in Part(f, i)}
           bad == {i \in B \ open : \E j \in Part(f, i) : f[j].tok = "x"}
<1>1. f \in Tokens /\ L \in Nat
  <2>1. f \in Seq([tok : Token, line : Nat])
    BY FlatOk
  <2> HIDE DEF f
  <2> QED BY <2>1 DEF Tokens
<1>2. PICK up : Ordered(up, B, L)
  <2> HIDE DEF L, B
  <2> QED BY <1>1, InOrderOk
<1>3. PICK after : LinesRead(after, content) /\ parse(content) = Outcome(after[Len(content)])
  BY ParseOk
<1> DEFINE st == after[Len(content)]
<1>4. PICK m \in Nat : Reads(f, up, st, m, L) /\ Unterminated(st)
  BY <1>2, <1>3, FileReads, Zenon
<1>5. FirstTokens(content) =
        IF bad \cup open # {} THEN <<f[Min(IF bad # {} THEN bad ELSE open)].line>>
        ELSE [k \in 1..Len(InOrder(B, L)) |-> f[InOrder(B, L)[k]].line]
  BY DEF FirstTokens
<1> DEFINE ill == {i \in 1..Len(st.out) : \E k \in 1..Len(st.out[i].text) : st.out[i].text[k] = "x"}
<1>6. parse(content) = IF ill # {} THEN Err(st.out[Min(ill)].line)
                       ELSE IF st.buf # <<>> THEN Err(st.start_line)
                       ELSE Ok([i \in 1..Len(st.out) |-> st.out[i].line])
  BY <1>3 DEF Outcome
<1>b. B \in SUBSET (1..L)
  BY DEF Begins
<1> HIDE DEF f, L, st
<1> DEFINE u == up[m]
           N == Len(st.out)
<1>7. /\ st \in Parser /\ m \in 0..L
      /\ m = 0 \/ f[m].tok = "semi"
      /\ Len(st.buf) = L - m /\ \A k \in 1..(L - m) : st.buf[k] = f[m + k].tok
      /\ m < L => st.start_line = f[m + 1].line
      /\ N = Len(u)
      /\ \A i \in 1..N : Matches(f, st.out[i], u[i])
  BY <1>4 DEF Reads, L
<1>8. st.buf \in Seq(Token) /\ st.out \in Seq(Parsed) /\ N \in Nat
  BY <1>7 DEF Parser
<1>9. /\ \A i \in 1..N : u[i] \in B /\ u[i] \in 1..m
      /\ \A i, j \in 1..N : i < j => u[i] < u[j]
      /\ \A x \in B : x \in 1..m => \E i \in 1..N : u[i] = x
  <2> HIDE DEF B
  <2> QED BY <1>1, <1>2, <1>7, OrderedFacts
<1>10. \A i \in 1..N : /\ st.out[i].line = f[u[i]].line
                       /\ i \in ill <=> \E j \in Part(f, u[i]) : f[j].tok = "x"
                       /\ L \notin Part(f, u[i])
  <2> SUFFICES ASSUME NEW i \in 1..N
               PROVE  /\ st.out[i].line = f[u[i]].line
                      /\ i \in ill <=> \E j \in Part(f, u[i]) : f[j].tok = "x"
                      /\ L \notin Part(f, u[i])
    OBVIOUS
  <2> DEFINE o == st.out[i]
  <2>1. Matches(f, o, u[i])
    BY <1>7
  <2>2. i \in ill <=> \E k \in 1..Len(o.text) : o.text[k] = "x"
    OBVIOUS
  <2> HIDE DEF ill, u, o
  <2> QED BY <2>1, <2>2, Zenon DEF Matches, L, o
<1>11. Clear(f, m, L)
  <2> SUFFICES ASSUME NEW j \in (m + 1)..L PROVE f[j].tok # "semi"
    BY DEF Clear
  <2>1. j - m \in 1..(L - m) /\ m + (j - m) = j
    BY <1>1, <1>7
  <2>2. st.buf[j - m] = f[m + (j - m)].tok /\ Len(st.buf) = L - m
    BY <1>7, <2>1
  <2>3. st.buf[j - m] # "semi"
    BY <1>4, <2>1, <2>2 DEF Unterminated
  <2> QED BY <2>1, <2>2, <2>3
<1>12. open = IF m < L THEN {m + 1} ELSE {}
  <2>1. ASSUME NEW x \in open PROVE x = m + 1 /\ m < L
    <3>1. x \in B /\ x \in 1..L /\ L \in Part(f, x)
      BY <1>b, <2>1
    <3>2. ~(x \in 1..m)
      BY <1>9, <1>10, <3>1
    <3>3. x \in (m + 1)..L
      BY <1>1, <3>1, <3>2
    <3>4. CASE x = m + 1
      BY <1>1, <3>3, <3>4
    <3>5. CASE x # m + 1
      <4>1. x - 1 \in (m + 1)..L /\ x # 1
        BY <1>1, <3>3, <3>5
      <4>2. f[x - 1].tok # "semi"
        BY <1>11, <4>1 DEF Clear
      <4>3. x = 1 \/ f[x - 1].tok = "semi"
        BY <3>1 DEF Begins
      <4> QED BY <4>1, <4>2, <4>3
    <3> QED BY <3>4, <3>5
  <2>2. ASSUME m < L PROVE m + 1 \in open
    <3>1. m + 1 \in (m + 1)..L /\ m + 1 \in 1..L /\ m + 1 - 1 = m /\ L \in (m + 1)..L
          /\ (m = 0 => m + 1 = 1)
      BY <1>1, <2>2
    <3>2. f[m + 1].tok # "semi"
      BY <1>11, <3>1 DEF Clear
    <3>3. m + 1 = 1 \/ f[m + 1 - 1].tok = "semi"
      BY <1>7, <3>1
    <3>4. m + 1 \in B
      BY <3>1, <3>2, <3>3 DEF Begins, L
    <3>5. L \in Part(f, m + 1)
      BY <1>11, <3>1 DEF Part, Clear, L
    <3> QED BY <3>4, <3>5
  <2> HIDE DEF open
  <2> QED BY <2>1, <2>2
<1>13. \A i \in 1..N : u[i] \in B \ open
  BY <1>9, <1>10
<1>14. \A x \in B \ open : \E i \in 1..N : u[i] = x
  <2> SUFFICES ASSUME NEW x \in B \ open PROVE x \in 1..m
    BY <1>9
  <2>1. x \in 1..L
    BY <1>b
  <2>2. CASE m = L
    BY <2>1, <2>2
  <2>3. CASE m # L
    <3>1. m < L /\ x # m + 1
      <4>1. m < L
        BY <1>1, <1>7, <2>3
      <4>2. open = {m + 1}
        BY <1>12, <4>1
      <4> HIDE DEF open
      <4> QED BY <4>1, <4>2
    <3>2. CASE x \in 1..m
      BY <3>2
    <3>3. CASE ~(x \in 1..m)
      <4>1. x - 1 \in (m + 1)..L /\ x # 1
        BY <1>1, <2>1, <3>1, <3>3
      <4>2. f[x - 1].tok # "semi"
        BY <1>11, <4>1 DEF Clear
      <4>3. x = 1 \/ f[x - 1].tok = "semi"
        BY DEF Begins
      <4> QED BY <4>1, <4>2, <4>3
    <3> QED BY <3>2, <3>3
  <2> QED BY <2>2, <2>3
<1>15. \A i \in 1..N : i \in ill <=> u[i] \in bad
  BY <1>10, <1>13
<1>16. \A x \in bad : \E i \in ill : u[i] = x
  BY <1>14, <1>15
<1>17. ill \in SUBSET (1..N) /\ ill \in SUBSET Nat /\ bad \in SUBSET Nat
  BY <1>1, <1>b, <1>8
<1> HIDE DEF open, bad, ill, u, N, B
<1>18. CASE ill # {}
  <2>1. PICK p \in ill : \A q \in ill : p <= q
    BY <1>17, <1>18, LeastMember
  <2>2. Min(ill) = p
    BY <1>17, <2>1, MinOk
  <2>3. p \in 1..N /\ u[p] \in bad
    BY <1>15, <1>17
  <2>4. ASSUME NEW x \in bad PROVE u[p] <= x
    <3>1. PICK q \in ill : u[q] = x
      BY <1>16
    <3>2. q \in 1..N /\ p <= q /\ p \in Nat /\ q \in Nat /\ u[p] \in Nat
      BY <1>17, <2>1, <2>3
    <3>3. p # q => p < q
      BY <3>2
    <3>4. p # q => u[p] < u[q]
      BY <1>9, <2>3, <3>2, <3>3
    <3>5. u[p] \in Nat /\ u[q] \in Nat
      BY <1>17, <2>3, <3>1
    <3> QED BY <3>1, <3>4, <3>5
  <2>5. Min(bad) = u[p]
    BY <1>17, <2>3, <2>4, MinOk
  <2>6. FirstTokens(content) = <<f[u[p]].line>>
    BY <1>5, <2>3, <2>5
  <2>7. parse(content) = Err(st.out[p].line) /\ st.out[p].line = f[u[p]].line
    BY <1>6, <1>10, <1>18, <2>2, <2>3
  <2> QED BY <2>6, <2>7 DEF Err
<1>19. CASE ill = {}
  <2>1. bad = {}
    BY <1>16, <1>19
  <2>2. CASE st.buf # <<>>
    <3>1. m < L
      <4>1. Len(st.buf) # 0
        BY <1>8, <2>2
      <4> QED BY <1>1, <1>7, <4>1
    <3>2. open = {m + 1} /\ m + 1 \in Nat
      BY <1>12, <3>1
    <3>3. Min(open) = m + 1
      BY <3>2, MinOk
    <3>4. FirstTokens(content) = <<f[m + 1].line>>
      BY <1>5, <2>1, <3>2, <3>3
    <3>5. parse(content) = Err(f[m + 1].line)
      BY <1>6, <1>7, <1>19, <2>2, <3>1
    <3> QED BY <3>4, <3>5 DEF Err
  <2>3. CASE st.buf = <<>>
    <3>1. m = L
      <4>1. Len(st.buf) = 0
        BY <2>3
      <4> QED BY <1>1, <1>7, <4>1
    <3>2. open = {}
      BY <1>1, <1>12, <3>1
    <3>3. InOrder(B, L) = u
      BY <1>2, <3>1 DEF Ordered, u
    <3>4. FirstTokens(content) = [k \in 1..N |-> f[u[k]].line]
      BY <1>5, <1>7, <2>1, <3>2, <3>3
    <3>5. parse(content) = Ok([k \in 1..N |-> st.out[k].line])
      BY <1>6, <1>19, <2>3 DEF N
    <3>6. [k \in 1..N |-> st.out[k].line] = [k \in 1..N |-> f[u[k]].line]
      BY <1>10
    <3> QED BY <3>4, <3>5, <3>6 DEF Ok
  <2> QED BY <2>2, <2>3
<1> QED BY <1>18, <1>19

(* The line a row or a parse error names is the line of its statement's    *)
(* first token, for scripts of any length and any mix of comments,         *)
(* terminators and line ends (start_line in parse).                        *)
THEOREM LinesAreStarts == Spec => []LineIsStart
<1> DEFINE Inv == LineIsStart /\ file \in Files
<1>1. Init => Inv
  BY DirectoryAssumption DEF Init, LineIsStart, Files
<1>2. Inv /\ [Next]_vars => Inv'
  <2> SUFFICES ASSUME Inv, [Next]_vars PROVE Inv'
    OBVIOUS
  <2> USE DEF LineIsStart
  <2>1. CASE Open
    <3>1. PICK content \in Directory[file] :
            /\ starts' = FirstTokens(content)
            /\ IF parse(content).ok THEN lines' = parse(content).v
                                    ELSE lines' = <<parse(content).err>>
      BY <2>1 DEF Open
    <3>2. content \in Seq(Seq(Token))
      BY DirectoryAssumption DEF Files
    <3>3. file' = file
      BY <2>1 DEF Open
    <3>4. lines' = starts'
      BY <3>1, <3>2, LinesMatch
    <3> QED BY <3>3, <3>4
  <2>2. CASE Unreadable
    BY <2>2 DEF Unreadable, history
  <2>3. ASSUME NEW s \in Statements, Execute(s) PROVE Inv'
    BY <2>3 DEF Execute
  <2>4. CASE Sleep
    BY <2>4 DEF Sleep
  <2>5. CASE Close
    <3>1. file' \in Files
      BY <2>5, DirectoryAssumption DEF Close, Files
    <3> QED BY <2>5, <3>1 DEF Close
  <2>6. CASE UNCHANGED vars
    BY <2>6 DEF vars, history
  <2> QED BY <2>1, <2>2, <2>3, <2>4, <2>5, <2>6 DEF Next
<1> QED BY <1>1, <1>2, PTL DEF Spec
=============================================================================

------------------------------- MODULE EcAcpi -------------------------------
(***************************************************************************)
(* The ACPI source: how it decodes what the ectest driver returns for a    *)
(* method evaluation, and the RTC calls of the Windows class driver source.*)
(* A driver buffer is a record: whether its signature and declared length  *)
(* are right, its argument count, its arguments, and extra, the bytes it   *)
(* has beyond (or, negative, short of) its arguments.  An argument is      *)
(* [type, len, low, high]: its type, data length and first two words.      *)
(***************************************************************************)
EXTENDS Integers, Sequences, TLC

CONSTANTS U32,          \* 2^32 in the code
          KnownBits     \* the flags BatteryState::from_bits knows

ASSUME AcpiAssumption == U32 \in Nat \ {0}

Ok(v) == [ok |-> TRUE, v |-> v]
Err(e) == [ok |-> FALSE, err |-> e]

AcpiInteger == 0
AcpiBuffer == 2

Word(v) == [type |-> AcpiInteger, len |-> 4, low |-> v, high |-> 0]
Bytes(n) == [type |-> AcpiBuffer, len |-> n, low |-> 0, high |-> 0]
Zeros == [type |-> AcpiInteger, len |-> 0, low |-> 0, high |-> 0]

\* ACPI_METHOD_ARGUMENT: a 4-byte header and at least a ULONG of data.
ArgSize(arg) == 4 + IF arg.len > 4 THEN arg.len ELSE 4

SizeOf(args) ==
  LET upto[i \in 0..Len(args)] == IF i = 0 THEN 0 ELSE upto[i - 1] + ArgSize(args[i])
  IN  upto[Len(args)]

\* The number of bytes returned.
Length(buf) == 12 + SizeOf(buf.args) + buf.extra

-----------------------------------------------------------------------------

\* TryFrom<Vec<u8>>: the arguments, each within the buffer, and nothing else.
AcpiEvalOutputBufferV1(buf) ==
  LET arg(i) == IF i <= Len(buf.args) THEN buf.args[i] ELSE Zeros
      offset[i \in 0..buf.count] == IF i = 0 THEN 12 ELSE offset[i - 1] + ArgSize(arg(i))
      overruns(i) == \/ offset[i - 1] + 8 > Length(buf)
                     \/ offset[i - 1] + 4 + arg(i).len > Length(buf)
  IN  IF Length(buf) < 12 THEN Err("InsufficientLength")
      ELSE IF ~buf.signature \/ ~buf.length THEN Err("InvalidFormat")
      ELSE IF \E i \in 1..buf.count : overruns(i) THEN Err("InsufficientLength")
      ELSE IF offset[buf.count] # Length(buf) THEN Err("InvalidFormat")
      ELSE Ok([i \in 1..buf.count |-> arg(i)])

\* evaluate: the driver's answer, Err when the IOCTL itself failed.
evaluate(answer) ==
  IF answer.ok THEN AcpiEvalOutputBufferV1(answer.v) ELSE Err("EvaluationFailed")

\* data_32: only integers have one.
data_32(arg) == IF arg.type = AcpiInteger THEN arg.low ELSE 0

\* MUTANT: the type of the result is not looked at
evaluate_u32_AnyType(out) ==
  IF ~out.ok THEN out
  ELSE IF Len(out.v) # 1 THEN Err("UnexpectedResponse")
  ELSE Ok(data_32(out.v[1]))

\* A single integer of four or eight bytes that fits.
evaluate_u32(out) ==
  IF ~out.ok THEN out
  ELSE IF Len(out.v) # 1 THEN Err("UnexpectedResponse")
  ELSE IF out.v[1].type # AcpiInteger THEN Err("UnexpectedArgumentType")
  ELSE CASE out.v[1].len = 4 -> Ok(data_32(out.v[1]))
         [] out.v[1].len = 8 -> IF out.v[1].high # 0 THEN Err("InvalidData") ELSE Ok(out.v[1].low)
         [] OTHER -> Err("UnexpectedResponse")

\* The _S.. and _CWS methods of the RTC: a status that must be zero.
rtc_status(status) == IF status.ok /\ status.v # 0 THEN Err("OperationFailed") ELSE status

\* TGVR: a status and a value, whatever their types.
acpi_get_var(out) ==
  IF ~out.ok THEN out
  ELSE IF Len(out.v) # 2 THEN Err("UnexpectedResponse")
  ELSE IF data_32(out.v[1]) # 0 THEN Err("OperationFailed")
  ELSE Ok(data_32(out.v[2]))

\* TSVR: a status, whatever its type.
acpi_set_var(out) ==
  IF ~out.ok THEN out
  ELSE IF Len(out.v) # 1 THEN Err("UnexpectedResponse")
  ELSE IF data_32(out.v[1]) # 0 THEN Err("OperationFailed")
  ELSE Ok(0)

\* value as u32, of a number in hundredths.
as_u32(n) == IF n <= 0 THEN 0 ELSE IF n \div 100 >= U32 THEN U32 - 1 ELSE n \div 100

\* Temperatures are hundredths of a degree, as all numbers of a script.
dk_to_c(dk) == dk * 10 - 27315

\* MUTANT: c_to_dk cuts off instead of rounding
c_to_dk_Truncates(c) ==
  LET dk == (c + 27315) \div 10
  IN  IF c + 27315 <= 0 THEN 0 ELSE IF dk >= U32 THEN U32 - 1 ELSE dk

\* To the nearest deciKelvin (halves up), within the u32 range.
c_to_dk(c) ==
  LET dk == (c + 27315 + 5) \div 10
  IN  IF c + 27315 <= 0 THEN 0 ELSE IF dk >= U32 THEN U32 - 1 ELSE dk

get_temperature(out) ==
  IF ~out.ok THEN out
  ELSE IF Len(out.v) # 1 THEN Err("UnexpectedResponse")
  ELSE Ok(dk_to_c(data_32(out.v[1])))

get_threshold(var) == IF var.ok THEN Ok(dk_to_c(var.v)) ELSE var

\* Four words, the first a set of known flags.
get_bst(out) ==
  IF ~out.ok THEN out
  ELSE IF Len(out.v) # 4 THEN Err("UnexpectedResponse")
  ELSE IF data_32(out.v[1]) \notin KnownBits THEN Err("InvalidData")
  ELSE Ok([battery_state |-> data_32(out.v[1]), battery_present_rate |-> data_32(out.v[2]),
           battery_remaining_capacity |-> data_32(out.v[3]),
           battery_present_voltage |-> data_32(out.v[4])])

\* 21 arguments, of which three words are enumerations and four are strings
\* of a fixed length; the model keeps two of the numbers.
BixEnums == (2 :> 0..1) @@ (5 :> 0..1) @@ (21 :> 0..2)
BixStrings == 17..20
BixStringLen == 8
get_bix(out) ==
  IF ~out.ok THEN out
  ELSE IF Len(out.v) # 21 THEN Err("UnexpectedResponse")
  ELSE IF \/ \E i \in DOMAIN BixEnums : data_32(out.v[i]) \notin BixEnums[i]
          \/ \E i \in BixStrings : out.v[i].len # BixStringLen
       THEN Err("InvalidData")
  ELSE Ok([design_capacity |-> data_32(out.v[3]), cycle_count |-> data_32(out.v[9])])

\* TBTP returns nothing: anything that decodes will do.
set_btp(out) == IF out.ok THEN Ok(0) ELSE out

\* A single buffer that decodes as a timestamp.
get_real_time(out) ==
  IF ~out.ok THEN out
  ELSE IF Len(out.v) # 1 \/ out.v[1].type # AcpiBuffer THEN Err("UnexpectedResponse")
  ELSE IF out.v[1].len # 16 THEN Err("InvalidData")
  ELSE Ok(out.v[1].low)

-----------------------------------------------------------------------------

\* WindowsDevice::ioctl: the driver must fill the output exactly.
ioctl(answer, expected) ==
  IF ~answer.ok THEN Err("Io")
  ELSE IF answer.v.bytes_returned # expected THEN Err("InvalidData")
  ELSE Ok(answer.v.value)

=============================================================================

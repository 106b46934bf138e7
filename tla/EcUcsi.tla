------------------------------- MODULE EcUcsi -------------------------------
(***************************************************************************)
(* The UCSI snapshot of the ACPI source: three commands written to one     *)
(* mailbox, each answer checked and decoded before the next is sent.  An   *)
(* answer is what evaluating USND returns: whether it returned a single    *)
(* buffer, its length, the FF-A status, and the mailbox in it, whose       *)
(* payload is the command it answers.                                      *)
(***************************************************************************)
EXTENDS Integers

MAILBOX_LEN == 48
FFA_ENVELOPE_LEN == 144
UCSI_VERSION_1_2 == 288

\* The commands of a snapshot, in order, and the size of their responses.
Commands == <<"GetCapability", "GetConnectorCapability", "GetConnectorStatus">>
RESPONSE_DATA_LEN(command) ==
  CASE command = "GetCapability" -> 16
    [] command = "GetConnectorCapability" -> 2
    [] command = "GetConnectorStatus" -> 11

\* control: the opcode, and the connector for the connector commands.
control(command, connector) == [opcode |-> command, connector |-> connector]

Value(v) == [ok |-> TRUE, v |-> v]
MailboxError(e) == [ok |-> FALSE, v |-> e]

normalize_acpi_response(answer) ==
  CASE answer.len = MAILBOX_LEN -> Value(answer.mailbox)
    [] answer.len = FFA_ENVELOPE_LEN -> IF answer.ffa # 0 THEN MailboxError("FfaStatus")
                                                          ELSE Value(answer.mailbox)
    [] OTHER -> MailboxError("WrongLength")

\* An error or a refusal counts even without the completion bit.
validate(mailbox) ==
  IF "error" \in mailbox.cci THEN MailboxError("CommandError")
  ELSE IF "not_supported" \in mailbox.cci THEN MailboxError("NotSupported")
  ELSE IF "cmd_complete" \notin mailbox.cci THEN MailboxError("NotComplete")
  ELSE Value(mailbox.version)

\* MUTANT: the length of the data is not compared
message_in_AnyLength(mailbox, expected) ==
  LET version == validate(mailbox)
  IN  IF ~version.ok THEN version
      ELSE IF version.v # UCSI_VERSION_1_2 THEN MailboxError("UnsupportedVersion")
      ELSE Value(mailbox.payload)

message_in(mailbox, expected) ==
  LET version == validate(mailbox)
  IN  IF ~version.ok THEN version
      ELSE IF version.v # UCSI_VERSION_1_2 THEN MailboxError("UnsupportedVersion")
      ELSE IF mailbox.data_len # expected THEN MailboxError("UnexpectedDataLen")
      ELSE Value(mailbox.payload)

\* decode_capability and decode_connector_status can fail on the payload, a
\* connector capability is any 16 bits.
decode(mailbox, command) ==
  LET payload == message_in(mailbox, RESPONSE_DATA_LEN(command))
  IN  IF payload.ok /\ payload.v = "Malformed" /\ command # "GetConnectorCapability"
      THEN MailboxError("PayloadDecode") ELSE payload

\* ucsi_command: one evaluation that returns one buffer.
ucsi_command(answer) ==
  IF ~answer.single_buffer THEN MailboxError("UnexpectedResponse")
  ELSE normalize_acpi_response(answer)

\* get_snapshot: the first failure ends it.  The version is read from the
\* capability mailbox, whose decoding checks all that decode_version does.
get_snapshot_ucsi(answers) ==
  LET part(i) == LET mailbox == ucsi_command(answers[i])
                 IN  IF mailbox.ok THEN decode(mailbox.v, Commands[i]) ELSE mailbox
  IN  IF \A i \in 1..3 : part(i).ok THEN Value([i \in 1..3 |-> part(i).v])
      ELSE part(CHOOSE i \in 1..3 : ~part(i).ok /\ \A j \in 1..(i - 1) : part(j).ok)

-----------------------------------------------------------------------------
(* The firmware, external.                                                 *)

\* A mailbox that answers a command (or is still what an earlier one left).
Completed(command) ==
  [version |-> UCSI_VERSION_1_2, cci |-> {"cmd_complete"},
   data_len |-> RESPONSE_DATA_LEN(command), payload |-> command]

Delivered(mailbox, len) ==
  [single_buffer |-> TRUE, len |-> len, ffa |-> 0, mailbox |-> mailbox]

Good(command) == Delivered(Completed(command), MAILBOX_LEN)

\* What can come back instead, when the mailbox last answered left.
Faulty(command, left) ==
  LET good == Good(command)
      cci(bits) == [good EXCEPT !.mailbox.cci = bits]
  IN  {[good EXCEPT !.single_buffer = FALSE], [good EXCEPT !.len = 8],
       [good EXCEPT !.len = FFA_ENVELOPE_LEN],
       [good EXCEPT !.len = FFA_ENVELOPE_LEN, !.ffa = 1],
       cci({"error"}), cci({"not_supported", "cmd_complete"}), cci({}),
       [good EXCEPT !.mailbox.version = 512]}
      \cup (IF command = "GetConnectorCapability" THEN {}
            ELSE {[good EXCEPT !.mailbox.payload = "Malformed"]})
      \cup (IF left = "none" THEN {} ELSE {Good(left)})

\* The answers of one snapshot: at most one command goes wrong.
Answers(left) ==
  {[i \in 1..3 |-> Good(Commands[i])]} \cup
  UNION {{[[i \in 1..3 |-> Good(Commands[i])] EXCEPT ![k] = f] :
            f \in Faulty(Commands[k], IF k = 1 THEN left ELSE Commands[k - 1])} : k \in 1..3}

\* The command the mailbox answers once the snapshot has ended.
Left(answers, left) ==
  LET last == IF get_snapshot_ucsi(answers).ok THEN 3
              ELSE CHOOSE k \in 1..3 : answers[k] # Good(Commands[k])
      stale == last = 1 /\ left # "none" /\ answers[1] = Good(left)
  IN  IF stale THEN left
      ELSE IF last > 1 /\ answers[last] = Good(Commands[last - 1]) THEN Commands[last - 1]
      ELSE Commands[last]
=============================================================================

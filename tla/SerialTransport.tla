-------------------------- MODULE SerialTransport --------------------------
(***************************************************************************)
(* The request/response exchange of the serial EC source                   *)
(* (ec/test-lib/src/serial.rs, Serial::send and the calls built on it).    *)
(*                                                                         *)
(* The clones of a Serial share one port behind a mutex.  A call clears    *)
(* the input, writes its request and reads framed packets until a message  *)
(* is complete or a read times out.  Nothing in a request is repeated in   *)
(* its reply but the service and the message id, so what matters is which  *)
(* bytes are still under way when a call starts.                           *)
(*                                                                         *)
(* The EC is external: it serves requests in order and answers each with a *)
(* reply of one or two packets, an error, or not at all, at any time.      *)
(***************************************************************************)
EXTENDS Integers, Sequences

CONSTANTS
  Thread,            \* threads holding a clone of the Serial
  Request,           \* the requests they make
  Service, Variant,  \* of a request: its Destination, its response variant
  MaxCalls,          \* bound: calls made in all
  None

CallId == 1 .. MaxCalls

ASSUME TransportAssumption ==
  /\ Request \subseteq DOMAIN Service /\ Request \subseteq DOMAIN Variant
  /\ MaxCalls \in Nat
  /\ None \notin Thread /\ None \notin Request /\ None \notin CallId

\* One DSP0253 frame: a packet of the message that answers `call`.
Frame == [kind : {"reply", "error", "fragment"}, som : BOOLEAN, eom : BOOLEAN,
          req : Request, call : CallId \cup {None}]

VARIABLES
  pc,        \* where each thread is in a call
  arg,       \* the request of the call it is in
  call,      \* the number of its last call
  made,      \* calls made in all
  result,    \* what its last call returned, and whose reply that was
  port,      \* the mutex: the thread in the exchange
  assembling, \* rx_ctx holds the first packet of a message
  toEc,      \* requests on the line or in the EC's queue
  inFlight,  \* frames the EC has sent that have not arrived
  input,     \* frames in the host's receive buffer
  clean      \* history: nothing was under way when this exchange began

vars == <<pc, arg, call, made, result, port, assembling, toEc, inFlight, input,
          clean>>
lineVars == <<toEc, inFlight, input>>

\* Requests have a fixed size that serializes; replies are well formed.
Status == {"Ok", "Io", "Protocol", "UnexpectedResponse"}

\* A result that is Ok was decoded from the reply to some call.
Result == [status : Status \ {"Ok"}, call : {None}]
            \cup [status : {"Ok"}, call : CallId]

TypeOK ==
  /\ pc \in [Thread -> {"idle", "lock", "clear", "write", "read"}]
  /\ arg \in [Thread -> Request \cup {None}]
  /\ call \in [Thread -> 0 .. MaxCalls] /\ made \in 0 .. MaxCalls
  /\ result \in [Thread -> {None} \cup Result]
  /\ port \in Thread \cup {None}
  /\ assembling \in BOOLEAN
  /\ toEc \in Seq([req : Request, call : CallId])
  /\ inFlight \in Seq(Frame) /\ input \in Seq(Frame)
  /\ clean \in BOOLEAN

Init ==
  /\ pc = [t \in Thread |-> "idle"]
  /\ arg = [t \in Thread |-> None]
  /\ call = [t \in Thread |-> 0] /\ made = 0
  /\ result = [t \in Thread |-> None]
  /\ port = None
  /\ assembling = FALSE
  /\ toEc = <<>> /\ inFlight = <<>> /\ input = <<>>
  /\ clean = TRUE

Goto(t, l) == pc' = [pc EXCEPT ![t] = l]

\* The end of a call: the guard is dropped on every path.
Return(t, status, answered) ==
  /\ Goto(t, "idle")
  /\ arg' = [arg EXCEPT ![t] = None]
  /\ result' = [result EXCEPT ![t] = [status |-> status, call |-> answered]]
  /\ port' = None
  /\ assembling' = FALSE

-----------------------------------------------------------------------------
\* A public method is called and builds its request.
Call(t) ==
  /\ pc[t] = "idle" /\ made < MaxCalls
  /\ Goto(t, "lock")
  /\ \E r \in Request : arg' = [arg EXCEPT ![t] = r]
  /\ made' = made + 1
  /\ call' = [call EXCEPT ![t] = made + 1]
  /\ result' = [result EXCEPT ![t] = None]
  /\ UNCHANGED <<port, assembling, lineVars, clean>>

Lock(t) ==
  /\ pc[t] = "lock" /\ port = None
  /\ port' = t
  /\ Goto(t, "clear")
  /\ UNCHANGED <<arg, call, made, result, assembling, lineVars, clean>>

\* What is left of the frame under way once the clear took its first bytes.
Fragment(f) == [f EXCEPT !.kind = "fragment", !.call = None]

KeepInput == UNCHANGED <<input, inFlight>>
(* port.clear: what has arrived is gone, perhaps half of a frame.  What    *)
(* has not arrived is out of its reach.                                    *)
ClearInput ==
  /\ input' = <<>>
  /\ inFlight' \in {inFlight} \cup
       IF inFlight = <<>> THEN {}
       ELSE {<<Fragment(Head(inFlight))>> \o Tail(inFlight)}

Clear(t) ==
  /\ pc[t] = "clear"
  /\ \/ /\ ClearInput
        /\ Goto(t, "write")
        /\ clean' = (toEc = <<>> /\ inFlight = <<>>)
        /\ UNCHANGED <<arg, result, port, assembling>>
     \/ /\ Return(t, "Io", None)
        /\ UNCHANGED <<input, inFlight, clean>>
  /\ UNCHANGED <<call, made, toEc>>

(* write_all and flush.  A request whose write failed may have gone out.   *)
Write(t) ==
  /\ pc[t] = "write"
  /\ LET sent == Append(toEc, [req |-> arg[t], call |-> call[t]])
     IN  \/ /\ toEc' = sent
            /\ Goto(t, "read")
            /\ UNCHANGED <<arg, result, port, assembling>>
         \/ /\ toEc' \in {toEc, sent}
            /\ Return(t, "Io", None)
  /\ UNCHANGED <<call, made, inFlight, input, clean>>

-----------------------------------------------------------------------------
WellFramedUnchecked(f) == TRUE
(* read_framed_packet and deserialize_packet accept a frame: it is whole,  *)
(* and a message starts with its first packet.                             *)
WellFramed(f) == f.kind # "fragment" /\ (f.som <=> ~assembling)

\* The reply comes from the addressed service.
FromService(t, f) == Service[f.req] = Service[arg[t]]

\* RESP::deserialize decodes by the reply's message id; the caller matches.
Expected(t, f) == Variant[f.req] = Variant[arg[t]]

ReadPacket(t) ==
  /\ pc[t] = "read" /\ input # <<>>
  /\ input' = Tail(input)
  /\ LET f == Head(input)
     IN  \/ /\ ~WellFramed(f)
            /\ Return(t, "Protocol", None)
         \/ /\ WellFramed(f) /\ ~f.eom
            /\ assembling' = TRUE
            /\ UNCHANGED <<pc, arg, result, port>>
         \/ /\ WellFramed(f) /\ f.eom
            /\ \/ ~FromService(t, f) /\ Return(t, "UnexpectedResponse", None)
               \/ /\ FromService(t, f) /\ f.kind = "error"
                  /\ Return(t, "Protocol", None)
               \/ /\ FromService(t, f) /\ f.kind # "error"
                  /\ \/ Expected(t, f) /\ Return(t, "Ok", f.call)
                     \/ /\ ~Expected(t, f)
                        /\ Return(t, "UnexpectedResponse", None)
  /\ UNCHANGED <<call, made, toEc, inFlight, clean>>

TimeoutWaitsOn(t) ==
  /\ pc[t] = "read"
  /\ UNCHANGED vars
\* No byte within READ_TIMEOUT, or the port fails.
Timeout(t) ==
  /\ pc[t] = "read"
  /\ Return(t, "Io", None)
  /\ UNCHANGED <<call, made, lineVars, clean>>

-----------------------------------------------------------------------------
\* The frames that answer a request, in n packets.
Packets(kind, m, n) ==
  [i \in 1 .. n |-> [kind |-> kind, som |-> i = 1, eom |-> i = n,
                     req |-> m.req, call |-> m.call]]

EcServes ==
  /\ toEc # <<>>
  /\ toEc' = Tail(toEc)
  /\ \E answer \in {<<>>, Packets("error", Head(toEc), 1),
                    Packets("reply", Head(toEc), 1),
                    Packets("reply", Head(toEc), 2)} :
       inFlight' = inFlight \o answer
  /\ UNCHANGED <<pc, arg, call, made, result, port, assembling, input, clean>>

Arrive ==
  /\ inFlight # <<>>
  /\ input' = Append(input, Head(inFlight))
  /\ inFlight' = Tail(inFlight)
  /\ UNCHANGED <<pc, arg, call, made, result, port, assembling, toEc, clean>>

CallStep(t) ==
  Lock(t) \/ Clear(t) \/ Write(t) \/ ReadPacket(t) \/ Timeout(t)

Next ==
  \/ \E t \in Thread : Call(t) \/ CallStep(t)
  \/ EcServes \/ Arrive

Spec == Init /\ [][Next]_vars

\* A thread in a call keeps running.  Nothing is assumed of the EC.
FairSpec == Spec /\ \A t \in Thread : WF_vars(CallStep(t))

-----------------------------------------------------------------------------
(* A call that began with nothing under way is answered, if at all, with   *)
(* the reply to its own request: neither bytes an earlier call left in the *)
(* buffer nor another thread's exchange can stand in for it.               *)
OwnReply(t) ==
  result[t] # None /\ result[t].status = "Ok" => result[t].call = call[t]

CleanStep ==
  \A t \in Thread :
    clean /\ pc[t] = "read" /\ pc'[t] = "idle" => OwnReply(t)'

CleanStartAnswersOwn == [][CleanStep]_vars

(* The same of every call: the comments on send promise that stale bytes   *)
(* are cleared and that a reply of a desynced stream is told apart.        *)
AnswersOwnRequest == \A t \in Thread : OwnReply(t)

(* Every call returns, whatever the EC does and however the threads        *)
(* contend for the port: no path keeps the mutex, and no read waits for    *)
(* ever.                                                                   *)
CallsReturn == \A t \in Thread : pc[t] # "idle" ~> pc[t] = "idle"
=============================================================================

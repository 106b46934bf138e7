----------------------- MODULE SerialTransportProofs ------------------------
(***************************************************************************)
(* What an exchange over the shared serial port guarantees, for any number *)
(* of threads and calls and whatever the EC answers and when.              *)
(***************************************************************************)
EXTENDS SerialTransport, SequenceTheorems, TLAPS

\* A thread past the lock, whose guard is not dropped yet.
InExchange(t) == pc[t] \in {"clear", "write", "read"}

\* The mutex: the port is held by exactly the thread in the exchange.
MutexInv == \A t \in Thread : InExchange(t) <=> port = t

\* A thread in a call has a request and a number for it.
CallInv ==
  \A t \in Thread : pc[t] # "idle" => arg[t] \in Request /\ call[t] \in CallId

\* A frame that is whole says which call it answers.
Whole(q) == \A i \in 1 .. Len(q) : q[i].kind # "fragment" => q[i].call \in CallId

\* Everything in a queue belongs to call c.
Only(q, c) == \A i \in 1 .. Len(q) : q[i].call = c

(* An exchange that began clean finds the line empty when it writes; while *)
(* it reads, only its own request and the answer to it are under way.      *)
CleanInv ==
  \A t \in Thread :
    clean =>
      /\ pc[t] = "write" => toEc = <<>> /\ inFlight = <<>> /\ input = <<>>
      /\ pc[t] = "read" => /\ Only(toEc, call[t]) /\ Only(inFlight, call[t])
                           /\ Only(input, call[t])

SerialInv ==
  /\ TypeOK /\ MutexInv /\ CallInv
  /\ Whole(inFlight) /\ Whole(input)
  /\ CleanInv

-----------------------------------------------------------------------------
(* What the queues keep when a frame is added, taken or moved.             *)
LEMMA AppendKeeps ==
  ASSUME NEW S, NEW q \in Seq(S), NEW e \in S, NEW c
  PROVE  /\ Append(q, e) \in Seq(S)
         /\ Whole(q) /\ (e.kind # "fragment" => e.call \in CallId) =>
              Whole(Append(q, e))
         /\ Only(q, c) /\ e.call = c => Only(Append(q, e), c)
<1>1. /\ Append(q, e) \in Seq(S) /\ Len(Append(q, e)) = Len(q) + 1
      /\ Len(q) \in Nat /\ Append(q, e)[Len(q) + 1] = e
      /\ \A i \in 1 .. Len(q) : Append(q, e)[i] = q[i]
  BY AppendProperties
<1> QED
  BY <1>1 DEF Whole, Only

(* Reading the first frame of a line: what it is, and that the rest of     *)
(* the line keeps what is known of it.                                     *)
LEMMA TailKeeps ==
  ASSUME NEW S, NEW q \in Seq(S), q # <<>>, NEW c
  PROVE  /\ Head(q) \in S /\ Tail(q) \in Seq(S)
         /\ Whole(q) => /\ Whole(Tail(q))
                        /\ Head(q).kind # "fragment" => Head(q).call \in CallId
         /\ Only(q, c) => Only(Tail(q), c) /\ Head(q).call = c
<1>1. /\ Head(q) \in S /\ Tail(q) \in Seq(S) /\ Len(Tail(q)) = Len(q) - 1
      /\ \A i \in 1 .. Len(Tail(q)) : Tail(q)[i] = q[i + 1]
      /\ Len(q) \in Nat \ {0} /\ Head(q) = q[1]
  BY HeadTailProperties
<1>2. \A i \in 1 .. Len(Tail(q)) : i + 1 \in 1 .. Len(q)
  BY <1>1
<1>3. 1 \in 1 .. Len(q)
  BY <1>1
<1> QED
  BY <1>1, <1>2, <1>3 DEF Whole, Only

(* Frames that arrive behind others: a line made of two keeps what is      *)
(* known of both.                                                          *)
LEMMA ConcatKeeps ==
  ASSUME NEW S, NEW q \in Seq(S), NEW r \in Seq(S), NEW c
  PROVE  /\ q \o r \in Seq(S)
         /\ Whole(q) /\ Whole(r) => Whole(q \o r)
         /\ Only(q, c) /\ Only(r, c) => Only(q \o r, c)
<1>1. /\ q \o r \in Seq(S) /\ Len(q \o r) = Len(q) + Len(r)
      /\ Len(q) \in Nat /\ Len(r) \in Nat
      /\ \A i \in 1 .. Len(q) + Len(r) :
           (q \o r)[i] = IF i <= Len(q) THEN q[i] ELSE r[i - Len(q)]
  BY ConcatProperties
<1>2. ASSUME NEW i \in 1 .. Len(q \o r)
      PROVE  \/ i \in 1 .. Len(q) /\ (q \o r)[i] = q[i]
             \/ i - Len(q) \in 1 .. Len(r) /\ (q \o r)[i] = r[i - Len(q)]
  BY <1>1
<1> QED
  BY <1>1, <1>2 DEF Whole, Only

(* The packets of an answer are frames of that answer.                     *)
LEMMA PacketsType ==
  ASSUME NEW m \in [req : Request, call : CallId],
         NEW kind \in {"reply", "error"}, NEW n \in {1, 2}
  PROVE  /\ Packets(kind, m, n) \in Seq(Frame)
         /\ Whole(Packets(kind, m, n))
         /\ Only(Packets(kind, m, n), m.call)
<1> DEFINE f(i) == [kind |-> kind, som |-> i = 1, eom |-> i = n,
                    req |-> m.req, call |-> m.call]
<1>1. \A i \in 1 .. n : f(i) \in Frame
  BY DEF Frame
<1>2. \A i \in 1 .. n : f(i).call = m.call /\ m.call \in CallId
  OBVIOUS
<1>3. n \in Nat
  OBVIOUS
<1>4. Packets(kind, m, n) = [i \in 1 .. n |-> f(i)]
  BY DEF Packets
<1> HIDE DEF f
<1>5. /\ Packets(kind, m, n) \in Seq(Frame)
      /\ Len(Packets(kind, m, n)) = n
      /\ \A i \in 1 .. n : Packets(kind, m, n)[i] = f(i)
  BY <1>1, <1>3, <1>4, IsASeq
<1> QED
  BY <1>2, <1>5 DEF Whole, Only

(* Half a frame is a frame that answers nothing.                           *)
LEMMA FragmentType ==
  ASSUME NEW q \in Seq(Frame), q # <<>>
  PROVE  /\ <<Fragment(Head(q))>> \o Tail(q) \in Seq(Frame)
         /\ Whole(q) => Whole(<<Fragment(Head(q))>> \o Tail(q))
<1>1. Head(q) \in Frame /\ Tail(q) \in Seq(Frame) /\ (Whole(q) => Whole(Tail(q)))
  BY TailKeeps
<1>2. Fragment(Head(q)) \in Frame /\ Fragment(Head(q)).kind = "fragment"
  BY <1>1 DEF Fragment, Frame
<1>3. <<Fragment(Head(q))>> \in Seq(Frame) /\ Whole(<<Fragment(Head(q))>>)
  BY <1>2 DEF Whole
<1> QED
  BY <1>1, <1>3, ConcatKeeps
-----------------------------------------------------------------------------
\* An idle machine.
LEMMA InitSerialInv == Init => SerialInv
<1> SUFFICES ASSUME Init
             PROVE  SerialInv
  OBVIOUS
<1>1. TypeOK
  <2>1. 0 \in 0 .. MaxCalls
    BY TransportAssumption
  <2>2. /\ toEc \in Seq([req : Request, call : CallId])
        /\ inFlight \in Seq(Frame) /\ input \in Seq(Frame)
    BY EmptySeq DEF Init
  <2>3. assembling \in BOOLEAN /\ clean \in BOOLEAN
    BY DEF Init
  <2> QED
    BY <2>1, <2>2, <2>3 DEF Init, TypeOK
<1>2. MutexInv
  BY TransportAssumption DEF Init, MutexInv, InExchange
<1>3. CallInv /\ CleanInv
  BY DEF Init, CallInv, CleanInv
<1>4. Whole(inFlight) /\ Whole(input)
  BY DEF Init, Whole
<1> QED
  BY <1>1, <1>2, <1>3, <1>4 DEF SerialInv

(* The end of a call: the port is free and the thread has no request.      *)
LEMMA ReturnKeeps ==
  ASSUME SerialInv, NEW t \in Thread, InExchange(t),
         NEW status \in Status, NEW answered \in CallId \cup {None},
         status = "Ok" <=> answered # None,
         Return(t, status, answered), UNCHANGED <<call, made>>,
         toEc' \in Seq([req : Request, call : CallId]),
         inFlight' \in Seq(Frame), input' \in Seq(Frame), clean' = clean,
         Whole(inFlight)', Whole(input)'
  PROVE  SerialInv'
<1> USE DEF SerialInv, TypeOK, Return, Goto
<1>1. /\ pc' = [pc EXCEPT ![t] = "idle"] /\ pc'[t] = "idle"
      /\ \A u \in Thread : u # t => pc'[u] = pc[u]
  OBVIOUS
<1>2. port = t /\ \A u \in Thread : u # t => ~InExchange(u)
  BY DEF MutexInv
<1>3. TypeOK'
  <2>1. [status |-> status, call |-> answered] \in Result
    BY DEF Result
  <2> QED
    BY <2>1
<1>4. MutexInv'
  BY <1>1, <1>2, TransportAssumption DEF MutexInv, InExchange
<1>5. CallInv'
  BY <1>1 DEF CallInv
<1>6. CleanInv'
  BY <1>1, <1>2 DEF CleanInv, InExchange
<1> QED
  BY <1>3, <1>4, <1>5, <1>6
(* Making a call and taking the mutex leave the line alone.                *)
LEMMA EnterKeepsInv ==
  ASSUME SerialInv, NEW t \in Thread, Call(t) \/ Lock(t)
  PROVE  SerialInv'
<1> USE DEF SerialInv, Goto, lineVars
<1>1. CASE Call(t)
  <2>1. /\ pc[t] = "idle" /\ pc' = [pc EXCEPT ![t] = "lock"]
        /\ call' = [call EXCEPT ![t] = made + 1] /\ made' = made + 1
        /\ made + 1 \in CallId /\ made' \in 0 .. MaxCalls
        /\ UNCHANGED <<port, assembling, toEc, inFlight, input, clean>>
    BY <1>1, TransportAssumption DEF Call, TypeOK, CallId
  <2>2. PICK r \in Request : arg' = [arg EXCEPT ![t] = r]
    BY <1>1 DEF Call
  <2>3. result' = [result EXCEPT ![t] = None]
    BY <1>1 DEF Call
  <2>4. TypeOK'
    <3>1. /\ pc' \in [Thread -> {"idle", "lock", "clear", "write", "read"}]
          /\ arg' \in [Thread -> Request \cup {None}]
      BY <2>1, <2>2 DEF TypeOK
    <3>2. call' \in [Thread -> 0 .. MaxCalls]
      BY <2>1 DEF TypeOK
    <3>3. result' \in [Thread -> {None} \cup Result]
      BY <2>3 DEF TypeOK
    <3> QED
      BY <2>1, <3>1, <3>2, <3>3 DEF TypeOK
  <2>5. MutexInv'
    BY <2>1 DEF MutexInv, InExchange, TypeOK
  <2>6. CallInv'
    BY <2>1, <2>2 DEF CallInv, TypeOK
  <2>7. CleanInv'
    BY <2>1 DEF CleanInv, TypeOK
  <2> QED
    BY <2>1, <2>4, <2>5, <2>6, <2>7
<1>2. CASE Lock(t)
  <2>1. /\ pc[t] = "lock" /\ pc' = [pc EXCEPT ![t] = "clear"]
        /\ port = None /\ port' = t
        /\ UNCHANGED <<arg, call, made, result, assembling, toEc, inFlight,
                       input, clean>>
    BY <1>2 DEF Lock
  <2>2. TypeOK'
    BY <2>1 DEF TypeOK
  <2>3. MutexInv'
    BY <2>1, TransportAssumption DEF MutexInv, InExchange, TypeOK
  <2>4. CallInv' /\ CleanInv'
    BY <2>1 DEF CallInv, CleanInv, TypeOK
  <2> QED
    BY <2>1, <2>2, <2>3, <2>4
<1> QED
  BY <1>1, <1>2

(* port.clear empties the buffer; with nothing else under way the line is  *)
(* clean, and stays so until the request is written.                       *)
LEMMA ClearKeepsInv ==
  ASSUME SerialInv, NEW t \in Thread, Clear(t)
  PROVE  SerialInv'
<1> USE DEF SerialInv
<1>1. pc[t] = "clear" /\ InExchange(t) /\ UNCHANGED <<call, made, toEc>>
  BY DEF Clear, InExchange
<1>2. CASE Return(t, "Io", None) /\ UNCHANGED <<input, inFlight, clean>>
  BY <1>1, <1>2, ReturnKeeps, TransportAssumption DEF TypeOK, Status
<1>3. CASE /\ ClearInput /\ Goto(t, "write")
           /\ clean' = (toEc = <<>> /\ inFlight = <<>>)
           /\ UNCHANGED <<arg, result, port, assembling>>
  <2>1. input' = <<>> /\ input' \in Seq(Frame) /\ Whole(input')
    BY <1>3, EmptySeq DEF ClearInput, Whole
  <2>2. inFlight' \in Seq(Frame) /\ Whole(inFlight')
    BY <1>3, FragmentType DEF ClearInput, TypeOK
  <2>3. inFlight = <<>> => inFlight' = <<>>
    BY <1>3 DEF ClearInput
  <2>4. clean' \in BOOLEAN /\ (clean' => toEc' = <<>> /\ inFlight' = <<>>)
    BY <1>1, <1>3, <2>3
  <2>5. pc' = [pc EXCEPT ![t] = "write"]
    BY <1>3 DEF Goto
  <2>6. TypeOK'
    BY <1>1, <1>3, <2>1, <2>2, <2>4, <2>5 DEF TypeOK
  <2>7. MutexInv' /\ CallInv'
    BY <1>1, <1>3, <2>5 DEF MutexInv, CallInv, InExchange, TypeOK
  <2>8. \A u \in Thread : u # t => pc'[u] \notin {"write", "read"}
    BY <1>1, <2>5 DEF MutexInv, InExchange, TypeOK
  <2>9. CleanInv'
    BY <1>1, <2>1, <2>4, <2>5, <2>8 DEF CleanInv, TypeOK
  <2> QED
    BY <2>1, <2>2, <2>6, <2>7, <2>9
<1> QED
  BY <1>2, <1>3 DEF Clear

(* The request carries the number of the call.                             *)
LEMMA WriteKeepsInv ==
  ASSUME SerialInv, NEW t \in Thread, Write(t)
  PROVE  SerialInv'
<1> USE DEF SerialInv
<1> DEFINE m == [req |-> arg[t], call |-> call[t]]
           sent == Append(toEc, m)
<1>1. /\ pc[t] = "write" /\ InExchange(t)
      /\ UNCHANGED <<call, made, inFlight, input, clean>>
  BY DEF Write, InExchange
<1>2. m \in [req : Request, call : CallId] /\ m.call = call[t]
  BY <1>1 DEF CallInv
<1>3. /\ sent \in Seq([req : Request, call : CallId])
      /\ Only(toEc, call[t]) => Only(sent, call[t])
  <2> HIDE DEF m
  <2> QED
    BY <1>2, AppendKeeps DEF TypeOK
<1> HIDE DEF m, sent
<1>4. CASE toEc' \in {toEc, sent} /\ Return(t, "Io", None)
  BY <1>1, <1>3, <1>4, ReturnKeeps, TransportAssumption DEF TypeOK, Status
<1>5. CASE /\ toEc' = sent /\ Goto(t, "read")
           /\ UNCHANGED <<arg, result, port, assembling>>
  <2>1. pc' = [pc EXCEPT ![t] = "read"]
    BY <1>5 DEF Goto
  <2>2. TypeOK'
    BY <1>1, <1>3, <1>5, <2>1 DEF TypeOK
  <2>3. MutexInv' /\ CallInv'
    BY <1>1, <1>5, <2>1 DEF MutexInv, CallInv, InExchange, TypeOK
  <2>4. \A u \in Thread : u # t => pc'[u] \notin {"write", "read"}
    BY <1>1, <2>1 DEF MutexInv, InExchange, TypeOK
  <2>5. clean => Only(toEc', call[t]) /\ Only(inFlight, call[t]) /\ Only(input, call[t])
    <3>1. clean => toEc = <<>> /\ inFlight = <<>> /\ input = <<>>
      BY <1>1 DEF CleanInv
    <3>2. Only(<<>>, call[t])
      BY DEF Only
    <3> QED
      BY <1>3, <1>5, <3>1, <3>2
  <2>6. CleanInv'
    <3> SUFFICES ASSUME NEW u \in Thread, clean'
                 PROVE  /\ pc'[u] = "write" => toEc' = <<>> /\ inFlight' = <<>> /\ input' = <<>>
                        /\ pc'[u] = "read" => /\ Only(toEc', call'[u])
                                              /\ Only(inFlight', call'[u])
                                              /\ Only(input', call'[u])
      BY DEF CleanInv, Only
    <3>1. CASE u = t
      BY <1>1, <2>1, <2>5, <3>1 DEF TypeOK
    <3>2. CASE u # t
      BY <2>4, <3>2
    <3> QED
      BY <3>1, <3>2
  <2> QED
    BY <1>1, <2>2, <2>3, <2>6
<1> QED
  BY <1>4, <1>5 DEF Write, sent, m
(* A packet is consumed: the message goes on, or the call returns.         *)
LEMMA ReadKeepsInv ==
  ASSUME SerialInv, NEW t \in Thread, ReadPacket(t)
  PROVE  SerialInv'
<1> USE DEF SerialInv
<1> DEFINE f == Head(input)
<1>1. /\ pc[t] = "read" /\ InExchange(t) /\ input # <<>> /\ input' = Tail(input)
      /\ UNCHANGED <<call, made, toEc, inFlight, clean>>
  BY DEF ReadPacket, InExchange
<1>2. /\ input' \in Seq(Frame) /\ Whole(input')
      /\ f.kind # "fragment" => f.call \in CallId
      /\ \A c : Only(input, c) => Only(input', c)
  BY <1>1, TailKeeps DEF TypeOK
<1>3. ASSUME NEW status \in Status \ {"Ok"}, Return(t, status, None)
      PROVE  SerialInv'
  BY <1>1, <1>2, <1>3, ReturnKeeps, TransportAssumption DEF TypeOK
<1>4. ASSUME WellFramed(f), Return(t, "Ok", f.call)
      PROVE  SerialInv'
  <2>1. f.call \in CallId /\ f.call # None
    BY <1>2, <1>4, TransportAssumption DEF WellFramed
  <2> HIDE DEF f
  <2> QED
    BY <1>1, <1>2, <1>4, <2>1, ReturnKeeps DEF TypeOK, Status
<1>5. CASE assembling' = TRUE /\ UNCHANGED <<pc, arg, result, port>>
  <2>1. TypeOK'
    BY <1>1, <1>2, <1>5 DEF TypeOK
  <2>2. MutexInv' /\ CallInv'
    BY <1>1, <1>5 DEF MutexInv, CallInv, InExchange
  <2>3. CleanInv'
    <3>1. \A u \in Thread : u # t => pc'[u] \notin {"write", "read"}
      BY <1>1, <1>5 DEF MutexInv, InExchange
    <3>2. clean => /\ Only(toEc', call'[t]) /\ Only(inFlight', call'[t])
                   /\ Only(input', call'[t])
      BY <1>1, <1>2 DEF CleanInv
    <3>3. pc'[t] = "read" /\ clean' = clean
      BY <1>1, <1>5
    <3> SUFFICES ASSUME NEW u \in Thread, clean'
                 PROVE  /\ pc'[u] = "write" => toEc' = <<>> /\ inFlight' = <<>> /\ input' = <<>>
                        /\ pc'[u] = "read" => /\ Only(toEc', call'[u])
                                              /\ Only(inFlight', call'[u])
                                              /\ Only(input', call'[u])
      BY DEF CleanInv, Only
    <3> QED
      BY <3>1, <3>2, <3>3
  <2> QED
    BY <1>1, <1>2, <2>1, <2>2, <2>3
<1> QED
  BY <1>3, <1>4, <1>5 DEF ReadPacket, Status

(* The EC and the line: what answers the only request under way is the     *)
(* only answer under way.                                                  *)
LEMMA LineKeepsInv ==
  ASSUME SerialInv, EcServes \/ Arrive
  PROVE  SerialInv'
<1> USE DEF SerialInv
<1>1. UNCHANGED <<pc, arg, call, made, result, port, assembling, clean>>
  BY DEF EcServes, Arrive
<1>2. MutexInv' /\ CallInv'
  BY <1>1 DEF MutexInv, CallInv, InExchange
<1>3. ASSUME toEc' \in Seq([req : Request, call : CallId]),
             inFlight' \in Seq(Frame), input' \in Seq(Frame),
             Whole(inFlight'), Whole(input'),
             toEc # <<>> \/ inFlight # <<>>,
             \A c : Only(toEc, c) /\ Only(inFlight, c) /\ Only(input, c) =>
                      Only(toEc', c) /\ Only(inFlight', c) /\ Only(input', c)
      PROVE  SerialInv'
  <2>1. TypeOK'
    BY <1>1, <1>3 DEF TypeOK
  <2>2. CleanInv'
    <3> SUFFICES ASSUME NEW u \in Thread, clean'
                 PROVE  /\ pc'[u] = "write" => toEc' = <<>> /\ inFlight' = <<>> /\ input' = <<>>
                        /\ pc'[u] = "read" => /\ Only(toEc', call'[u])
                                              /\ Only(inFlight', call'[u])
                                              /\ Only(input', call'[u])
      BY DEF CleanInv, Only
    <3> QED
      BY <1>1, <1>3 DEF CleanInv
  <2> QED
    BY <1>2, <1>3, <2>1, <2>2
<1>4. CASE EcServes
  <2> DEFINE m == Head(toEc)
  <2>1. /\ toEc # <<>> /\ toEc' = Tail(toEc) /\ input' = input
        /\ toEc \in Seq([req : Request, call : CallId])
        /\ inFlight \in Seq(Frame) /\ input \in Seq(Frame)
    BY <1>4 DEF EcServes, TypeOK
  <2>2. /\ toEc' \in Seq([req : Request, call : CallId])
        /\ m \in [req : Request, call : CallId]
        /\ \A c : Only(toEc, c) => Only(toEc', c) /\ m.call = c
    BY <2>1, TailKeeps
  <2> HIDE DEF m
  <2>3. PICK answer \in {<<>>, Packets("error", m, 1), Packets("reply", m, 1),
                         Packets("reply", m, 2)} : inFlight' = inFlight \o answer
    BY <1>4 DEF EcServes, m
  <2>4. answer \in Seq(Frame) /\ Whole(answer) /\ Only(answer, m.call)
    <3>1. <<>> \in Seq(Frame) /\ Whole(<<>>) /\ Only(<<>>, m.call)
      BY EmptySeq DEF Whole, Only
    <3> QED
      BY <2>2, <2>3, <3>1, PacketsType
  <2>5. /\ inFlight' \in Seq(Frame) /\ Whole(inFlight')
        /\ \A c : Only(inFlight, c) /\ Only(answer, c) => Only(inFlight', c)
    BY <2>1, <2>3, <2>4, ConcatKeeps
  <2>6. \A c : Only(toEc, c) => Only(answer, c)
    BY <2>2, <2>4 DEF Only
  <2> QED
    BY <1>3, <2>1, <2>2, <2>5, <2>6
<1>5. CASE Arrive
  <2> DEFINE f == Head(inFlight)
  <2>1. /\ inFlight # <<>> /\ inFlight' = Tail(inFlight) /\ toEc' = toEc
        /\ input' = Append(input, f) /\ inFlight \in Seq(Frame)
        /\ input \in Seq(Frame) /\ toEc \in Seq([req : Request, call : CallId])
    BY <1>5 DEF Arrive, TypeOK
  <2>2. /\ f \in Frame /\ inFlight' \in Seq(Frame) /\ Whole(inFlight')
        /\ f.kind # "fragment" => f.call \in CallId
        /\ \A c : Only(inFlight, c) => Only(inFlight', c) /\ f.call = c
    BY <2>1, TailKeeps
  <2> HIDE DEF f
  <2>3. /\ input' \in Seq(Frame) /\ Whole(input')
        /\ \A c : Only(input, c) /\ f.call = c => Only(input', c)
    BY <2>1, <2>2, AppendKeeps
  <2> QED
    BY <1>3, <2>1, <2>2, <2>3
<1> QED
  BY <1>4, <1>5

(* Every step of send, of the EC and of the line keeps the invariant.      *)
LEMMA StepKeepsSerialInv ==
  ASSUME SerialInv, [Next]_vars
  PROVE  SerialInv'
<1>1. ASSUME NEW t \in Thread, Timeout(t)
      PROVE  SerialInv'
  <2>1. InExchange(t) /\ Return(t, "Io", None)
        /\ UNCHANGED <<call, made, toEc, inFlight, input, clean>>
    BY <1>1 DEF Timeout, InExchange, lineVars
  <2> QED
    BY <2>1, ReturnKeeps, TransportAssumption DEF SerialInv, TypeOK, Status
<1>2. CASE UNCHANGED vars
  BY <1>2 DEF vars, SerialInv, TypeOK, MutexInv, InExchange, CallInv, CleanInv,
     Whole, Only
<1> QED
  BY <1>1, <1>2, EnterKeepsInv, ClearKeepsInv, WriteKeepsInv, ReadKeepsInv,
     LineKeepsInv DEF Next, CallStep

-----------------------------------------------------------------------------
(* The mutex, the numbering of calls and the ownership of what is under    *)
(* way hold whatever the threads and the EC do.                            *)
THEOREM SerialInvariant == Spec => []SerialInv
BY InitSerialInv, StepKeepsSerialInv, PTL DEF Spec

(* Every variable keeps its type; above all, a result that is Ok carries   *)
(* the reply to some call, never a fragment the clear left of one.         *)
THEOREM SerialTypeCorrect == Spec => []TypeOK
<1>1. SerialInv => TypeOK
  BY DEF SerialInv
<1> QED
  BY <1>1, SerialInvariant, PTL

(* Two threads are never in an exchange at once: Serial's clones share one *)
(* port behind a mutex, and every path of send that ends drops the guard.  *)
THEOREM ExchangesExclude ==
  Spec => [](\A t, u \in Thread : InExchange(t) /\ InExchange(u) => t = u)
<1>1. SerialInv => \A t, u \in Thread : InExchange(t) /\ InExchange(u) => t = u
  BY DEF SerialInv, MutexInv
<1> QED
  BY <1>1, SerialInvariant, PTL

(* A call that began with nothing under way returns Ok only with the reply *)
(* to its own request.                                                     *)
THEOREM CleanCallsGetTheirReply == Spec => CleanStartAnswersOwn
<1>1. ASSUME SerialInv, [Next]_vars
      PROVE  [CleanStep]_vars
  <2> SUFFICES ASSUME NEW t \in Thread, clean, pc[t] = "read", pc'[t] = "idle"
               PROVE  OwnReply(t)'
    BY DEF CleanStep
  <2>1. ASSUME NEW status, NEW answered, Return(t, status, answered),
               UNCHANGED call, status = "Ok" => answered = call[t]
        PROVE  OwnReply(t)'
    <3>1. result'[t].status = status /\ result'[t].call = answered
      <4>1. result' = [result EXCEPT ![t] = [status |-> status, call |-> answered]]
        BY <2>1 DEF Return
      <4>2. t \in DOMAIN result
        BY <1>1 DEF SerialInv, TypeOK
      <4> QED
        BY <4>1, <4>2
    <3> QED
      BY <2>1, <3>1 DEF OwnReply
  <2>2. CASE Timeout(t)
    BY <2>1, <2>2 DEF Timeout
  <2>3. CASE ReadPacket(t)
    <3>1. input # <<>> /\ input \in Seq(Frame) /\ Only(input, call[t]) /\ UNCHANGED call
      BY <1>1, <2>3 DEF ReadPacket, SerialInv, TypeOK, CleanInv
    <3>2. Head(input).call = call[t]
      BY <3>1, TailKeeps
    <3> QED
      BY <2>1, <2>3, <3>1, <3>2 DEF ReadPacket
  <2>4. ASSUME NEW u \in Thread, u # t, Call(u) \/ CallStep(u)
        PROVE  pc'[t] = pc[t]
    BY <1>1, <2>4 DEF SerialInv, TypeOK, CallStep, Call, Lock, Clear, Write,
       ReadPacket, Timeout, Return, Goto
  <2>5. CASE UNCHANGED pc
    BY <2>5
  <2>6. CASE Call(t) \/ Lock(t) \/ Clear(t) \/ Write(t)
    BY <2>6 DEF Call, Lock, Clear, Write
  <2> QED
    BY <1>1, <2>2, <2>3, <2>4, <2>5, <2>6
       DEF Next, CallStep, EcServes, Arrive, vars
<1>2. Spec => [][CleanStep]_vars
  BY <1>1, SerialInvariant, PTL DEF Spec
<1> QED
  BY <1>2 DEF CleanStartAnswersOwn
=============================================================================

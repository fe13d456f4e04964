------------------------- MODULE Comm3DPCall_proofs -------------------------
(***************************************************************************)
(* Proofs about Comm3DPCall, for every set of commands, every number of    *)
(* calls, every answer length and every size of the receive buffer.        *)
(***************************************************************************)
EXTENDS Comm3DPCall, SequenceTheorems, TLAPS

(* The answer to call i on its way: what is already in recvstr and what is *)
(* still in the stream are consecutive parts of one answer to i.           *)
InTransit(i) ==
  /\ Len(recvstr) <= AnswerLen
  /\ Len(recvstr) + Len(stream) <= AnswerLen + 1
  /\ \A k \in 1..Len(recvstr) : recvstr[k] = i
  /\ \A k \in 1..Len(stream) :
       stream[k] = IF Len(recvstr) + k = AnswerLen + 1 THEN End ELSE i
  /\ (recvstr # <<>> \/ stream # <<>>) => i \in DOMAIN replies

(* While the connection lives, the command of the call in progress waits   *)
(* for the printer process, or its whole answer is on the way.             *)
Alive(i) ==
  \/ /\ requests = <<i>> /\ i \notin DOMAIN replies
     /\ recvstr = <<>> /\ stream = <<>>
  \/ /\ requests = <<>> /\ i \in DOMAIN replies
     /\ Len(recvstr) + Len(stream) = AnswerLen + 1

CallInv ==
  /\ link # "up" => requests = <<>>
  /\ link = "none" => ~InCall
  /\ result # NoResult => result.id <= calls
  /\ InCall => /\ call.id = calls
               /\ result # NoResult => result.id < calls
               /\ InTransit(calls)
               /\ link = "up" => Alive(calls)

IInv == TypeOK /\ NothingInFlight /\ CallInv /\ OwnAnswer /\ PrintersVerdict

-----------------------------------------------------------------------------
(* A call that is in progress is not the empty record.                     *)
LEMMA CallNumber ==
  ASSUME TypeOK, InCall PROVE call \in [id : CallIds, cmd : Commands]
BY DEF TypeOK, InCall, NoCall

(* Cutting the stream keeps its type; the rest starts n tokens later.      *)
LEMMA CutStream ==
  ASSUME NEW S, NEW s \in Seq(S), NEW n \in 0..Len(s)
  PROVE  /\ SubSeq(s, 1, n) \in Seq(S) /\ Len(SubSeq(s, 1, n)) = n
         /\ \A k \in 1..n : SubSeq(s, 1, n)[k] = s[k]
         /\ SubSeq(s, n + 1, Len(s)) \in Seq(S)
         /\ Len(SubSeq(s, n + 1, Len(s))) = Len(s) - n
         /\ \A k \in 1..(Len(s) - n) : SubSeq(s, n + 1, Len(s))[k] = s[n + k]
<1>1. Len(s) \in Nat /\ \A k \in 1..Len(s) : s[k] \in S
  BY ElementOfSeq, LenProperties
<1>2. /\ SubSeq(s, 1, n) \in Seq(S)
      /\ Len(SubSeq(s, 1, n)) = n
      /\ \A k \in 1..n : SubSeq(s, 1, n)[k] = s[k]
  BY <1>1, SubSeqProperties
<1>3. /\ SubSeq(s, n + 1, Len(s)) \in Seq(S)
      /\ Len(SubSeq(s, n + 1, Len(s))) = Len(s) - n
      /\ \A k \in 1..(Len(s) - n) : SubSeq(s, n + 1, Len(s))[k] = s[n + k]
  BY <1>1, SubSeqProperties
<1>4. QED BY <1>1, <1>2, <1>3

-----------------------------------------------------------------------------
LEMMA InitInv == Init => IInv
<1> SUFFICES ASSUME Init PROVE IInv
  OBVIOUS
<1>1. TypeOK
  BY CallAssumption DEF Init, TypeOK
<1>2. ~InCall /\ ~result.ok /\ result = NoResult
  BY DEF Init, InCall, NoResult
<1>3. QED
  BY <1>1, <1>2 DEF Init, IInv, NothingInFlight, CallInv, OwnAnswer, PrintersVerdict

(* A finished call leaves a typed record that names it.                    *)
LEMMA FinishType ==
  ASSUME NEW i \in CallIds, NEW c \in Commands, NEW got \in Seq(CallIds),
         NEW ok \in BOOLEAN, Finish(i, c, got, ok)
  PROVE  /\ call' = NoCall
         /\ result' \in [id : CallIds, cmd : Commands, got : Seq(CallIds), ok : BOOLEAN]
         /\ result'.id = i /\ result'.cmd = c /\ result'.got = got /\ result'.ok = ok
BY DEF Finish

LEMMA SendFailsInv ==
  ASSUME IInv, NEW c \in Commands, SendFails(c) PROVE IInv'
<1>1. calls + 1 \in CallIds /\ calls' = calls + 1 /\ calls' \in 0..MaxCalls
  BY CallAssumption DEF IInv, TypeOK, SendFails, CallIds
<1>2. /\ call' = NoCall
      /\ result' \in [id : CallIds, cmd : Commands, got : Seq(CallIds), ok : BOOLEAN]
      /\ result'.id = calls + 1 /\ result'.ok = FALSE
  BY <1>1, FinishType, EmptySeq DEF SendFails
<1>3. TypeOK'
  BY <1>1, <1>2 DEF IInv, TypeOK, SendFails
<1>4. QED
  BY <1>1, <1>2, <1>3
  DEF IInv, TypeOK, SendFails, NothingInFlight, CallInv, OwnAnswer, PrintersVerdict, InCall

LEMMA SendInv ==
  ASSUME IInv, NEW c \in Commands, Send(c) PROVE IInv'
<1>1. calls + 1 \in CallIds /\ calls' = calls + 1 /\ calls' \in 0..MaxCalls /\ calls \in Nat
  BY CallAssumption DEF IInv, TypeOK, Send, CallIds
<1>2. requests = <<>> /\ stream = <<>> /\ recvstr' = <<>> /\ stream' = stream
  BY DEF IInv, NothingInFlight, Send
<1>3. requests' = IF link = "up" THEN <<calls + 1>> ELSE <<>>
  BY <1>1, <1>2 DEF Send
<1>4. call'.id = calls + 1 /\ call' \in [id : CallIds, cmd : Commands] /\ InCall'
  BY <1>1 DEF Send, InCall, NoCall, CallIds
<1>5. TypeOK'
  BY <1>1, <1>2, <1>3, <1>4 DEF IInv, TypeOK, Send
<1>6. calls + 1 \notin DOMAIN replies
  BY <1>1 DEF IInv, TypeOK
<1>7. InTransit(calls)' /\ (link' = "up" => Alive(calls)')
  BY <1>1, <1>2, <1>3, <1>6, CallAssumption DEF InTransit, Alive, Send
<1>8. CallInv'
  BY <1>1, <1>3, <1>4, <1>7 DEF IInv, TypeOK, CallInv, Send, NoResult, CallIds
<1>9. QED
  BY <1>4, <1>5, <1>8 DEF IInv, NothingInFlight, OwnAnswer, PrintersVerdict, Send

(* Receiving part of an answer moves it from the stream to recvstr.        *)
LEMMA RecvMoreInv ==
  ASSUME IInv, NEW n \in 1..RecvLen, RecvMore(n) PROVE IInv'
<1> DEFINE chunk == SubSeq(stream, 1, n)
<1>1. /\ InCall /\ n \in 1..Len(stream) /\ stream \in Seq(Tokens) /\ recvstr \in Seq(CallIds)
      /\ calls \in Nat /\ InTransit(calls)
  BY DEF RecvMore, IInv, TypeOK, CallInv
<1>2. /\ chunk \in Seq(Tokens) /\ Len(chunk) = n
      /\ \A k \in 1..n : chunk[k] = stream[k]
      /\ stream' \in Seq(Tokens) /\ Len(stream') = Len(stream) - n
      /\ \A k \in 1..(Len(stream) - n) : stream'[k] = stream[n + k]
  <2>1. n \in 0..Len(stream)
    BY <1>1
  <2>2. stream' = SubSeq(stream, n + 1, Len(stream))
    BY DEF RecvMore, Rest
  <2>3. QED
    BY <2>1, <2>2, <1>1, CutStream
<1>3. \A k \in 1..n : chunk[k] = calls /\ chunk[k] \in CallIds
  <2>1. ASSUME NEW k \in 1..n PROVE stream[k] # End /\ stream[k] = calls
    BY <1>1, CallAssumption DEF RecvMore, InTransit
  <2>2. \A k \in 1..n : stream[k] \in Tokens
    BY <1>1, ElementOfSeq
  <2>3. QED
    BY <2>1, <2>2, <1>2 DEF Tokens
<1>4. chunk \in Seq(CallIds)
  BY <1>2, <1>3, IsASeq, LenProperties
<1>5. /\ recvstr' \in Seq(CallIds) /\ Len(recvstr') = Len(recvstr) + n
      /\ \A k \in 1..(Len(recvstr) + n) :
           recvstr'[k] = IF k <= Len(recvstr) THEN recvstr[k] ELSE chunk[k - Len(recvstr)]
  BY <1>1, <1>2, <1>4, ConcatProperties DEF RecvMore
<1>6. TypeOK'
  BY <1>2, <1>5 DEF IInv, TypeOK, RecvMore
<1>7. InTransit(calls)'
  <2>1. Len(recvstr) \in Nat /\ Len(stream) \in Nat
    BY <1>1, LenProperties
  <2>2. stream # <<>>
    BY <1>1, <2>1
  <2>3. Len(recvstr) + n <= AnswerLen
    <3>1. stream[n] # End
      BY <1>1 DEF RecvMore
    <3>2. Len(recvstr) + n # AnswerLen + 1
      BY <3>1, <1>1 DEF InTransit
    <3>3. QED
      BY <3>2, <1>1, <2>1, CallAssumption DEF InTransit
  <2>4. \A k \in 1..(Len(recvstr) + n) : recvstr'[k] = calls
    <3> SUFFICES ASSUME NEW k \in 1..(Len(recvstr) + n) PROVE recvstr'[k] = calls
      OBVIOUS
    <3>1. CASE k <= Len(recvstr)
      BY <3>1, <1>1, <1>5, <2>1 DEF InTransit
    <3>2. CASE ~(k <= Len(recvstr))
      <4>1. k - Len(recvstr) \in 1..n
        BY <3>2, <2>1
      <4>2. QED
        BY <4>1, <3>2, <1>3, <1>5
    <3>3. QED
      BY <3>1, <3>2
  <2>5. \A k \in 1..Len(stream') :
          stream'[k] = IF Len(recvstr') + k = AnswerLen + 1 THEN End ELSE calls
    BY <1>1, <1>2, <1>5, <2>1, CallAssumption DEF InTransit
  <2>6. calls \in DOMAIN replies
    BY <1>1, <2>2 DEF InTransit
  <2>7. QED
    BY <1>1, <1>2, <1>5, <2>1, <2>3, <2>4, <2>5, <2>6, CallAssumption DEF InTransit, RecvMore
<1>8. link' = "up" => Alive(calls)'
  <2>1. Len(recvstr) \in Nat /\ Len(stream) \in Nat /\ stream # <<>>
    BY <1>1, LenProperties
  <2>2. link = "up" => /\ requests = <<>> /\ calls \in DOMAIN replies
                       /\ Len(recvstr) + Len(stream) = AnswerLen + 1
    BY <1>1, <2>1 DEF IInv, CallInv, Alive
  <2>3. Len(recvstr') + Len(stream') = Len(recvstr) + Len(stream)
    BY <1>2, <1>5, <2>1
  <2>4. QED
    BY <2>2, <2>3 DEF Alive, RecvMore
<1>9. QED
  BY <1>6, <1>7, <1>8 DEF IInv, NothingInFlight, CallInv, OwnAnswer, PrintersVerdict,
                          RecvMore, InCall

(* The ENDCHAR in transit is the last token of the answer: the text before *)
(* it is the whole answer, and nothing follows it.                         *)
LEMMA RecvEndText ==
  ASSUME IInv, NEW n \in 1..RecvLen, NEW m \in 1..n, RecvEnd(n, m)
  PROVE  /\ m = Len(stream) /\ n = m
         /\ recvstr' = [k \in 1..AnswerLen |-> calls]
         /\ recvstr' \in Seq(CallIds)
         /\ calls \in CallIds /\ calls \in DOMAIN replies
         /\ Meaning(recvstr') = replies[calls]
<1>1. /\ InCall /\ n \in 1..Len(stream) /\ stream \in Seq(Tokens) /\ recvstr \in Seq(CallIds)
      /\ calls \in Nat /\ InTransit(calls) /\ stream[m] = End
  BY DEF RecvEnd, EndAt, IInv, TypeOK, CallInv
<1>2. Len(recvstr) \in Nat /\ Len(stream) \in Nat /\ m \in 1..Len(stream) /\ stream # <<>>
  BY <1>1, LenProperties
<1>3. calls \in CallIds /\ calls \in DOMAIN replies
  BY <1>1, <1>2 DEF InTransit, IInv, TypeOK, CallIds
<1>4. Len(recvstr) + m = AnswerLen + 1 /\ m = Len(stream) /\ n = m
  BY <1>1, <1>2, <1>3, CallAssumption DEF InTransit, End, CallIds
<1> DEFINE text == SubSeq(stream, 1, m - 1)
<1>5. text \in Seq(Tokens) /\ Len(text) = m - 1 /\ \A k \in 1..(m - 1) : text[k] = stream[k]
  BY <1>1, <1>2, CutStream
<1>6. \A k \in 1..(m - 1) : text[k] = calls
  <2> SUFFICES ASSUME NEW k \in 1..(m - 1) PROVE text[k] = calls
    OBVIOUS
  <2>1. k \in 1..Len(stream) /\ Len(recvstr) + k # AnswerLen + 1
    BY <1>2, <1>4, CallAssumption
  <2>2. stream[k] = calls
    BY <2>1, <1>1 DEF InTransit
  <2>3. QED
    BY <2>2, <1>5
<1>7. text \in Seq(CallIds)
  BY <1>3, <1>5, <1>6, IsASeq, LenProperties
<1>8. /\ recvstr' = recvstr \o text /\ recvstr' \in Seq(CallIds)
      /\ Len(recvstr') = AnswerLen
  BY <1>1, <1>2, <1>4, <1>5, <1>7, ConcatProperties, CallAssumption DEF RecvEnd
<1>9. \A k \in 1..AnswerLen : recvstr'[k] = calls
  <2> SUFFICES ASSUME NEW k \in 1..AnswerLen PROVE recvstr'[k] = calls
    OBVIOUS
  <2>1. recvstr'[k] = IF k <= Len(recvstr) THEN recvstr[k] ELSE text[k - Len(recvstr)]
    BY <1>1, <1>2, <1>4, <1>5, <1>7, <1>8, ConcatProperties, CallAssumption
  <2>2. CASE k <= Len(recvstr)
    BY <2>1, <2>2, <1>1, <1>2 DEF InTransit
  <2>3. CASE ~(k <= Len(recvstr))
    <3>1. k - Len(recvstr) \in 1..(m - 1)
      BY <2>3, <1>2, <1>4, CallAssumption
    <3>2. QED
      BY <3>1, <2>1, <2>3, <1>6
  <2>4. QED
    BY <2>2, <2>3
<1>10. recvstr' = [k \in 1..AnswerLen |-> calls]
  <2>1. recvstr' = [k \in 1..Len(recvstr') |-> recvstr'[k]]
    BY <1>8
  <2>2. QED
    BY <2>1, <1>8, <1>9
<1>11. Meaning(recvstr') = replies[calls]
  BY <1>3, <1>8, <1>9, CallAssumption DEF Meaning, Whole
<1>12. QED
  BY <1>3, <1>4, <1>8, <1>10, <1>11

LEMMA RecvEndInv ==
  ASSUME IInv, NEW n \in 1..RecvLen, NEW m \in 1..n, RecvEnd(n, m) PROVE IInv'
<1>1. /\ m = Len(stream) /\ n = m /\ recvstr' = [k \in 1..AnswerLen |-> calls]
      /\ recvstr' \in Seq(CallIds) /\ calls \in CallIds /\ calls \in DOMAIN replies
      /\ Meaning(recvstr') = replies[calls]
  BY RecvEndText
<1>2. /\ InCall /\ call.id = calls /\ call.cmd \in Commands /\ InTransit(calls)
      /\ link = "up" => requests = <<>>
      /\ link # "up" => requests = <<>>
  BY CallNumber, <1>1 DEF IInv, CallInv, RecvEnd, Alive
<1>3. stream' = <<>>
  <2>1. stream \in Seq(Tokens) /\ Len(stream) \in Nat
    BY LenProperties DEF IInv, TypeOK
  <2>2. stream' = SubSeq(stream, n + 1, Len(stream))
    BY DEF RecvEnd, Rest
  <2>3. QED
    BY <1>1, <2>1, <2>2, SubSeqEmpty
<1>4. Succeeds(call.cmd, Meaning(recvstr')) \in BOOLEAN
  BY DEF Succeeds
<1>5. Finish(calls, call.cmd, recvstr', Succeeds(call.cmd, Meaning(recvstr')))
  BY <1>2 DEF RecvEnd
<1>6. /\ call' = NoCall
      /\ result' \in [id : CallIds, cmd : Commands, got : Seq(CallIds), ok : BOOLEAN]
      /\ result'.id = calls /\ result'.cmd = call.cmd /\ result'.got = recvstr'
      /\ result'.ok = Succeeds(call.cmd, replies[calls])
  BY <1>1, <1>2, <1>4, <1>5, FinishType
<1>7. TypeOK'
  BY <1>1, <1>3, <1>6, EmptySeq DEF IInv, TypeOK, RecvEnd
<1>8. ~InCall' /\ requests' = <<>>
  BY <1>2, <1>6 DEF InCall, RecvEnd
<1>9. CallInv'
  BY <1>1, <1>6, <1>8 DEF IInv, CallInv, TypeOK, RecvEnd
<1>10. OwnAnswer' /\ PrintersVerdict'
  BY <1>1, <1>6 DEF OwnAnswer, PrintersVerdict, RecvEnd
<1>11. QED
  BY <1>3, <1>7, <1>8, <1>9, <1>10 DEF IInv, NothingInFlight

LEMMA RecvClosedInv == ASSUME IInv, RecvClosed PROVE IInv'
<1>1. /\ InCall /\ call.id = calls /\ call.id \in CallIds /\ call.cmd \in Commands
      /\ recvstr \in Seq(CallIds) /\ calls \in 0..MaxCalls
  BY CallNumber DEF IInv, CallInv, TypeOK, RecvClosed
<1>2. /\ call' = NoCall
      /\ result' \in [id : CallIds, cmd : Commands, got : Seq(CallIds), ok : BOOLEAN]
      /\ result'.id = calls /\ result'.ok = FALSE
  BY <1>1, FinishType DEF RecvClosed
<1>3. TypeOK'
  BY <1>2 DEF IInv, TypeOK, RecvClosed
<1>4. link' = "lost" /\ stream' = <<>> /\ requests' = <<>> /\ ~InCall'
  BY <1>2 DEF RecvClosed, IInv, CallInv, InCall
<1>5. QED
  BY <1>1, <1>2, <1>3, <1>4, CallAssumption
  DEF IInv, NothingInFlight, CallInv, OwnAnswer, PrintersVerdict, RecvClosed

LEMMA ServeInv == ASSUME IInv, NEW reply \in Replies, Serve(reply) PROVE IInv'
<1>1. /\ InCall /\ requests = <<calls>> /\ calls \in CallIds /\ calls \notin DOMAIN replies
      /\ recvstr = <<>> /\ stream = <<>> /\ call.id = calls
  <2>1. requests # <<>> /\ link = "up"
    BY DEF Serve
  <2>2. InCall /\ call.id = calls /\ Alive(calls)
    BY <2>1 DEF IInv, NothingInFlight, CallInv
  <2>3. QED
    BY <2>1, <2>2, CallNumber DEF Alive, IInv
<1>2. Head(requests) = calls /\ Tail(requests) = <<>>
  BY <1>1
<1>3. /\ replies' = [i \in DOMAIN replies \cup {calls} |->
                       IF i = calls THEN reply ELSE replies[i]]
      /\ DOMAIN replies' = DOMAIN replies \cup {calls}
  BY <1>2 DEF Serve
<1>4. /\ Answer(calls) \in Seq(Tokens) /\ Len(Answer(calls)) = AnswerLen + 1
      /\ \A k \in 1..(AnswerLen + 1) :
           Answer(calls)[k] = IF k = AnswerLen + 1 THEN End ELSE calls
  <2>1. AnswerLen + 1 \in Nat
    BY CallAssumption
  <2>2. \A k \in 1..(AnswerLen + 1) :
          (IF k <= AnswerLen THEN calls ELSE End) \in Tokens
    BY <1>1 DEF Tokens
  <2>3. Answer(calls) \in Seq(Tokens)
    BY <2>1, <2>2, IsASeq DEF Answer
  <2>4. QED
    BY <2>1, <2>3, CallAssumption, LenProperties DEF Answer
<1>5. stream' = Answer(calls)
  BY <1>1, <1>2, <1>4, ConcatEmptySeq DEF Serve
<1>6. TypeOK'
  BY <1>1, <1>2, <1>3, <1>4, <1>5, EmptySeq DEF IInv, TypeOK, Serve, CallIds
<1>7. InTransit(calls)' /\ Alive(calls)'
  BY <1>1, <1>2, <1>3, <1>4, <1>5, CallAssumption DEF InTransit, Alive, Serve
<1>8. CallInv'
  BY <1>1, <1>7 DEF IInv, CallInv, Serve, InCall
<1>9. PrintersVerdict'
  BY <1>1, <1>3 DEF IInv, CallInv, PrintersVerdict, Serve, NoResult
<1>10. QED
  BY <1>1, <1>6, <1>8, <1>9 DEF IInv, NothingInFlight, OwnAnswer, Serve, InCall

LEMMA LoseLinkInv == ASSUME IInv, NEW n \in 0..Len(stream), LoseLink(n) PROVE IInv'
<1>1. /\ stream' \in Seq(Tokens) /\ Len(stream') = n
      /\ \A k \in 1..n : stream'[k] = stream[k]
  BY CutStream DEF LoseLink, IInv, TypeOK
<1>2. Len(stream) \in Nat /\ Len(recvstr) \in Nat
  BY LenProperties DEF IInv, TypeOK
<1>3. TypeOK'
  BY <1>1, EmptySeq DEF IInv, TypeOK, LoseLink
<1>4. ASSUME InCall PROVE InTransit(calls)'
  <2>1. InTransit(calls)
    BY <1>4 DEF IInv, CallInv
  <2>2. stream' # <<>> => stream # <<>>
    BY <1>1, <1>2
  <2>3. QED
    BY <1>1, <1>2, <2>1, <2>2, CallAssumption DEF InTransit, LoseLink
<1>5. ~InCall => stream' = <<>>
  BY <1>1 DEF IInv, NothingInFlight
<1>6. QED
  BY <1>3, <1>4, <1>5
  DEF IInv, NothingInFlight, CallInv, OwnAnswer, PrintersVerdict, LoseLink, InCall

LEMMA NextInv == IInv /\ [Next]_vars => IInv'
<1> SUFFICES ASSUME IInv, [Next]_vars PROVE IInv'
  OBVIOUS
<1>1. CASE UNCHANGED vars
  BY <1>1 DEF vars, IInv, TypeOK, NothingInFlight, CallInv, OwnAnswer, PrintersVerdict,
              InCall, InTransit, Alive
<1>2. CASE Program
  BY <1>2, SendFailsInv, SendInv, RecvMoreInv, RecvEndInv, RecvClosedInv DEF Program, Receive
<1>3. CASE Printer
  BY <1>3, ServeInv, LoseLinkInv DEF Printer
<1>4. QED
  BY <1>1, <1>2, <1>3 DEF Next

(* In every state of every run the inductive invariant holds.              *)
THEOREM Invariance == Spec => []IInv
BY InitInv, NextInv, PTL DEF Spec

(* The variables of the request/response protocol keep their types.        *)
THEOREM TypeCorrect == Spec => []TypeOK
<1>1. IInv => TypeOK
  BY DEF IInv
<1>2. QED
  BY <1>1, Invariance, PTL

(* A method that succeeds has read the whole answer to its own command.    *)
THEOREM OwnAnswerCorrect == Spec => []OwnAnswer
<1>1. IInv => OwnAnswer
  BY DEF IInv
<1>2. QED
  BY <1>1, Invariance, PTL

(* What a method reports is what the printer process decided.              *)
THEOREM PrintersVerdictCorrect == Spec => []PrintersVerdict
<1>1. IInv => PrintersVerdict
  BY DEF IInv
<1>2. QED
  BY <1>1, Invariance, PTL

(* Nothing is in flight between two calls.                                 *)
THEOREM NothingInFlightCorrect == Spec => []NothingInFlight
<1>1. IInv => NothingInFlight
  BY DEF IInv
<1>2. QED
  BY <1>1, Invariance, PTL

(* While a method blocks in recv() there is something for it to receive, a *)
(* command for the printer process to read, or a closed connection.        *)
THEOREM NeverBothWaitCorrect == Spec => []NeverBothWait
<1>1. ASSUME IInv, InCall, link # "lost" PROVE link = "up" /\ Alive(calls)
  BY <1>1 DEF IInv, TypeOK, CallInv
<1>2. ASSUME IInv, InCall, link # "lost", requests = <<>> PROVE stream # <<>>
  <2>1. Len(recvstr) + Len(stream) = AnswerLen + 1 /\ Len(recvstr) <= AnswerLen
    BY <1>1, <1>2 DEF Alive, IInv, CallInv, InTransit
  <2>2. Len(recvstr) \in Nat /\ AnswerLen \in Nat
    BY CallAssumption, LenProperties DEF IInv, TypeOK
  <2>3. Len(stream) # 0
    BY <2>1, <2>2
  <2> QED
    BY <2>3, EmptySeq
<1>3. IInv => NeverBothWait
  BY <1>1, <1>2 DEF NeverBothWait
<1>4. QED
  BY <1>3, Invariance, PTL

(* The steps that a call has left are a number, at most one answer with    *)
(* its ENDCHAR, the reading of the command and the loss of the connection. *)
LEMMA StepsLeftBound ==
  ASSUME IInv
  PROVE  /\ StepsLeft \in Nat
         /\ InCall => StepsLeft <= AnswerLen + 3
<1>1. Len(stream) \in Nat /\ Len(requests) \in Nat /\ AnswerLen \in Nat
  BY CallAssumption, LenProperties DEF IInv, TypeOK
<1>2. (AnswerLen + 2) * Len(requests) \in Nat
  BY <1>1, SMT
<1>3. StepsLeft \in Nat
  BY <1>1, <1>2 DEF StepsLeft
<1>4. ASSUME InCall PROVE StepsLeft <= AnswerLen + 3
  <2>1. Len(stream) <= AnswerLen + 1
    <3>1. Len(recvstr) \in Nat
      BY LenProperties DEF IInv, TypeOK
    <3> QED
      BY <1>1, <1>4, <3>1 DEF IInv, CallInv, InTransit
  <2>2. CASE requests = <<>>
    <3>1. Len(requests) = 0
      BY <2>2
    <3>2. (AnswerLen + 2) * Len(requests) = 0
      BY <1>1, <3>1, SMT
    <3> QED
      BY <1>1, <2>1, <3>2 DEF StepsLeft
  <2>3. CASE requests # <<>>
    <3>1. requests = <<calls>> /\ stream = <<>>
      BY <1>4, <2>3 DEF IInv, TypeOK, CallInv, Alive
    <3>2. Len(requests) = 1 /\ Len(stream) = 0
      BY <3>1
    <3>3. (AnswerLen + 2) * Len(requests) = AnswerLen + 2
      BY <1>1, <3>2, SMT
    <3> QED
      BY <1>1, <3>2, <3>3 DEF StepsLeft
  <2> QED
    BY <2>2, <2>3
<1> QED
  BY <1>3, <1>4

(* From its send() on, a call takes at most AnswerLen + 4 steps, its last  *)
(* one included, however recv() cuts the answer.                           *)
THEOREM CallBounded == Spec => [](InCall => StepsLeft \in 0..(AnswerLen + 3))
<1>1. ASSUME IInv, InCall PROVE StepsLeft \in 0..(AnswerLen + 3)
  BY <1>1, StepsLeftBound, CallAssumption
<1>2. IInv => (InCall => StepsLeft \in 0..(AnswerLen + 3))
  BY <1>1
<1>3. QED
  BY <1>2, Invariance, PTL

(* What a recv() leaves in the stream.                                     *)
LEMMA RestIsShorter ==
  ASSUME IInv, NEW n \in 1..Len(stream)
  PROVE  Len(Rest(n)) = Len(stream) - n
<1>1. stream \in Seq(Tokens)
  BY DEF IInv, TypeOK
<1> QED
  BY <1>1, LenProperties DEF Rest

(* Every step inside a call uses up one that was left.                     *)
LEMMA StepAdvances ==
  ASSUME IInv, Next, InCall, InCall'
  PROVE  StepsLeft' < StepsLeft
<1>1. Len(stream) \in Nat /\ Len(requests) \in Nat /\ AnswerLen \in Nat
      /\ stream \in Seq(Tokens) /\ requests \in Seq(CallIds)
  BY CallAssumption, LenProperties DEF IInv, TypeOK
<1>2. (AnswerLen + 2) * Len(requests) \in Nat
  BY <1>1, SMT
<1>3. ASSUME NEW c \in Commands, SendFails(c) \/ Send(c) PROVE FALSE
  BY <1>3 DEF SendFails, Send
<1>4. ASSUME NEW n \in 1..RecvLen, RecvMore(n) PROVE StepsLeft' < StepsLeft
  <2>1. n \in 1..Len(stream) /\ stream' = Rest(n)
    BY <1>4 DEF RecvMore
  <2>2. Len(stream') < Len(stream) /\ Len(stream') \in Nat
    BY <1>1, <2>1, RestIsShorter
  <2> QED
    BY <1>2, <2>2, <1>1, <1>4 DEF StepsLeft, RecvMore
<1>5. ASSUME NEW n, NEW m, RecvEnd(n, m) PROVE FALSE
  BY <1>5 DEF RecvEnd, Finish, InCall
<1>6. CASE RecvClosed
  BY <1>6 DEF RecvClosed, Finish, InCall
<1>7. ASSUME NEW reply \in Replies, Serve(reply) PROVE StepsLeft' < StepsLeft
  <2>1. requests # <<>> /\ link' = link /\ requests' = Tail(requests)
        /\ stream' = stream \o Answer(Head(requests))
    BY <1>7 DEF Serve
  <2>2. Len(requests') = Len(requests) - 1 /\ Len(requests) >= 1
    BY <1>1, <2>1
  <2>3. Len(stream') = Len(stream) + AnswerLen + 1
    <3>1. Head(requests) \in CallIds
      BY <1>1, <2>1
    <3>2. Answer(Head(requests)) \in Seq(Tokens) /\ Len(Answer(Head(requests))) = AnswerLen + 1
      BY <1>1, <3>1 DEF Answer, Tokens
    <3>3. Len(stream \o Answer(Head(requests))) = Len(stream) + Len(Answer(Head(requests)))
      BY <1>1, <3>2, ConcatProperties
    <3>4. Len(stream') = Len(stream \o Answer(Head(requests)))
      BY <2>1
    <3>5. Len(stream') = Len(stream) + Len(Answer(Head(requests)))
      BY <3>3, <3>4
    <3>6. \A x, y \in Nat : x + (y + 1) = x + y + 1
      OBVIOUS
    <3>7. Len(stream) + (AnswerLen + 1) = Len(stream) + AnswerLen + 1
      BY <1>1, <3>6, Zenon
    <3> QED
      BY <3>2, <3>5, <3>7, Zenon
  <2>4. (AnswerLen + 2) * Len(requests') = (AnswerLen + 2) * Len(requests) - (AnswerLen + 2)
    BY <1>1, <2>2, SMT
  <2> QED
    BY <1>1, <1>2, <2>1, <2>3, <2>4 DEF StepsLeft
<1>8. ASSUME NEW n \in 0..Len(stream), LoseLink(n) PROVE StepsLeft' < StepsLeft
  <2>1. link = "up" /\ link' = "lost" /\ requests' = <<>> /\ stream' = SubSeq(stream, 1, n)
    BY <1>8 DEF LoseLink
  <2>2. Len(requests') = 0 /\ Len(stream') = n
    BY <1>1, <2>1
  <2>3. (AnswerLen + 2) * Len(requests') = 0
    BY <1>1, <2>2, SMT
  <2> QED
    BY <1>1, <1>2, <2>1, <2>2, <2>3 DEF StepsLeft
<1> QED
  BY <1>3, <1>4, <1>5, <1>6, <1>7, <1>8 DEF Next, Program, Receive, Printer

(* No step of a call is lost time: with NeverBothWait, catchResponse()     *)
(* returns as soon as what is owed to it has arrived.                      *)
THEOREM CallAdvancesCorrect == Spec => CallAdvances
<1>1. IInv /\ [Next]_vars => [InCall /\ InCall' => StepsLeft' < StepsLeft]_vars
  BY StepAdvances
<1>2. QED
  BY <1>1, Invariance, PTL DEF Spec, CallAdvances

-----------------------------------------------------------------------------
(* Refinement: each step of the protocol is a step of Comm3DPService or    *)
(* leaves its variables unchanged.                                         *)
(* Both modules take the vocabulary of the protocol from Comm3DPCommands.  *)
LEMMA SameVocabulary ==
  /\ Service3DP!Replies = Replies
  /\ \A c, r : Service3DP!Succeeds(c, r) = Succeeds(c, r)
BY DEF Replies, Service3DP!Replies, Succeeds, Service3DP!Succeeds,
        CloseProcess, Service3DP!CloseProcess, Power, Service3DP!Power,
        ErrorReset, Service3DP!ErrorReset, HeadRecovery,
        Service3DP!HeadRecovery, HeadExchange, Service3DP!HeadExchange,
        TestPages, Service3DP!TestPages, JobBounds, Service3DP!JobBounds,
        JobControl, Service3DP!JobControl, Sirius, Service3DP!Sirius,
        Service, Service3DP!Service, Midjob, Service3DP!Midjob, Doors,
        Service3DP!Doors, WiperSet, Service3DP!WiperSet, JobLabels,
        Service3DP!JobLabels, Estimate, Service3DP!Estimate, Heating,
        Service3DP!Heating, PrintQuality, Service3DP!PrintQuality, WiperPlan,
        Service3DP!WiperPlan, DirectSend, Service3DP!DirectSend, NVMSend,
        Service3DP!NVMSend, Lift, Service3DP!Lift, NVMRead,
        Service3DP!NVMRead, Feedback, Service3DP!Feedback, StatusText,
        Service3DP!StatusText, Versions, Service3DP!Versions, ErrorTexts,
        Service3DP!ErrorTexts, AnyText, Service3DP!AnyText, SystemText,
        Service3DP!SystemText, WiperSN, Service3DP!WiperSN, BinderText,
        Service3DP!BinderText, ActiveIds, Service3DP!ActiveIds, PartVersion,
        Service3DP!PartVersion, NVMText, Service3DP!NVMText, TextOrErr,
        Service3DP!TextOrErr, Axes, Service3DP!Axes, CancelFlag,
        Service3DP!CancelFlag, PageCounts, Service3DP!PageCounts, Header,
        Service3DP!Header, Interval, Service3DP!Interval, WiperCount,
        Service3DP!WiperCount, Shutdown, Service3DP!Shutdown, DryPages,
        Service3DP!DryPages, ModeNumber, Service3DP!ModeNumber, JobNumbers,
        Service3DP!JobNumbers, NVMChecked, Service3DP!NVMChecked, Parsed,
        Service3DP!Parsed

LEMMA ServiceInit == Init => Service3DP!Init
BY DEF Init, Service3DP!Init, NoCall, NoResult, Service3DP!Nothing

LEMMA ServiceStep == IInv /\ [Next]_vars => [Service3DP!Next]_(Service3DP!svars)
<1> SUFFICES ASSUME IInv, [Next]_vars
             PROVE  Service3DP!Next \/ UNCHANGED Service3DP!svars
  OBVIOUS
<1> USE DEF Service3DP!svars, Service3DP!Nothing, Service3DP!Report
<1>1. CASE UNCHANGED vars
  BY <1>1 DEF vars
<1>2. ASSUME NEW c \in Commands, SendFails(c) PROVE Service3DP!Next
  <2>1. Service3DP!Refuse(c)
    BY <1>2 DEF SendFails, Finish, InCall, NoCall, Service3DP!Refuse
  <2>2. QED
    BY <2>1 DEF Service3DP!Next
<1>3. ASSUME NEW c \in Commands, Send(c) PROVE Service3DP!Next
  <2>1. Service3DP!Ask(c)
    BY <1>3 DEF Send, InCall, NoCall, Service3DP!Ask
  <2>2. QED
    BY <2>1 DEF Service3DP!Next
<1>4. ASSUME NEW n \in 1..RecvLen, RecvMore(n) PROVE UNCHANGED Service3DP!svars
  BY <1>4 DEF RecvMore
<1>5. ASSUME NEW n \in 1..RecvLen, NEW m \in 1..n, RecvEnd(n, m) PROVE Service3DP!Next
  <2>1. /\ calls \in DOMAIN replies /\ Meaning(recvstr') = replies[calls]
        /\ call.id = calls
    BY <1>5, RecvEndText DEF IInv, CallInv, RecvEnd
  <2>2. /\ call' = NoCall
        /\ result'.id = calls /\ result'.cmd = call.cmd
        /\ result'.ok = Succeeds(call.cmd, replies[calls])
    BY <1>5, <2>1 DEF RecvEnd, Finish
  <2>3. Service3DP!Succeeds(call.cmd, replies[calls]) = Succeeds(call.cmd, replies[calls])
    BY SameVocabulary
  <2>4. Service3DP!Return
    BY <1>5, <2>1, <2>2, <2>3 DEF RecvEnd, InCall, NoCall, Service3DP!Return
  <2>5. QED
    BY <2>4 DEF Service3DP!Next
<1>6. CASE RecvClosed
  <2>1. Service3DP!GiveUp
    BY <1>6 DEF RecvClosed, Finish, InCall, NoCall, Service3DP!GiveUp
  <2>2. QED
    BY <2>1 DEF Service3DP!Next
<1>7. ASSUME NEW reply \in Replies, Serve(reply) PROVE Service3DP!Next
  <2>1. /\ InCall /\ call.id = calls /\ Head(requests) = calls
        /\ calls \notin DOMAIN replies
    BY <1>7 DEF IInv, NothingInFlight, CallInv, Alive, Serve
  <2>2. Service3DP!CarryOut(reply)
    BY <1>7, <2>1 DEF Serve, InCall, NoCall, Service3DP!CarryOut
  <2>3. QED
    BY <2>2, SameVocabulary DEF Service3DP!Next
<1>8. ASSUME NEW n \in 0..Len(stream), LoseLink(n) PROVE Service3DP!Next
  <2>1. Service3DP!Break
    BY <1>8 DEF LoseLink, Service3DP!Break
  <2>2. QED
    BY <2>1 DEF Service3DP!Next
<1>9. QED
  BY <1>1, <1>2, <1>3, <1>4, <1>5, <1>6, <1>7, <1>8 DEF Next, Program, Receive, Printer

(* The byte-level protocol implements the contract of Comm3DPService.      *)
THEOREM Refinement == Spec => ImplementsService
BY ServiceInit, ServiceStep, Invariance, PTL
DEF Spec, ImplementsService, Service3DP!Spec
=============================================================================

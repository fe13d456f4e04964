---------------------------- MODULE Comm3DPCall ----------------------------
(***************************************************************************)
(* The request/response protocol between one Comm3DP object of BCPware and *)
(* the printer process chip3dpcomm.exe (comm3DP.cpp).                      *)
(*                                                                         *)
(* Every public method of Comm3DP has the same body: it sends one command  *)
(* that ends with ENDCHAR, then blocks in catchResponse(), which calls     *)
(* recv() until it has seen an ENDCHAR, and translates the text before the *)
(* ENDCHAR into a return value.  Nothing in the protocol numbers a request *)
(* or an answer: the pairing is positional.                                *)
(*                                                                         *)
(* TCP is a byte stream.  The text of the answer to call i is AnswerLen    *)
(* tokens i, its ENDCHAR is the token End; recv() takes any nonempty       *)
(* prefix of what has arrived, at most RecvLen tokens of it.               *)
(***************************************************************************)
EXTENDS Integers, Sequences, Comm3DPCommands

CONSTANTS Commands,    \* the commands the program issues
          MaxCalls,    \* bound on the number of calls
          AnswerLen,   \* length of an answer, without its ENDCHAR
          RecvLen      \* COMM3DP_RECVLEN - 1

ASSUME CallAssumption ==
  /\ Commands \subseteq AllCommands
  /\ MaxCalls \in Nat
  /\ AnswerLen \in Nat \ {0}
  /\ RecvLen \in Nat \ {0}

VARIABLES
  link,      \* "none" (_initFail), "up", or "lost" (the printer process died)
  requests,  \* commands sent and not yet read by the printer process
  stream,    \* tokens sent to the program and not yet received
  replies,   \* what the printer process answered to each command it carried out
  calls,     \* number of commands issued so far; the last one has this number
  call,      \* the call in progress, or NoCall
  recvstr,   \* Comm3DP::recvstr
  result     \* what the last finished call returned

vars == <<link, requests, stream, replies, calls, call, recvstr, result>>

End == 0
CallIds == Nat \ {0}
Tokens == CallIds \cup {End}

NoCall == [id |-> 0, cmd |-> "none"]
InCall == call # NoCall

NoResult == [id |-> 0, cmd |-> "none", got |-> <<>>, ok |-> FALSE]

Answer(i) == [k \in 1..(AnswerLen + 1) |-> IF k <= AnswerLen THEN i ELSE End]

(* The text the caller ends up with: a whole answer has the meaning the    *)
(* printer process gave it, a fragment is some other text.                 *)
Whole(got) == /\ Len(got) = AnswerLen
              /\ \A k \in 1..Len(got) : got[k] = got[1]
Meaning(got) == IF Whole(got) /\ got[1] \in DOMAIN replies
                THEN replies[got[1]] ELSE "other"

-----------------------------------------------------------------------------
Init ==
  /\ link \in {"none", "up"}
  /\ requests = <<>> /\ stream = <<>> /\ replies = [i \in {} |-> "other"]
  /\ calls = 0 /\ call = NoCall /\ recvstr = <<>> /\ result = NoResult

Finish(i, c, got, ok) ==
  /\ call' = NoCall
  /\ result' = [id |-> i, cmd |-> c, got |-> got, ok |-> ok]

(* A method returns at once when the constructor failed, and when send()   *)
(* reports SOCKET_ERROR.                                                   *)
SendFails(c) ==
  /\ ~InCall /\ calls < MaxCalls
  /\ link # "up"
  /\ calls' = calls + 1
  /\ Finish(calls + 1, c, <<>>, FALSE)
  /\ UNCHANGED <<link, requests, stream, replies, recvstr>>

(* Faulty variant of Send: recvstr keeps the text of the last answer.       *)
SendKeepsText(c) ==
  /\ ~InCall /\ calls < MaxCalls
  /\ link # "none"
  /\ calls' = calls + 1
  /\ call' = [id |-> calls + 1, cmd |-> c]
  /\ requests' = IF link = "up" THEN Append(requests, calls + 1) ELSE requests
  /\ UNCHANGED <<link, stream, replies, recvstr, result>>

(* Faulty variant of Send: the command goes out without its ENDCHAR, and   *)
(* the printer process waits for the rest of it.                           *)
SendUnterminated(c) ==
  /\ ~InCall /\ calls < MaxCalls
  /\ link # "none"
  /\ calls' = calls + 1
  /\ call' = [id |-> calls + 1, cmd |-> c]
  /\ recvstr' = <<>>
  /\ UNCHANGED <<link, requests, stream, replies, result>>

(* send() succeeds, and catchResponse() clears recvstr.  The first send()  *)
(* after the peer has gone may still succeed: the command goes nowhere.    *)
Send(c) ==
  /\ ~InCall /\ calls < MaxCalls
  /\ link # "none"
  /\ calls' = calls + 1
  /\ call' = [id |-> calls + 1, cmd |-> c]
  /\ requests' = IF link = "up" THEN Append(requests, calls + 1) ELSE requests
  /\ recvstr' = <<>>
  /\ UNCHANGED <<link, stream, replies, result>>

(* The first ENDCHAR of what has arrived is at position m.                 *)
EndAt(m) == /\ m \in 1..Len(stream)
            /\ stream[m] = End
            /\ \A k \in 1..(m - 1) : stream[k] # End

Rest(n) == SubSeq(stream, n + 1, Len(stream))

(* Faulty variants of the three ways recv() ends: one recv() is taken for  *)
(* a whole answer; the ENDCHAR is kept in the text; a closed connection    *)
(* ends an answer; it makes recv() try again.                              *)
RecvOnce(n) ==
  LET got == recvstr \o SubSeq(stream, 1, n)
  IN  /\ InCall
      /\ n \in 1..Len(stream)
      /\ \A k \in 1..n : stream[k] # End
      /\ recvstr' = got
      /\ stream' = Rest(n)
      /\ Finish(call.id, call.cmd, got, Succeeds(call.cmd, Meaning(got)))
      /\ UNCHANGED <<link, requests, replies, calls>>

RecvKeepsEnd(n, m) ==
  LET got == recvstr \o SubSeq(stream, 1, m)
  IN  /\ InCall
      /\ n \in 1..Len(stream) /\ m <= n /\ EndAt(m)
      /\ recvstr' = got
      /\ stream' = Rest(n)
      /\ Finish(call.id, call.cmd, got, Succeeds(call.cmd, Meaning(got)))
      /\ UNCHANGED <<link, requests, replies, calls>>

RecvClosedIsEnd ==
  /\ InCall /\ link = "lost" /\ stream = <<>>
  /\ Finish(call.id, call.cmd, recvstr, Succeeds(call.cmd, "other"))
  /\ UNCHANGED <<link, requests, stream, replies, calls, recvstr>>

RecvClosedRetries ==
  /\ InCall /\ link = "lost" /\ stream = <<>>
  /\ UNCHANGED vars

(* Faulty variant of RecvMore: the chunk is read and stays in the stream.   *)
RecvPeeks(n) ==
  /\ InCall
  /\ n \in 1..Len(stream)
  /\ \A k \in 1..n : stream[k] # End
  /\ recvstr' = recvstr \o SubSeq(stream, 1, n)
  /\ UNCHANGED <<link, requests, stream, replies, calls, call, result>>

(* recv() returns n tokens without ENDCHAR: keep them and call recv again. *)
RecvMore(n) ==
  /\ InCall
  /\ n \in 1..Len(stream)
  /\ \A k \in 1..n : stream[k] # End
  /\ recvstr' = recvstr \o SubSeq(stream, 1, n)
  /\ stream' = Rest(n)
  /\ UNCHANGED <<link, requests, replies, calls, call, result>>

(* recv() returns n tokens, the first ENDCHAR among them at m: the text    *)
(* before it completes recvstr; what follows it in this chunk is dropped.  *)
RecvEnd(n, m) ==
  LET got == recvstr \o SubSeq(stream, 1, m - 1)
  IN  /\ InCall
      /\ n \in 1..Len(stream) /\ m <= n /\ EndAt(m)
      /\ recvstr' = got
      /\ stream' = Rest(n)
      /\ Finish(call.id, call.cmd, got, Succeeds(call.cmd, Meaning(got)))
      /\ UNCHANGED <<link, requests, replies, calls>>

(* recv() returns 0 or an error once everything that arrived is consumed.  *)
RecvClosed ==
  /\ InCall /\ link = "lost" /\ stream = <<>>
  /\ Finish(call.id, call.cmd, recvstr, FALSE)
  /\ UNCHANGED <<link, requests, stream, replies, calls, recvstr>>

(* The printer process carries out the oldest command and answers it.      *)
Serve(reply) ==
  /\ link = "up" /\ requests # <<>>
  /\ replies' = [i \in DOMAIN replies \cup {Head(requests)} |->
                   IF i = Head(requests) THEN reply ELSE replies[i]]
  /\ stream' = stream \o Answer(Head(requests))
  /\ requests' = Tail(requests)
  /\ UNCHANGED <<link, calls, call, recvstr, result>>

(* The printer process dies: unread commands are gone, and only some of    *)
(* what it sent still arrives.                                             *)
LoseLink(n) ==
  /\ link = "up" /\ n <= Len(stream)
  /\ link' = "lost"
  /\ requests' = <<>>
  /\ stream' = SubSeq(stream, 1, n)
  /\ UNCHANGED <<replies, calls, call, recvstr, result>>

Receive == \/ \E n \in 1..RecvLen : RecvMore(n) \/ \E m \in 1..n : RecvEnd(n, m)
           \/ RecvClosed
Program == (\E c \in Commands : SendFails(c) \/ Send(c)) \/ Receive
Printer == (\E reply \in Replies : Serve(reply))
             \/ (\E n \in 0..Len(stream) : LoseLink(n))

Next == Program \/ Printer

Spec == Init /\ [][Next]_vars

(* A call in progress blocks its thread in recv(), so the only thing it    *)
(* can do is receive; the printer process answers every command it reads.  *)
Fairness == /\ WF_vars(Receive)
            /\ WF_vars(\E reply \in Replies : Serve(reply))
FairSpec == Spec /\ Fairness

-----------------------------------------------------------------------------
(* Each variable has its type.  In particular recvstr and the texts that   *)
(* methods return hold no ENDCHAR, and no answer exists before its call.   *)
TypeOK ==
  /\ link \in {"none", "up", "lost"}
  /\ requests \in Seq(CallIds)
  /\ stream \in Seq(Tokens)
  /\ calls \in 0..MaxCalls
  /\ DOMAIN replies \subseteq 1..calls
  /\ replies \in [DOMAIN replies -> Replies]
  /\ call \in [id : CallIds, cmd : Commands] \cup {NoCall}
  /\ recvstr \in Seq(CallIds)
  /\ result \in [id : CallIds, cmd : Commands, got : Seq(CallIds), ok : BOOLEAN]
                   \cup {NoResult}

(* A method that reports success has read the whole answer of the printer  *)
(* process to its own command: not a fragment of it, not the answer to an  *)
(* earlier command, however recv() cut the stream (catchResponse()).       *)
OwnAnswer ==
  result.ok => result.got = [k \in 1..AnswerLen |-> result.id]

(* What a method reports is what the printer process decided: a success is *)
(* always the printer's, and while the connection lives so is a failure.   *)
PrintersVerdict ==
  /\ result.ok => result.id \in DOMAIN replies
  /\ (result.ok \/ (link = "up" /\ result # NoResult)) =>
       (result.id \in DOMAIN replies
          /\ result.ok = Succeeds(result.cmd, replies[result.id]))

(* Between two calls nothing is in flight.  The protocol numbers nothing,  *)
(* so one token left behind would be taken for the next command's answer.  *)
NothingInFlight == ~InCall => requests = <<>> /\ stream = <<>>

(* The program and the printer process never wait for each other: while a  *)
(* method is in recv(), bytes are on their way to it, or its command is    *)
(* still to be read, or recv() will report that the connection is gone.    *)
NeverBothWait ==
  InCall => stream # <<>> \/ link = "lost" \/ (link = "up" /\ requests # <<>>)

(* How many steps a call in progress can still take: every byte that is to *)
(* come, the answer to a command not yet read, and one loss of the link.   *)
StepsLeft == Len(stream) + (AnswerLen + 2) * Len(requests)
               + (IF link = "up" THEN 1 ELSE 0)

(* No step inside a call is lost time: each uses up one that was left, so  *)
(* catchResponse() cannot loop, however recv() cuts the stream.            *)
CallAdvances == [][InCall /\ InCall' => StepsLeft' < StepsLeft]_vars

(* A blocked method returns: by an answer or by the loss of the printer    *)
(* process.  recv() has no timeout, so this rests on both being fair.      *)
EveryCallReturns == InCall ~> ~InCall

-----------------------------------------------------------------------------
(* The contract the rest of the program relies on, see Comm3DPService.     *)
Service3DP == INSTANCE Comm3DPService WITH
  broken <- (link # "up"), pending <- call, carriedOut <- replies,
  asked <- calls,
  outcome <- [id |-> result.id, cmd |-> result.cmd, ok |-> result.ok]

ImplementsService == Service3DP!Spec
============================================================================

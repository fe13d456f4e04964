--------------------------- MODULE Comm3DPService ---------------------------
(***************************************************************************)
(* What a Comm3DP object promises its callers, without bytes or buffers:   *)
(* one command at a time is put to the printer process, which carries it   *)
(* out at most once, and the method reports the printer's own answer.      *)
(* Only when the connection is broken may a method fail on its own; then   *)
(* the command may or may not have been carried out.                       *)
(***************************************************************************)
EXTENDS Integers, Comm3DPCommands

CONSTANTS Commands, MaxCalls

VARIABLES broken, pending, carriedOut, asked, outcome

svars == <<broken, pending, carriedOut, asked, outcome>>

Nothing == [id |-> 0, cmd |-> "none"]

Init ==
  /\ broken \in BOOLEAN
  /\ pending = Nothing
  /\ carriedOut = [i \in {} |-> "other"]
  /\ asked = 0
  /\ outcome = [id |-> 0, cmd |-> "none", ok |-> FALSE]

Report(i, c, ok) == /\ pending' = Nothing
                    /\ outcome' = [id |-> i, cmd |-> c, ok |-> ok]

Ask(c) ==
  /\ pending = Nothing /\ asked < MaxCalls
  /\ asked' = asked + 1
  /\ pending' = [id |-> asked + 1, cmd |-> c]
  /\ UNCHANGED <<broken, carriedOut, outcome>>

(* The command never leaves the program.                                   *)
Refuse(c) ==
  /\ pending = Nothing /\ asked < MaxCalls
  /\ broken
  /\ asked' = asked + 1
  /\ Report(asked + 1, c, FALSE)
  /\ UNCHANGED <<broken, carriedOut>>

CarryOut(reply) ==
  /\ ~broken
  /\ pending # Nothing /\ pending.id \notin DOMAIN carriedOut
  /\ carriedOut' = [i \in DOMAIN carriedOut \cup {pending.id} |->
                      IF i = pending.id THEN reply ELSE carriedOut[i]]
  /\ UNCHANGED <<broken, pending, asked, outcome>>

Return ==
  /\ pending # Nothing /\ pending.id \in DOMAIN carriedOut
  /\ Report(pending.id, pending.cmd, Succeeds(pending.cmd, carriedOut[pending.id]))
  /\ UNCHANGED <<broken, carriedOut, asked>>

GiveUp ==
  /\ pending # Nothing
  /\ broken
  /\ Report(pending.id, pending.cmd, FALSE)
  /\ UNCHANGED <<broken, carriedOut, asked>>

Break ==
  /\ ~broken /\ broken' = TRUE
  /\ UNCHANGED <<pending, carriedOut, asked, outcome>>

Next == \/ \E c \in Commands : Ask(c) \/ Refuse(c)
        \/ \E reply \in Replies : CarryOut(reply)
        \/ Return \/ GiveUp \/ Break

Spec == Init /\ [][Next]_svars
=============================================================================

----------------------------- MODULE InkStatus -----------------------------
(***************************************************************************)
(* How inkStatus(), inkStatus2() and inkLevel() read the answer of the     *)
(* printer process (comm3DP.cpp): tokenJSON() cuts the text into tokens,   *)
(* dropping all JSON punctuation, and a loop looks for the names of eight  *)
(* fields and takes the token after each as its value.                     *)
(*                                                                         *)
(* The text is abstracted to its tokens.  An answer gives some fields, in  *)
(* any order, each with a number or "NA"; the last value may be missing,   *)
(* as in an answer that was cut off.                                       *)
(***************************************************************************)
EXTENDS Integers, Sequences, FiniteSets, SequencesExt

CONSTANTS Known,    \* the names of the fields that are looked for
          Unknown,  \* the names of other fields
          Numbers   \* the numbers that occur as values

ASSUME InkAssumption ==
  /\ Numbers \subseteq Nat
  /\ Known \cap Unknown = {}
  /\ IsFiniteSet(Known \cup Unknown)

VARIABLES
  given,   \* the answer: field -> value
  tokens,  \* tokens not read yet
  val,     \* val: known field -> number, -1 as long as it was not read
  result   \* "reading", "ok" or "failed"

vars == <<given, tokens, val, result>>

NA      == -1  \* the text "NA" or any other text that is not a number
Missing == -2  \* the answer ends before the value
Values  == Numbers \cup {NA, Missing}
Name(f)  == [kind |-> "name", of |-> f]
Value(v) == [kind |-> "value", of |-> v]

(* The tokens of the fields in the order of the sequence s.                *)
Tokens(s, value) ==
  [k \in 1..(2 * Len(s) - (IF \E f \in DOMAIN value : value[f] = Missing THEN 1 ELSE 0)) |->
     IF k % 2 = 1 THEN Name(s[(k + 1) \div 2]) ELSE Value(value[s[k \div 2]])]

-----------------------------------------------------------------------------
Init ==
  /\ \E F \in SUBSET (Known \cup Unknown) : given \in [F -> Values]
  /\ \E s \in SetToSeqs(DOMAIN given) :
       /\ \A k \in 1..(Len(s) - 1) : given[s[k]] # Missing
       /\ tokens = Tokens(s, given)
  /\ val = [f \in Known |-> -1]
  /\ result = "reading"

(* The loop ends when no token is left or every field has been read.       *)
Done == tokens = <<>> \/ \A f \in Known : val[f] >= 0

IsName(t) == t.kind = "name" /\ t.of \in Known

(* The token after the name is a value made of digits.                     *)
NumberFollows ==
  /\ Len(tokens) > 1
  /\ tokens[2].kind = "value" /\ tokens[2].of \in Numbers

Skip ==
  /\ result = "reading" /\ ~Done
  /\ ~IsName(Head(tokens))
  /\ tokens' = Tail(tokens)
  /\ UNCHANGED <<given, val, result>>

(* Faulty variants: a field that cannot be read is passed over; its value  *)
(* is taken for the next token of the loop; a field goes to all unread.    *)
RefusePassesOver ==
  /\ result = "reading" /\ ~Done
  /\ IsName(Head(tokens))
  /\ ~NumberFollows
  /\ tokens' = Tail(tokens)
  /\ UNCHANGED <<given, val, result>>

ReadAll ==
  /\ result = "reading" /\ ~Done
  /\ IsName(Head(tokens))
  /\ NumberFollows
  /\ val' = [f \in Known |-> IF val[f] < 0 THEN tokens[2].of ELSE val[f]]
  /\ tokens' = SubSeq(tokens, 3, Len(tokens))
  /\ UNCHANGED <<given, result>>

(* The value is missing, "NA" or not a number.                             *)
Refuse ==
  /\ result = "reading" /\ ~Done
  /\ IsName(Head(tokens))
  /\ ~NumberFollows
  /\ result' = "failed"
  /\ tokens' = SubSeq(tokens, 3, Len(tokens))
  /\ UNCHANGED <<given, val>>

Read ==
  /\ result = "reading" /\ ~Done
  /\ IsName(Head(tokens))
  /\ NumberFollows
  /\ val' = [val EXCEPT ![Head(tokens).of] = tokens[2].of]
  /\ tokens' = SubSeq(tokens, 3, Len(tokens))
  /\ UNCHANGED <<given, result>>

(* The method computes with val, the -1 of a field that was not given      *)
(* included, and reports success.                                          *)
Report ==
  /\ result = "reading" /\ Done
  /\ result' = "ok"
  /\ UNCHANGED <<given, tokens, val>>

Next == Skip \/ Refuse \/ Read \/ Report

Spec == Init /\ [][Next]_vars
-----------------------------------------------------------------------------
Readable(f) == given[f] \in Numbers

(* The method fails exactly when the answer gives a field it looks for a   *)
(* value it cannot read: a field it does not know never makes it fail,     *)
(* whatever the order, and an unreadable one is never passed over.         *)
FailsOnUnreadable ==
  /\ result = "failed" => \E f \in DOMAIN given \cap Known : ~Readable(f)
  /\ result = "ok" => \A f \in DOMAIN given \cap Known : Readable(f)

(* On success each field holds its own value, and -1 if the answer did not *)
(* give it: positions, punctuation and other fields do not mix them up.    *)
OwnValue ==
  result = "ok" =>
    \A f \in Known : val[f] = IF f \in DOMAIN given THEN given[f] ELSE -1
============================================================================

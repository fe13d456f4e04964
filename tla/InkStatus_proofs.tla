-------------------------- MODULE InkStatus_proofs --------------------------
(***************************************************************************)
(* Proofs about InkStatus, for every set of fields and of numbers: a field *)
(* gets its own value and no other, and the method fails exactly when a    *)
(* field it looks for has no value it can read.                            *)
(*                                                                         *)
(* The invariant remembers the order of the fields in the answer and how   *)
(* far it was read: the tokens left are its end, the fields passed hold    *)
(* their values, the others nothing yet.                                   *)
(***************************************************************************)
EXTENDS InkStatus, FunctionTheorems, FiniteSetTheorems, TLAPS

(* An order of the fields of the answer, the missing value at its end.     *)
Order(s, n) ==
  /\ n \in Nat
  /\ s \in [1..n -> DOMAIN given]
  /\ \A k, l \in 1..n : k # l => s[k] # s[l]
  /\ \A f \in DOMAIN given : \E k \in 1..n : s[k] = f
  /\ \A k \in 1..n : given[s[k]] = Missing => k = n

LastToken(n) == 2 * n - (IF \E f \in DOMAIN given : given[f] = Missing THEN 1 ELSE 0)

(* The k-th token of the answer.                                           *)
Nth(s, k) ==
  IF k % 2 = 1 THEN Name(s[(k + 1) \div 2]) ELSE Value(given[s[k \div 2]])

AllTokens(s, n) == {Nth(s, k) : k \in 1..LastToken(n)}

(* The first p tokens were read: field k was passed when its name was.     *)
Position(s, n, p) ==
  /\ p \in 0..LastToken(n)
  /\ tokens = [k \in 1..(LastToken(n) - p) |-> Nth(s, p + k)]
  /\ \A k \in 1..n : s[k] \in Known =>
       IF 2 * k - 1 <= p
         THEN 2 * k <= p /\ given[s[k]] \in Numbers /\ val[s[k]] = given[s[k]]
         ELSE val[s[k]] = -1

Answer == /\ DOMAIN given \subseteq Known \cup Unknown
          /\ given \in [DOMAIN given -> Values]

Rest ==
  /\ val \in [Known -> Numbers \cup {-1}]
  /\ \A f \in Known \ DOMAIN given : val[f] = -1

Midway == \E s, n, p : Order(s, n) /\ Position(s, n, p)

IInv ==
  /\ Answer
  /\ Rest
  /\ result \in {"reading", "ok", "failed"}
  /\ result = "reading" => Midway
  /\ FailsOnUnreadable
  /\ OwnValue

-----------------------------------------------------------------------------
(* What SetToSeqs gives: an order of all members, each once.               *)
LEMMA Orders ==
  ASSUME NEW S, IsFiniteSet(S), NEW s \in SetToSeqs(S)
  PROVE  /\ Cardinality(S) \in Nat
         /\ s \in [1..Cardinality(S) -> S]
         /\ \A k, l \in 1..Cardinality(S) : k # l => s[k] # s[l]
         /\ \A f \in S : \E k \in 1..Cardinality(S) : s[k] = f
         /\ Len(s) = Cardinality(S)
<1> DEFINE n == Cardinality(S)
<1>1. n \in Nat
  BY FS_CardinalityType
<1>2. s \in [1..n -> S] /\ \A k, l \in 1..n : k # l => s[k] # s[l]
  BY DEF SetToSeqs
<1>3. Len(s) = n
  BY <1>1, <1>2
<1>4. s \in Injection(1..n, S)
  BY <1>2, Zenon DEF Injection, IsInjective
<1>5. IsFiniteSet(1..n) /\ Cardinality(1..n) = n
  BY <1>1, FS_Interval
<1>6. s \in Surjection(1..n, S)
  BY <1>4, <1>5, FS_Injection
<1>7. \A f \in S : \E k \in 1..n : s[k] = f
  BY <1>6 DEF Surjection
<1> QED
  BY <1>1, <1>2, <1>3, <1>7

(* The first token of those left is the name or the value it should be.    *)
LEMMA Tokened ==
  ASSUME NEW s, NEW n, NEW p, Order(s, n), Position(s, n, p), Answer
  PROVE  /\ LastToken(n) \in Int
         /\ LastToken(n) = 2 * n \/ LastToken(n) = 2 * n - 1
         /\ p \in Nat
         /\ tokens \in Seq(AllTokens(s, n))
         /\ Len(tokens) = LastToken(n) - p
         /\ \A k \in 1..Len(tokens) : tokens[k] = Nth(s, p + k)
<1>1. n \in Nat
  BY DEF Order
<1>2. LastToken(n) \in Int /\ (LastToken(n) = 2 * n \/ LastToken(n) = 2 * n - 1)
  BY <1>1 DEF LastToken
<1>3. p \in 0..LastToken(n) /\ tokens = [k \in 1..(LastToken(n) - p) |-> Nth(s, p + k)]
  BY DEF Position
<1>4. p \in Nat /\ LastToken(n) - p \in Nat
  BY <1>2, <1>3
<1> DEFINE T == AllTokens(s, n)
           m == LastToken(n) - p
<1>5. \A k \in 1..m : Nth(s, p + k) \in T
  <2> SUFFICES ASSUME NEW k \in 1..m PROVE p + k \in 1..LastToken(n)
    BY DEF AllTokens
  <2> QED
    BY <1>2, <1>4
<1> HIDE DEF T
<1>6. tokens \in [1..m -> T]
  BY <1>3, <1>5
<1>7. tokens \in Seq(T) /\ Len(tokens) = m
  BY <1>4, <1>6
<1>8. \A k \in 1..Len(tokens) : tokens[k] = Nth(s, p + k)
  BY <1>3, <1>7
<1> QED
  BY <1>2, <1>4, <1>7, <1>8 DEF T

(* The token at an odd place is a name, the one at an even place a value.  *)
LEMMA Places ==
  ASSUME NEW s, NEW n, Order(s, n), NEW k \in 1..LastToken(n)
  PROVE  \/ \E j \in 1..n : k = 2 * j - 1 /\ Nth(s, k) = Name(s[j])
         \/ \E j \in 1..n : k = 2 * j /\ Nth(s, k) = Value(given[s[j]])
<1>1. n \in Nat
  BY DEF Order
<1>2. LastToken(n) \in Int /\ LastToken(n) <= 2 * n
  BY <1>1 DEF LastToken
<1>3. k \in Nat /\ k >= 1 /\ k <= 2 * n
  BY <1>1, <1>2
<1>4. CASE k % 2 = 1
  <2> DEFINE j == (k + 1) \div 2
  <2>1. j \in 1..n /\ k = 2 * j - 1
    BY <1>1, <1>3, <1>4
  <2>2. Nth(s, k) = Name(s[j])
    BY <1>4 DEF Nth
  <2> QED
    BY <2>1, <2>2
<1>5. CASE k % 2 # 1
  <2> DEFINE j == k \div 2
  <2>1. j \in 1..n /\ k = 2 * j
    BY <1>1, <1>3, <1>5
  <2>2. Nth(s, k) = Value(given[s[j]])
    BY <1>5 DEF Nth
  <2> QED
    BY <2>1, <2>2
<1> QED
  BY <1>4, <1>5

-----------------------------------------------------------------------------
LEMMA InitInvariant == Init => IInv
<1> SUFFICES ASSUME Init PROVE IInv
  OBVIOUS
<1>1. PICK F \in SUBSET (Known \cup Unknown) : given \in [F -> Values]
  BY DEF Init
<1>2. Answer
  BY <1>1 DEF Answer
<1>3. IsFiniteSet(DOMAIN given)
  BY <1>2, FS_Subset, InkAssumption DEF Answer
<1>4. PICK s \in SetToSeqs(DOMAIN given) :
        /\ \A k \in 1..(Len(s) - 1) : given[s[k]] # Missing
        /\ tokens = Tokens(s, given)
  BY DEF Init
<1> DEFINE n == Cardinality(DOMAIN given)
<1>5. n \in Nat /\ s \in [1..n -> DOMAIN given] /\ Len(s) = n
  BY <1>3, Orders
<1>5a. \A k, l \in 1..n : k # l => s[k] # s[l]
  BY <1>3, Orders
<1>5b. \A f \in DOMAIN given : \E k \in 1..n : s[k] = f
  BY <1>3, Orders
<1> HIDE DEF n
<1>6. \A k \in 1..n : given[s[k]] = Missing => k = n
  BY <1>4, <1>5
<1>7. Order(s, n)
  BY <1>5, <1>5a, <1>5b, <1>6 DEF Order
<1>8. val = [f \in Known |-> -1] /\ result = "reading"
  BY DEF Init
<1>9. tokens = [k \in 1..(LastToken(n) - 0) |-> Nth(s, 0 + k)]
  <2>1. LastToken(n) \in Int
    BY <1>5 DEF LastToken
  <2>2. tokens = [k \in 1..LastToken(n) |-> Nth(s, k)]
    BY <1>4, <1>5 DEF Tokens, LastToken, Nth
  <2>3. LastToken(n) - 0 = LastToken(n)
    BY <2>1
  <2>4. \A k \in 1..LastToken(n) : 0 + k = k
    BY <2>1
  <2> QED
    BY <2>2, <2>3, <2>4
<1>10. 0 \in 0..LastToken(n)
  <2>1. CASE n = 0
    BY <1>5b, <2>1 DEF LastToken
  <2>2. CASE n # 0
    BY <1>5, <2>2 DEF LastToken
  <2> QED
    BY <2>1, <2>2
<1>11. Position(s, n, 0)
  <2>1. \A k \in 1..n : s[k] \in Known => ~(2 * k - 1 <= 0) /\ val[s[k]] = -1
    BY <1>5, <1>8
  <2> QED
    BY <1>9, <1>10, <2>1 DEF Position
<1>12. Rest
  BY <1>8 DEF Rest
<1> QED
  BY <1>2, <1>7, <1>8, <1>11, <1>12
  DEF IInv, Midway, FailsOnUnreadable, OwnValue

(* The fields named by the first r tokens hold their values, the others    *)
(* hold none.                                                              *)
ReadUpTo(s, n, r, v) ==
  \A k \in 1..n : s[k] \in Known =>
    IF 2 * k - 1 <= r
      THEN 2 * k <= r /\ given[s[k]] \in Numbers /\ v[s[k]] = given[s[k]]
      ELSE v[s[k]] = -1

(* Reading on: q tokens are dropped, and the fields hold what they should. *)
LEMMA Advance ==
  ASSUME NEW s, NEW n, NEW p, Order(s, n), Position(s, n, p), Answer,
         NEW q \in 1..2, p + q <= LastToken(n),
         given' = given,
         tokens' = SubSeq(tokens, q + 1, Len(tokens)),
         ReadUpTo(s, n, p + q, val')
  PROVE  /\ Order(s, n)'
         /\ Position(s, n, p + q)'
<1>1. Order(s, n)'
  BY DEF Order
<1>2. LastToken(n)' = LastToken(n) /\ \A k : Nth(s, k)' = Nth(s, k)
  BY DEF LastToken, Nth
<1>3. LastToken(n) \in Int /\ p \in Nat /\ Len(tokens) = LastToken(n) - p
  BY Tokened
<1>4. p + q \in 0..LastToken(n)
  BY <1>3
<1> DEFINE m == LastToken(n) - (p + q)
           T == AllTokens(s, n)
<1>5. tokens \in Seq(T) /\ \A k \in 1..Len(tokens) : tokens[k] = Nth(s, p + k)
  BY Tokened
<1> HIDE DEF T
<1>6. tokens' = [k \in 1..m |-> tokens[k + q]]
  <2>1. Len(tokens) - (q + 1) + 1 = m
    <3>1. q \in Int
      OBVIOUS
    <3>2. (LastToken(n) - p) - (q + 1) + 1 = LastToken(n) - (p + q)
      BY <1>3, <3>1
    <3> QED
      BY <1>3, <3>2
  <2>2. tokens' = [k \in 1..(Len(tokens) - (q + 1) + 1) |-> tokens[(q + 1) + k - 1]]
    BY <1>5, <1>3
  <2>3. \A k \in 1..m : (q + 1) + k - 1 = k + q
    BY <1>3
  <2> QED
    BY <2>1, <2>2, <2>3
<1>7. \A k \in 1..m : tokens[k + q] = Nth(s, (p + q) + k)
  <2> SUFFICES ASSUME NEW k \in 1..m PROVE tokens[k + q] = Nth(s, (p + q) + k)
    OBVIOUS
  <2>0. q \in Nat /\ q >= 1 /\ k \in Nat /\ k >= 1 /\ k <= LastToken(n) - (p + q)
    BY <1>3
  <2>1. k + q \in 1..Len(tokens) /\ p + (k + q) = (p + q) + k
    <3>1. k + q \in 1..(LastToken(n) - p)
      BY <1>3, <2>0
    <3>2. p + (k + q) = (p + q) + k
      BY <1>3, <2>0
    <3> QED
      BY <1>3, <3>1, <3>2
  <2> QED
    BY <1>5, <2>1
<1>8. tokens' = [k \in 1..m |-> Nth(s, (p + q) + k)]
  BY <1>6, <1>7
<1>9. p' = p /\ q' = q /\ n' = n /\ s' = s
  OBVIOUS
<1>10. \A k \in 1..n : s[k] \in Known =>
           IF 2 * k - 1 <= p + q
             THEN 2 * k <= p + q /\ given'[s[k]] \in Numbers /\ val'[s[k]] = given'[s[k]]
             ELSE val'[s[k]] = -1
  BY DEF ReadUpTo
<1> QED
  BY <1>1, <1>2, <1>4, <1>8, <1>10 DEF Position

(* At a name the next two tokens are those of one field.                   *)
LEMMA AtName ==
  ASSUME NEW s, NEW n, NEW p, Order(s, n), Position(s, n, p), Answer,
         tokens # <<>>, IsName(Head(tokens))
  PROVE  \E j \in 1..n :
           /\ p + 1 = 2 * j - 1 /\ p + 1 <= LastToken(n)
           /\ Head(tokens).of = s[j] /\ s[j] \in Known
           /\ s[j] \in DOMAIN given
           /\ Len(tokens) > 1 => tokens[2] = Value(given[s[j]]) /\ p + 2 <= LastToken(n)
           /\ Len(tokens) = 1 => given[s[j]] = Missing
<1>1. LastToken(n) \in Int /\ (LastToken(n) = 2 * n \/ LastToken(n) = 2 * n - 1) /\ p \in Nat
  BY Tokened
<1>2. Len(tokens) = LastToken(n) - p /\ \A k \in 1..Len(tokens) : tokens[k] = Nth(s, p + k)
  BY Tokened
<1>3. tokens \in Seq(AllTokens(s, n))
  BY Tokened
<1>4. Len(tokens) >= 1 /\ Head(tokens) = tokens[1]
  BY <1>3
<1>5. p + 1 \in 1..LastToken(n) /\ Head(tokens) = Nth(s, p + 1)
  BY <1>1, <1>2, <1>4
<1>6. n \in Nat
  BY DEF Order
<1>7. PICK j \in 1..n : p + 1 = 2 * j - 1 /\ Nth(s, p + 1) = Name(s[j])
  <2>1. CASE \E j \in 1..n : p + 1 = 2 * j - 1 /\ Nth(s, p + 1) = Name(s[j])
    BY <2>1
  <2>2. CASE \E j \in 1..n : p + 1 = 2 * j /\ Nth(s, p + 1) = Value(given[s[j]])
    BY <2>2, <1>5 DEF IsName, Value
  <2> QED
    BY <1>5, <2>1, <2>2, Places
<1>8. Head(tokens).of = s[j] /\ s[j] \in Known
  BY <1>5, <1>7 DEF IsName, Name
<1>9. s[j] \in DOMAIN given
  BY DEF Order
<1>10. ASSUME Len(tokens) > 1
       PROVE tokens[2] = Value(given[s[j]]) /\ p + 2 <= LastToken(n)
  <2>1. p + 2 \in 1..LastToken(n) /\ tokens[2] = Nth(s, p + 2)
    BY <1>1, <1>2, <1>10
  <2>2. ~ \E l \in 1..n : p + 2 = 2 * l - 1
    BY <1>1, <1>6, <1>7
  <2>3. PICK l \in 1..n : p + 2 = 2 * l /\ Nth(s, p + 2) = Value(given[s[l]])
    BY <2>1, <2>2, Places
  <2>4. l = j
    BY <1>1, <1>6, <1>7, <2>3
  <2> QED
    BY <1>1, <2>1, <2>3, <2>4
<1>11. ASSUME Len(tokens) = 1
       PROVE given[s[j]] = Missing
  <2>0. LastToken(n) - p = 1
    BY <1>2, <1>11
  <2>1. LastToken(n) = 2 * j - 1
    BY <1>1, <1>7, <2>0
  <2>2. j = n /\ LastToken(n) = 2 * n - 1
    BY <1>1, <1>6, <2>1
  <2>3. \E f \in DOMAIN given : given[f] = Missing
    BY <1>6, <2>2 DEF LastToken
  <2>4. PICK k \in 1..n : given[s[k]] = Missing
    BY <2>3 DEF Order
  <2>5. k = n
    BY <2>4 DEF Order
  <2> QED
    BY <2>2, <2>4, <2>5
<1> QED
  BY <1>5, <1>7, <1>8, <1>9, <1>10, <1>11

-----------------------------------------------------------------------------
LEMMA SkipInvariant == IInv /\ Skip => IInv'
<1> SUFFICES ASSUME IInv, Skip PROVE IInv'
  OBVIOUS
<1>1. given' = given /\ val' = val /\ result' = "reading" /\ tokens # <<>>
  BY DEF Skip, Done
<1>2. ~IsName(Head(tokens)) /\ tokens' = Tail(tokens)
  BY DEF Skip
<1>3. Answer /\ Rest /\ Midway
  BY DEF IInv, Skip
<1>4. PICK s, n, p : Order(s, n) /\ Position(s, n, p)
  BY <1>3 DEF Midway
<1>5. LastToken(n) \in Int /\ p \in Nat /\ Len(tokens) = LastToken(n) - p
  BY <1>3, <1>4, Tokened
<1>6. tokens \in Seq(AllTokens(s, n))
  BY <1>3, <1>4, Tokened
<1>7. \A k \in 1..Len(tokens) : tokens[k] = Nth(s, p + k)
  BY <1>3, <1>4, Tokened
<1>8. Len(tokens) \in Nat /\ Len(tokens) >= 1 /\ Head(tokens) = tokens[1]
  BY <1>1, <1>6
<1>9. p + 1 \in 1..LastToken(n) /\ Head(tokens) = Nth(s, p + 1)
  BY <1>5, <1>7, <1>8
<1>10. tokens' = SubSeq(tokens, 1 + 1, Len(tokens))
  BY <1>2, <1>6, <1>8
<1>11. n \in Nat
  BY <1>4 DEF Order
<1>12. PICK j \in 1..n : (p + 1 = 2 * j - 1 \/ p + 1 = 2 * j) /\ s[j] \notin Known
  <2>1. CASE \E j \in 1..n : p + 1 = 2 * j - 1 /\ Nth(s, p + 1) = Name(s[j])
    BY <1>2, <1>9, <2>1 DEF IsName, Name
  <2>2. CASE \E j \in 1..n : p + 1 = 2 * j /\ Nth(s, p + 1) = Value(given[s[j]])
    <3>1. PICK j \in 1..n : p + 1 = 2 * j
      BY <2>2
    <3>2. 2 * j - 1 <= p /\ ~(2 * j <= p)
      BY <1>5, <1>11, <3>1
    <3>3. s[j] \notin Known
      BY <1>4, <3>2 DEF Position
    <3> QED
      BY <3>1, <3>3
  <2> QED
    BY <1>4, <1>9, <2>1, <2>2, Places
<1>13. \A k \in 1..n : s[k] \in Known =>
         IF 2 * k - 1 <= p + 1
           THEN 2 * k <= p + 1 /\ given[s[k]] \in Numbers /\ val'[s[k]] = given[s[k]]
           ELSE val'[s[k]] = -1
  <2> SUFFICES ASSUME NEW k \in 1..n, s[k] \in Known
               PROVE IF 2 * k - 1 <= p + 1
                       THEN 2 * k <= p + 1 /\ given[s[k]] \in Numbers /\ val'[s[k]] = given[s[k]]
                       ELSE val'[s[k]] = -1
    OBVIOUS
  <2>1. IF 2 * k - 1 <= p
          THEN 2 * k <= p /\ given[s[k]] \in Numbers /\ val[s[k]] = given[s[k]]
          ELSE val[s[k]] = -1
    BY <1>4 DEF Position
  <2>2. k # j
    BY <1>12
  <2>3. 2 * k - 1 <= p + 1 => 2 * k - 1 <= p
    BY <1>5, <1>11, <1>12, <2>2
  <2> QED
    BY <1>1, <1>5, <1>11, <2>1, <2>3
<1>14. Midway'
  <2>1. 1 \in 1..2 /\ p + 1 <= LastToken(n)
    BY <1>5, <1>9
  <2>2. ReadUpTo(s, n, p + 1, val')
    BY <1>13 DEF ReadUpTo
  <2>3. Order(s, n)' /\ Position(s, n, p + 1)'
    BY <1>1, <1>3, <1>4, <1>10, <2>1, <2>2, Advance
  <2> QED
    BY <2>3, ZenonT(60) DEF Midway
<1> QED
  BY <1>1, <1>3, <1>14
  DEF IInv, Answer, Rest, FailsOnUnreadable, OwnValue

LEMMA ReadInvariant == IInv /\ Read => IInv'
<1> SUFFICES ASSUME IInv, Read PROVE IInv'
  OBVIOUS
<1>1. given' = given /\ result' = "reading" /\ tokens # <<>>
  BY DEF Read, Done
<1>2. IsName(Head(tokens)) /\ tokens' = SubSeq(tokens, 3, Len(tokens))
  BY DEF Read
<1>3. Answer /\ Rest /\ Midway
  BY DEF IInv, Read
<1>4. PICK s, n, p : Order(s, n) /\ Position(s, n, p)
  BY <1>3 DEF Midway
<1>5. LastToken(n) \in Int /\ p \in Nat /\ n \in Nat
  BY <1>3, <1>4, Tokened DEF Order
<1>6. Len(tokens) > 1 /\ tokens[2].of \in Numbers
  BY DEF Read, NumberFollows
<1>7. PICK j \in 1..n :
        /\ p + 1 = 2 * j - 1
        /\ Head(tokens).of = s[j] /\ s[j] \in Known
        /\ s[j] \in DOMAIN given
        /\ tokens[2] = Value(given[s[j]]) /\ p + 2 <= LastToken(n)
  BY <1>1, <1>2, <1>3, <1>4, <1>6, AtName
<1>8. given[s[j]] \in Numbers
  BY <1>6, <1>7 DEF Value
<1>9. val' = [val EXCEPT ![s[j]] = given[s[j]]]
  <2>1. tokens[2].of = given[s[j]] /\ Head(tokens).of = s[j]
    BY <1>7 DEF Value
  <2>2. val' = [val EXCEPT ![Head(tokens).of] = tokens[2].of]
    BY DEF Read
  <2> QED
    BY <2>1, <2>2
<1>10. val \in [Known -> Numbers \cup {-1}]
  BY <1>3 DEF Rest
<1>11. \A k \in 1..n : s[k] \in Known =>
         IF 2 * k - 1 <= p + 2
           THEN 2 * k <= p + 2 /\ given[s[k]] \in Numbers /\ val'[s[k]] = given[s[k]]
           ELSE val'[s[k]] = -1
  <2> SUFFICES ASSUME NEW k \in 1..n, s[k] \in Known
               PROVE IF 2 * k - 1 <= p + 2
                       THEN 2 * k <= p + 2 /\ given[s[k]] \in Numbers /\ val'[s[k]] = given[s[k]]
                       ELSE val'[s[k]] = -1
    OBVIOUS
  <2>1. IF 2 * k - 1 <= p
          THEN 2 * k <= p /\ given[s[k]] \in Numbers /\ val[s[k]] = given[s[k]]
          ELSE val[s[k]] = -1
    BY <1>4 DEF Position
  <2>2. CASE k = j
    BY <1>5, <1>7, <1>8, <1>9, <1>10, <2>2
  <2>3. CASE k # j
    <3>1. s[k] # s[j]
      BY <1>4, <2>3 DEF Order
    <3>2. val'[s[k]] = val[s[k]]
      BY <1>9, <1>10, <3>1
    <3>3. 2 * k - 1 <= p + 2 => 2 * k - 1 <= p
      BY <1>5, <1>7, <2>3
    <3> QED
      BY <1>5, <2>1, <3>2, <3>3
  <2> QED
    BY <2>2, <2>3
<1>12. Midway'
  <2>1. tokens' = SubSeq(tokens, 2 + 1, Len(tokens))
    BY <1>2
  <2>2. 2 \in 1..2 /\ p + 2 <= LastToken(n)
    BY <1>7
  <2>3. Order(s, n) /\ Position(s, n, p) /\ Answer /\ given' = given
    BY <1>1, <1>3, <1>4
  <2>4. ReadUpTo(s, n, p + 2, val')
    BY <1>11 DEF ReadUpTo
  <2>5. Order(s, n)' /\ Position(s, n, p + 2)'
    BY <2>1, <2>2, <2>3, <2>4, Advance
  <2> QED
    BY <2>5, ZenonT(60) DEF Midway
<1>13. Rest'
  BY <1>1, <1>3, <1>7, <1>8, <1>9 DEF Rest
<1> QED
  BY <1>1, <1>3, <1>12, <1>13
  DEF IInv, Answer, FailsOnUnreadable, OwnValue

LEMMA RefuseInvariant == IInv /\ Refuse => IInv'
<1> SUFFICES ASSUME IInv, Refuse PROVE IInv'
  OBVIOUS
<1>1. given' = given /\ val' = val /\ result' = "failed" /\ tokens # <<>>
  BY DEF Refuse, Done
<1>2. IsName(Head(tokens))
  BY DEF Refuse
<1>3. Answer /\ Rest /\ Midway
  BY DEF IInv, Refuse
<1>4. PICK s, n, p : Order(s, n) /\ Position(s, n, p)
  BY <1>3 DEF Midway
<1>5. PICK j \in 1..n :
        /\ s[j] \in Known /\ s[j] \in DOMAIN given
        /\ Len(tokens) > 1 => tokens[2] = Value(given[s[j]])
        /\ Len(tokens) = 1 => given[s[j]] = Missing
  BY <1>1, <1>2, <1>3, <1>4, AtName
<1>6. tokens \in Seq(AllTokens(s, n))
  BY <1>3, <1>4, Tokened
<1>7. given[s[j]] \notin Numbers
  <2>1. CASE Len(tokens) > 1
    BY <1>5, <2>1 DEF Refuse, NumberFollows, Value
  <2>2. CASE ~(Len(tokens) > 1)
    <3>1. Len(tokens) \in Nat /\ Len(tokens) # 0
      BY <1>1, <1>6
    <3>2. \A l \in Nat : l # 0 /\ ~(l > 1) => l = 1
      OBVIOUS
    <3>3. Len(tokens) = 1
      BY <2>2, <3>1, <3>2
    <3> QED
      BY <1>5, <3>3, InkAssumption DEF Missing
  <2> QED
    BY <2>1, <2>2
<1>8. \E f \in DOMAIN given \cap Known : ~Readable(f)
  BY <1>5, <1>7 DEF Readable
<1>9. FailsOnUnreadable'
  BY <1>1, <1>8 DEF FailsOnUnreadable, Readable
<1> QED
  BY <1>1, <1>3, <1>9 DEF IInv, Answer, Rest, OwnValue

LEMMA ReportInvariant == IInv /\ Report => IInv'
<1> SUFFICES ASSUME IInv, Report PROVE IInv'
  OBVIOUS
<1>1. given' = given /\ val' = val /\ result' = "ok" /\ Done
  BY DEF Report
<1>2. Answer /\ Rest /\ Midway
  BY DEF IInv, Report
<1>3. PICK s, n, p : Order(s, n) /\ Position(s, n, p)
  BY <1>2 DEF Midway
<1>4. LastToken(n) \in Int /\ LastToken(n) >= 2 * n - 1 /\ p \in Nat /\ n \in Nat
  BY <1>2, <1>3, Tokened DEF Order
<1>5. Len(tokens) = LastToken(n) - p
  BY <1>2, <1>3, Tokened
<1>6. \A f \in DOMAIN given \cap Known : Readable(f) /\ val[f] = given[f]
  <2> SUFFICES ASSUME NEW f \in DOMAIN given \cap Known
               PROVE Readable(f) /\ val[f] = given[f]
    OBVIOUS
  <2>1. PICK k \in 1..n : s[k] = f
    BY <1>3 DEF Order
  <2>2. IF 2 * k - 1 <= p
          THEN given[s[k]] \in Numbers /\ val[s[k]] = given[s[k]]
          ELSE val[s[k]] = -1
    BY <1>3, <2>1 DEF Position
  <2>3. 2 * k - 1 <= p
    <3>1. CASE tokens = <<>>
      BY <1>4, <1>5, <3>1
    <3>2. CASE \A g \in Known : val[g] >= 0
      BY <2>1, <2>2, <3>2
    <3> QED
      BY <1>1, <3>1, <3>2 DEF Done
  <2> QED
    BY <2>1, <2>2, <2>3 DEF Readable
<1>7. FailsOnUnreadable'
  BY <1>1, <1>6 DEF FailsOnUnreadable, Readable
<1>8. OwnValue'
  BY <1>1, <1>2, <1>6 DEF OwnValue, Rest
<1> QED
  BY <1>1, <1>2, <1>7, <1>8 DEF IInv, Answer, Rest

-----------------------------------------------------------------------------
LEMMA Invariant == Spec => []IInv
<1>1. IInv /\ [Next]_vars => IInv'
  <2> SUFFICES ASSUME IInv, [Next]_vars PROVE IInv'
    OBVIOUS
  <2>1. CASE Skip
    BY <2>1, SkipInvariant
  <2>2. CASE Read
    BY <2>2, ReadInvariant
  <2>3. CASE Refuse
    BY <2>3, RefuseInvariant
  <2>4. CASE Report
    BY <2>4, ReportInvariant
  <2>5. CASE UNCHANGED vars
    <3>1. given' = given /\ tokens' = tokens /\ val' = val /\ result' = result
      BY <2>5 DEF vars
    <3>2. Midway => Midway'
      <4> SUFFICES ASSUME Midway PROVE Midway'
        OBVIOUS
      <4>1. PICK s, n, p : Order(s, n) /\ Position(s, n, p)
        BY DEF Midway
      <4>2. Order(s, n)'
        BY <3>1, <4>1 DEF Order
      <4>3. LastToken(n)' = LastToken(n) /\ \A k : Nth(s, k)' = Nth(s, k)
        BY <3>1 DEF LastToken, Nth
      <4>4. Position(s, n, p)'
        BY <3>1, <4>1, <4>3 DEF Position
      <4> QED
        BY <4>2, <4>4 DEF Midway
    <3> QED
      BY <3>1, <3>2 DEF IInv, Answer, Rest, FailsOnUnreadable, OwnValue, Readable
  <2> QED
    BY <2>1, <2>2, <2>3, <2>4, <2>5 DEF Next
<1> QED
  BY InitInvariant, <1>1, PTL DEF Spec

(* Whatever the fields, the numbers and the order of the answer, the       *)
(* method fails exactly when a field it looks for has no value it can read *)
(* (the ways to fail of comm3DP.cpp, inkStatus2).                          *)
THEOREM FailsOnUnreadableCorrect == Spec => []FailsOnUnreadable
<1>1. IInv => FailsOnUnreadable
  BY DEF IInv
<1> QED
  BY <1>1, Invariant, PTL

(* And when it succeeds, every field has the value the answer gave it.     *)
THEOREM OwnValueCorrect == Spec => []OwnValue
<1>1. IInv => OwnValue
  BY DEF IInv
<1> QED
  BY <1>1, Invariant, PTL
=============================================================================

--------------------------- MODULE LuaStackProofs ---------------------------
(***************************************************************************)
(* What the stack operations do, for every stack: the facts the proofs     *)
(* about the users of the stack cite.                                      *)
(***************************************************************************)
EXTENDS LuaStack, TLAPS

\* Push keeps what is on the stack and adds one value (Push_String, ...).
LEMMA PushFacts ==
  ASSUME NEW S, NEW s \in Seq(S), NEW v \in S
  PROVE  /\ Push(s, v) \in Seq(S)
         /\ Len(Push(s, v)) = Len(s) + 1
         /\ Push(s, v)[Len(s) + 1] = v
         /\ \A i \in 1..Len(s) : Push(s, v)[i] = s[i]
BY DEF Push

\* A relative index that stays in the frame reads that element.
LEMMA AtFacts ==
  ASSUME NEW S, NEW s \in Seq(S), NEW i \in 1..Len(s)
  PROVE  At(s, -i) = s[Len(s) + 1 - i] /\ s[Len(s) + 1 - i] \in S
<1>1. Len(s) \in Nat /\ Len(s) + 1 - i \in 1..Len(s) /\ ~ (-i > 0)
  OBVIOUS
<1>2. Absolute(s, -i) = Len(s) + 1 - i
  BY <1>1 DEF Absolute
<1> QED
  BY <1>1, <1>2 DEF At

\* Push_Value of a relative index pushes the element there.
LEMMA PushValueFacts ==
  ASSUME NEW S, NEW s \in Seq(S), NEW i \in 1..Len(s)
  PROVE  Push_Value(s, -i) = Push(s, s[Len(s) + 1 - i])
BY AtFacts DEF Push_Value, Push

\* Pop (0) leaves the stack alone.
LEMMA PopNone ==
  ASSUME NEW S, NEW s \in Seq(S)
  PROVE  Pop(s, 0) = s
<1>1. Len(s) \in Nat /\ s = [k \in 1..Len(s) |-> s[k]]
  OBVIOUS
<1> QED
  BY <1>1 DEF Pop, Set_Top

\* Pop (1) undoes a push.
LEMMA PopPush ==
  ASSUME NEW S, NEW s \in Seq(S), NEW v \in S
  PROVE  Pop(Push(s, v), 1) = s
<1>1. Len(s) \in Nat /\ s = [k \in 1..Len(s) |-> s[k]]
  OBVIOUS
<1>2. /\ Len(Append(s, v)) = Len(s) + 1
      /\ \A k \in 1..Len(s) : Append(s, v)[k] = s[k]
  OBVIOUS
<1> QED
  BY <1>1, <1>2 DEF Pop, Set_Top, Push

\* Pop (2) undoes two pushes.
LEMMA PopPush2 ==
  ASSUME NEW S, NEW s \in Seq(S), NEW v \in S, NEW w \in S
  PROVE  Pop(Push(Push(s, v), w), 2) = s
<1>1. Len(s) \in Nat /\ s = [k \in 1..Len(s) |-> s[k]]
  OBVIOUS
<1>2. /\ Len(Append(Append(s, v), w)) = Len(s) + 2
      /\ \A k \in 1..Len(s) : Append(Append(s, v), w)[k] = s[k]
  OBVIOUS
<1> QED
  BY <1>1, <1>2 DEF Pop, Set_Top, Push

\* Pop (1) of a non-empty stack keeps all but its top.
LEMMA PopTop ==
  ASSUME NEW S, NEW s \in Seq(S), s # << >>
  PROVE  /\ Pop(s, 1) \in Seq(S)
         /\ Len(Pop(s, 1)) = Len(s) - 1
         /\ \A k \in 1..(Len(s) - 1) : Pop(s, 1)[k] = s[k]
<1>1. Len(s) \in Nat \ {0}
  OBVIOUS
<1>2. Pop(s, 1) = [k \in 1..(Len(s) - 1) |-> s[k]]
  BY <1>1 DEF Pop, Set_Top
<1>3. \A k \in 1..(Len(s) - 1) : s[k] \in S
  BY <1>1
<1> QED
  BY <1>1, <1>2, <1>3

\* Insert (-1) of a non-empty stack moves nothing.
LEMMA InsertTop ==
  ASSUME NEW S, NEW s \in Seq(S), s # << >>
  PROVE  Insert(s, -1) = s
<1>1. Len(s) \in Nat \ {0} /\ s = [k \in 1..Len(s) |-> s[k]]
  OBVIOUS
<1>2. Absolute(s, -1) = Len(s)
  BY <1>1 DEF Absolute
<1> QED
  BY <1>1, <1>2 DEF Insert

\* The two values pushed last, and the one below them, as the relative
\* indices -1, -2 and -3 name them.
LEMMA TopTwo ==
  ASSUME NEW S, NEW s \in Seq(S), NEW v \in S, NEW w \in S
  PROVE  LET r == Push(Push(s, v), w)
         IN  /\ r \in Seq(S) /\ Len(r) = Len(s) + 2
             /\ At(r, -1) = w /\ At(r, -2) = v
             /\ s # << >> => At(r, -3) = s[Len(s)]
             /\ Push_Value(r, -2) = Push(r, v)
             /\ Pop(r, 2) = s
<1> DEFINE r == Append(Append(s, v), w)
<1>1. /\ Len(s) \in Nat /\ r \in Seq(S) /\ Len(r) = Len(s) + 2
      /\ r[Len(s) + 1] = v /\ r[Len(s) + 2] = w
      /\ \A i \in 1..Len(s) : r[i] = s[i]
      /\ s # << >> => Len(s) \in 1..Len(s)
  OBVIOUS
<1> HIDE DEF r
<1>2. At(r, -1) = r[Len(s) + 2] /\ At(r, -2) = r[Len(s) + 1]
  BY <1>1 DEF At, Absolute
<1>3. s # << >> => At(r, -3) = r[Len(s)]
  BY <1>1 DEF At, Absolute
<1>4. Push_Value(r, -2) = Append(r, At(r, -2))
  BY DEF Push_Value
<1>5. Pop(r, 2) = s
  BY PopPush2 DEF Push, r
<1> QED
  BY <1>1, <1>2, <1>3, <1>4, <1>5 DEF Push, r

\* Push_Value (-1) pushes the top again.
LEMMA PushTop ==
  ASSUME NEW S, NEW s \in Seq(S), s # << >>
  PROVE  Push_Value(s, -1) = Push(s, s[Len(s)]) /\ s[Len(s)] \in S
<1>1. Len(s) \in Nat \ {0}
  OBVIOUS
<1> QED
  BY <1>1, PushValueFacts

\* Push_Value (-3) over one fresh value pushes the one under the old top.
LEMMA PushThird ==
  ASSUME NEW S, NEW s \in Seq(S), NEW v \in S, Len(s) >= 2
  PROVE  /\ Push_Value(Push(s, v), -3) = Push(Push(s, v), s[Len(s) - 1])
         /\ s[Len(s) - 1] \in S
<1> DEFINE r == Append(s, v)
<1>1. /\ Len(s) \in Nat /\ Len(s) - 1 \in 1..Len(s)
      /\ r \in Seq(S) /\ Len(r) = Len(s) + 1
      /\ r[Len(s) - 1] = s[Len(s) - 1] /\ s[Len(s) - 1] \in S
  OBVIOUS
<1> HIDE DEF r
<1>2. Push_Value(r, -3) = Push(r, r[Len(s) - 1])
  BY <1>1 DEF Push_Value, Push, At, Absolute
<1> QED
  BY <1>1, <1>2 DEF Push, r

\* Insert into the frame keeps its height and its values: what was above the
\* position is shifted up, the old top is there now.
LEMMA InsertFacts ==
  ASSUME NEW S, NEW s \in Seq(S), NEW i \in 0..Len(s), s # << >>
  PROVE  /\ Insert(s, i) \in Seq(S) /\ Len(Insert(s, i)) = Len(s)
         /\ i > 0 => \A k \in 1..Len(s) : Insert(s, i)[k] = IF k < i THEN s[k]
                                                            ELSE IF k = i THEN s[Len(s)]
                                                            ELSE s[k - 1]
<1> DEFINE p == Absolute(s, i)
<1>1. Len(s) \in Nat \ {0} /\ p \in 1 .. Len(s) + 1 /\ (i > 0 => p = i)
  BY DEF Absolute
<1> HIDE DEF p
<1> DEFINE v(k) == IF k < p THEN s[k] ELSE IF k = p THEN s[Len(s)] ELSE s[k - 1]
<1>2. \A k \in 1..Len(s) : v(k) \in S
  BY <1>1
<1>3. Insert(s, i) = [k \in 1..Len(s) |-> v(k)]
  BY DEF Insert, p
<1> QED
  BY <1>1, <1>2, <1>3

\* Remove of a position of the frame shifts down what is above it; position 0
\* takes the top.
LEMMA RemoveFacts ==
  ASSUME NEW S, NEW s \in Seq(S), NEW i \in 0..Len(s), s # << >>
  PROVE  /\ Remove(s, i) \in Seq(S) /\ Len(Remove(s, i)) = Len(s) - 1
         /\ i > 0 => \A k \in 1 .. Len(s) - 1 : Remove(s, i)[k] = IF k < i THEN s[k] ELSE s[k + 1]
<1> DEFINE p == Absolute(s, i)
<1>1. Len(s) \in Nat \ {0} /\ p \in 1 .. Len(s) + 1 /\ (i > 0 => p = i)
  BY DEF Absolute
<1> HIDE DEF p
<1> DEFINE v(k) == IF k < p THEN s[k] ELSE s[k + 1]
<1>2. \A k \in 1 .. Len(s) - 1 : v(k) \in S
  BY <1>1
<1>3. Remove(s, i) = [k \in 1..(Len(s) - 1) |-> v(k)]
  BY DEF Remove, p
<1> QED
  BY <1>1, <1>2, <1>3
=============================================================================

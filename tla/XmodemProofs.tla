----------------------------- MODULE XmodemProofs -----------------------------
(***************************************************************************)
(* Sender and receiver of an XMODEM transfer stay in step, for any file,   *)
(* block size and faults of the line; and on a line that spoils only data  *)
(* and check sums, one byte of a block, and loses no ACK, the receiver     *)
(* implements module Transfer.                                             *)
(***************************************************************************)
EXTENDS Xmodem, Induction, FiniteSetTheorems, SequenceTheorems

Answer == {XMODEM_ACK, XMODEM_NAK}

(* The ACKs among the answers s, and their number. *)
AckPlaces(s) == {i \in 1 .. Len(s) : s[i] = XMODEM_ACK}
Acks(s)      == Cardinality(AckPlaces(s))

(* The number of blocks the sender takes for delivered. *)
Delivered == IF sending = 0 THEN 0 ELSE sending - 1

(***************************************************************************)
(* The inductive invariant.  SenderNotAhead alone is not inductive: an ACK *)
(* on the line lets the sender go on later, so it must count already.      *)
(***************************************************************************)
StepTypeOK ==
  /\ size \in Nat
  /\ sending \in 0 .. Cancelled
  /\ tx \in Seq(Answer)

AcksAreEarned ==
  pc # "done" /\ sending # Cancelled =>
    (Delivered + Acks(tx)) * XMODEM_BLOCK_SIZE <= size

InStep == StepTypeOK /\ AcksAreEarned
-------------------------------------------------------------------------------
(***************************************************************************)
(* Counting ACKs.                                                          *)
(***************************************************************************)
LEMMA AcksIsNat ==
  ASSUME NEW s \in Seq(Answer)
  PROVE  /\ IsFiniteSet(AckPlaces(s))
         /\ Acks(s) \in Nat
<1>1. IsFiniteSet(1 .. Len(s)) /\ AckPlaces(s) \in SUBSET (1 .. Len(s))
  BY FS_Interval DEF AckPlaces
<1>2. IsFiniteSet(AckPlaces(s))
  BY <1>1, FS_Subset
<1>3. QED
  BY <1>2, FS_CardinalityType DEF Acks

LEMMA NoAcks == Acks(<<>>) = 0
<1>1. AckPlaces(<<>>) = {}
  BY DEF AckPlaces
<1>2. QED
  BY <1>1, FS_EmptySet DEF Acks

LEMMA AppendAcks ==
  ASSUME NEW s \in Seq(Answer), NEW a \in Answer
  PROVE  Acks(Append(s, a)) = IF a = XMODEM_ACK THEN Acks(s) + 1 ELSE Acks(s)
<1>1. IsFiniteSet(AckPlaces(s)) /\ Len(s) + 1 \notin AckPlaces(s)
  <2>1. IsFiniteSet(AckPlaces(s))
    BY AcksIsNat
  <2>2. Len(s) \in Nat
    OBVIOUS
  <2>3. QED
    BY <2>1, <2>2 DEF AckPlaces
<1>2. /\ Len(Append(s, a)) = Len(s) + 1
      /\ \A i \in 1 .. Len(s) : Append(s, a)[i] = s[i]
      /\ Append(s, a)[Len(s) + 1] = a
  OBVIOUS
<1>3. CASE a = XMODEM_ACK
  <2>1. AckPlaces(Append(s, a)) = AckPlaces(s) \cup {Len(s) + 1}
    BY <1>2, <1>3 DEF AckPlaces
  <2>2. QED
    BY <1>1, <1>3, <2>1, FS_AddElement DEF Acks
<1>4. CASE a # XMODEM_ACK
  <2>1. AckPlaces(Append(s, a)) = AckPlaces(s)
    BY <1>2, <1>4 DEF AckPlaces
  <2>2. QED
    BY <1>4, <2>1 DEF Acks
<1>5. QED
  BY <1>3, <1>4

LEMMA TailAcks ==
  ASSUME NEW s \in Seq(Answer), s # <<>>
  PROVE  Acks(s) = IF Head(s) = XMODEM_ACK THEN Acks(Tail(s)) + 1
                                           ELSE Acks(Tail(s))
<1> DEFINE Moved == AckPlaces(s) \ {1}
           up == [i \in AckPlaces(Tail(s)) |-> i + 1]
<1>1. /\ Tail(s) \in Seq(Answer) /\ Len(Tail(s)) = Len(s) - 1
      /\ \A i \in 1 .. Len(s) - 1 : Tail(s)[i] = s[i + 1]
      /\ Head(s) = s[1] /\ 1 \in 1 .. Len(s)
  OBVIOUS
<1>2. IsFiniteSet(AckPlaces(Tail(s))) /\ IsFiniteSet(AckPlaces(s))
  BY <1>1, AcksIsNat
<1>3. up \in Bijection(AckPlaces(Tail(s)), Moved)
  <2>1. \A i \in AckPlaces(Tail(s)) : i \in 1 .. Len(s) - 1 /\ i + 1 \in Moved
    BY <1>1 DEF AckPlaces
  <2>2. \A j \in Moved : j - 1 \in AckPlaces(Tail(s)) /\ j \in Int
    BY <1>1 DEF AckPlaces
  <2>3. \A j \in Moved : up[j - 1] = j
    BY <2>2
  <2>4. up \in [AckPlaces(Tail(s)) -> Moved]
    BY <2>1
  <2>5. \A i, j \in AckPlaces(Tail(s)) : up[i] = up[j] => i = j
    BY <2>1
  <2> HIDE DEF up, Moved
  <2>6. QED
    BY <2>2, <2>3, <2>4, <2>5 DEF Bijection, Injection, Surjection, IsInjective
<1>4. Cardinality(Moved) = Acks(Tail(s))
  BY <1>2, <1>3, FS_Bijection DEF ExistsBijection, Acks
<1>5. /\ Cardinality(Moved) = IF 1 \in AckPlaces(s) THEN Acks(s) - 1 ELSE Acks(s)
      /\ Acks(s) \in Nat
  BY <1>2, FS_RemoveElement, AcksIsNat DEF Acks
<1>6. 1 \in AckPlaces(s) <=> Head(s) = XMODEM_ACK
  BY <1>1 DEF AckPlaces
<1>7. QED
  BY <1>4, <1>5, <1>6

-------------------------------------------------------------------------------
(***************************************************************************)
(* The invariant.                                                          *)
(***************************************************************************)
LEMMA Places ==
  /\ Finished \in Nat /\ Cancelled \in Nat /\ Finished < Cancelled
  /\ 1 <= Finished - 1
  /\ XMODEM_BLOCK_SIZE \in Nat
BY FileAssumption DEF Finished, Cancelled

(* Fewer blocks take less room. *)
LEMMA LessRoom ==
  ASSUME NEW m \in Nat, NEW n \in Nat, m <= n
  PROVE  m * XMODEM_BLOCK_SIZE <= n * XMODEM_BLOCK_SIZE
<1> DEFINE B == XMODEM_BLOCK_SIZE
<1>1. B \in Nat /\ n - m \in Nat
  BY FileAssumption
<1>2. (n - m) * B \in Nat
  BY <1>1
<1>3. n * B = m * B + (n - m) * B
  BY <1>1
<1> HIDE DEF B
<1>4. m * B \in Int /\ n * B \in Int
  BY <1>1
<1>5. QED
  BY <1>2, <1>3, <1>4 DEF B

LEMMA InitInStep == Init => InStep
<1> SUFFICES ASSUME Init PROVE InStep
  OBVIOUS
<1>1. StepTypeOK
  BY Places DEF Init, StepTypeOK
<1>2. (Delivered + Acks(tx)) * XMODEM_BLOCK_SIZE = 0
  BY NoAcks, Places DEF Init, Delivered
<1>3. QED
  BY <1>1, <1>2 DEF Init, InStep, AcksAreEarned

(* A step of the receiver that accepts nothing sends no ACK, unless it     *)
(* returns.                                                                *)
LEMMA NoAckNoBlock ==
  ASSUME InStep, sending' = sending, size' = size,
         pc # "done",
         \/ tx' = tx \/ Answers(XMODEM_NAK)
         \/ Answers(XMODEM_ACK) /\ pc' = "done"
  PROVE  InStep'
<1>1. StepTypeOK'
  BY SMTT(40) DEF InStep, StepTypeOK, Answers, Answer, Cancelled
<1>2. CASE tx' = tx
  BY <1>1, <1>2, SMTT(40) DEF InStep, AcksAreEarned, Delivered
<1>3. CASE Answers(XMODEM_NAK)
  <2>1. Acks(tx') = Acks(tx)
    BY <1>3, AppendAcks DEF InStep, StepTypeOK, Answers, Answer, XMODEM_ACK, XMODEM_NAK
  <2>2. QED
    BY <1>1, <2>1 DEF InStep, AcksAreEarned, Delivered
<1>4. CASE pc' = "done"
  BY <1>1, <1>4 DEF InStep, AcksAreEarned
<1>5. QED
  BY <1>2, <1>3, <1>4

(* A block that is accepted pays for its ACK. *)
LEMMA AcceptedIsEarned ==
  ASSUME InStep, pc # "done", Accepts, sending' = sending
  PROVE  InStep'
<1> DEFINE B == XMODEM_BLOCK_SIZE
           n == Delivered + Acks(tx)
<1>1. /\ size \in Nat /\ B \in Nat /\ tx \in Seq(Answer) /\ Acks(tx) \in Nat
      /\ sending \in Nat
  BY Places, AcksIsNat DEF InStep, StepTypeOK
<1>2. n \in Nat
  BY <1>1 DEF Delivered
<1>3. /\ size' = size + B
      /\ tx' = Append(tx, XMODEM_ACK)
  BY DEF Accepts, Answers
<1>4. XMODEM_ACK \in Answer
  BY DEF Answer
<1>5. StepTypeOK'
  BY <1>1, <1>3, <1>4 DEF InStep, StepTypeOK, Cancelled
<1>6. Acks(tx') = Acks(tx) + 1
  BY <1>1, <1>3, <1>4, AppendAcks
<1>7. (Delivered + Acks(tx))' = n + 1
  BY <1>1, <1>6 DEF Delivered
<1> HIDE DEF n, B
<1>8. (n + 1) * B = n * B + B /\ n * B \in Int
  BY <1>1, <1>2
<1>9. ASSUME sending' # Cancelled
      PROVE  (n + 1) * B <= size'
  <2>1. n * B <= size
    BY <1>9 DEF InStep, AcksAreEarned, n, B
  <2>2. QED
    BY <1>1, <1>3, <1>8, <2>1
<1>10. AcksAreEarned'
  BY <1>7, <1>9 DEF AcksAreEarned, B, Cancelled
<1>11. QED
  BY <1>5, <1>10 DEF InStep

LEMMA ReceiverStaysInStep ==
  ASSUME InStep, Receiver
  PROVE  InStep'
<1>1. sending' = sending /\ pc # "done"
  BY DEF Receiver, xmodem_wait, xmodem_recv, read_number, read_complement,
         read_data, read_check, Reads
<1>2. CASE Accepts
  BY <1>1, <1>2, AcceptedIsEarned
<1>3. CASE ~Accepts
  <2>1. /\ size' = size
        /\ \/ tx' = tx \/ Answers(XMODEM_NAK)
           \/ Answers(XMODEM_ACK) /\ pc' = "done"
    BY <1>3
       DEF Receiver, xmodem_wait, xmodem_recv, read_number, read_complement,
           read_data, read_check, Returns, Rejects, Goes, receiverVars
  <2>2. QED
    BY <1>1, <2>1, NoAckNoBlock
<1>4. QED
  BY <1>2, <1>3

(* Whatever the sender takes for delivered, it has an ACK for.             *)
LEMMA SenderStaysInStep ==
  ASSUME InStep, size' = size, pc' = pc,
         tx' \in Seq(Answer), sending' \in 0 .. Cancelled,
         sending = Cancelled => sending' = Cancelled,
         sending' # Cancelled => (Delivered + Acks(tx))' <= Delivered + Acks(tx)
  PROVE  InStep'
<1>1. StepTypeOK'
  BY DEF InStep, StepTypeOK, Cancelled
<1>2. ASSUME pc' # "done", sending' # Cancelled
      PROVE  (Delivered + Acks(tx))' * XMODEM_BLOCK_SIZE <= size'
  <2> DEFINE m == (Delivered + Acks(tx))'
             n == Delivered + Acks(tx)
  <2>1. n * XMODEM_BLOCK_SIZE <= size
    BY <1>2 DEF InStep, AcksAreEarned
  <2>2. m \in Nat /\ n \in Nat
    <3>1. /\ Acks(tx) \in Nat /\ Acks(tx') \in Nat
          /\ sending \in Nat /\ sending' \in Nat
      BY AcksIsNat, Places DEF InStep, StepTypeOK
    <3>2. QED
      BY <3>1 DEF Delivered
  <2>3. m <= n
    BY <1>2
  <2> HIDE DEF m, n
  <2>4. m * XMODEM_BLOCK_SIZE <= n * XMODEM_BLOCK_SIZE
    BY <2>2, <2>3, LessRoom
  <2>5. m * XMODEM_BLOCK_SIZE \in Int /\ n * XMODEM_BLOCK_SIZE \in Int /\ size \in Int
    BY <2>2, Places DEF InStep, StepTypeOK
  <2>6. m * XMODEM_BLOCK_SIZE <= size'
    BY <2>1, <2>4, <2>5
  <2>7. QED
    BY <2>6 DEF m
<1>3. AcksAreEarned'
  BY <1>2 DEF AcksAreEarned, Cancelled
<1>4. QED
  BY <1>1, <1>3 DEF InStep

LEMMA AnswerTaken ==
  ASSUME InStep, tx # <<>>, tx' = Tail(tx)
  PROVE  /\ tx' \in Seq(Answer) /\ Head(tx) \in Answer
         /\ Acks(tx) \in Nat /\ Acks(tx') \in Nat
         /\ Acks(tx) = IF Head(tx) = XMODEM_ACK THEN Acks(tx') + 1 ELSE Acks(tx')
<1>1. tx \in Seq(Answer) /\ Tail(tx) \in Seq(Answer) /\ Head(tx) \in Answer
  BY DEF InStep, StepTypeOK
<1>2. QED
  BY <1>1, AcksIsNat, TailAcks

LEMMA AnswerKeepsStep ==
  ASSUME InStep, GetsAnswer
  PROVE  InStep'
<1>1. /\ tx # <<>> /\ tx' = Tail(tx) /\ pc' = pc /\ size' = size
  BY DEF GetsAnswer, receiverVars
<1>2. sending \in 0 .. Cancelled /\ Finished + 1 = Cancelled
  BY FileAssumption DEF InStep, StepTypeOK, Finished, Cancelled
<1>3. CASE Head(tx) = XMODEM_NAK
  <2>1. sending' = IF sending = 0 THEN 1 ELSE sending
    BY <1>3 DEF GetsAnswer, Sends, XMODEM_ACK, XMODEM_NAK
  <2>2. Acks(tx') = Acks(tx)
    BY <1>1, <1>3, AnswerTaken DEF XMODEM_ACK, XMODEM_NAK
  <2>3. Delivered' = Delivered
    BY <1>2, <2>1 DEF Delivered
  <2>4. (Delivered + Acks(tx))' <= Delivered + Acks(tx)
    BY <1>1, <1>2, <2>2, <2>3, AnswerTaken, Places DEF Delivered
  <2>5. sending' \in 0 .. Cancelled /\ (sending = Cancelled => sending' = Cancelled)
    BY <1>2, <2>1, Places
  <2>6. QED
    BY <1>1, <2>4, <2>5, AnswerTaken, SenderStaysInStep
<1>4. CASE Head(tx) = XMODEM_ACK
  <2>1. sending' = IF sending \in 1 .. Finished - 1 THEN sending + 1 ELSE sending
    BY <1>4 DEF GetsAnswer, Sends, XMODEM_ACK, XMODEM_NAK
  <2>2. Acks(tx) = Acks(tx') + 1 /\ Acks(tx') \in Nat
    BY <1>1, <1>4, AnswerTaken
  <2>3. Delivered' \in Int /\ Delivered \in Int /\ Delivered' <= Delivered + 1
    BY <1>2, <2>1, Places DEF Delivered
  <2>4. (Delivered + Acks(tx))' <= Delivered + Acks(tx)
    BY <2>2, <2>3
  <2>5. sending' \in 0 .. Cancelled /\ (sending = Cancelled => sending' = Cancelled)
    BY <1>2, <2>1, Places
  <2>6. QED
    BY <1>1, <2>4, <2>5, AnswerTaken, SenderStaysInStep
<1>5. QED
  BY <1>3, <1>4 DEF GetsAnswer

LEMMA NextInStep ==
  ASSUME InStep, [Next]_vars
  PROVE  InStep'
<1>1. CASE Receiver
  BY <1>1, ReceiverStaysInStep
<1>2. CASE GetsAnswer
  BY <1>2, AnswerKeepsStep
<1>3. CASE TimesOut \/ UNCHANGED vars
  <2>1. UNCHANGED <<pc, size, sending, tx>>
    BY <1>3 DEF TimesOut, Sends, vars, receiverVars
  <2>2. QED
    BY <2>1 DEF InStep, StepTypeOK, AcksAreEarned, Delivered, Cancelled
<1>4. CASE Cancels
  <2>1. /\ tx # <<>> /\ tx' = Tail(tx) /\ pc' = pc /\ size' = size
        /\ sending' = Cancelled
    BY <1>4 DEF Cancels, receiverVars
  <2>2. sending' \in 0 .. Cancelled
    BY <2>1, Places
  <2>3. QED
    BY <2>1, <2>2, AnswerTaken, SenderStaysInStep
<1>5. CASE AnswerLost
  <2>1. /\ tx # <<>> /\ tx' = Tail(tx) /\ pc' = pc /\ size' = size
        /\ sending' = sending
    BY <1>5 DEF AnswerLost, receiverVars
  <2>2. Acks(tx') <= Acks(tx) /\ Acks(tx) \in Nat /\ Acks(tx') \in Nat
    BY <2>1, AnswerTaken
  <2>3. Delivered' = Delivered /\ Delivered \in Int /\ sending \in 0 .. Cancelled
    BY <2>1, Places DEF Delivered, InStep, StepTypeOK
  <2>4. (Delivered + Acks(tx))' <= Delivered + Acks(tx)
    BY <2>2, <2>3
  <2>5. QED
    BY <2>1, <2>3, <2>4, AnswerTaken, SenderStaysInStep
<1>6. QED
  BY <1>1, <1>2, <1>3, <1>4, <1>5 DEF Next

LEMMA InStepGivesNotAhead == InStep => SenderNotAhead
<1> SUFFICES ASSUME InStep, pc # "done", sending # Cancelled
             PROVE  (sending - 1) * XMODEM_BLOCK_SIZE <= size
  BY DEF SenderNotAhead
<1> DEFINE B == XMODEM_BLOCK_SIZE
           n == Delivered + Acks(tx)
<1>1. /\ sending \in Nat /\ size \in Nat /\ B \in Nat /\ Acks(tx) \in Nat
  BY AcksIsNat, Places DEF InStep, StepTypeOK
<1>2. n * B <= size
  BY DEF InStep, AcksAreEarned
<1>3. Delivered * B <= n * B /\ n \in Nat /\ Delivered \in Nat
  BY <1>1, LessRoom DEF Delivered
<1>4. Delivered * B <= size
  <2> HIDE DEF n, B
  <2>1. n * B \in Int /\ Delivered * B \in Int
    BY <1>1, <1>3
  <2>2. QED
    BY <1>1, <1>2, <1>3, <2>1
<1>5. CASE sending = 0
  BY <1>1, <1>5
<1>6. CASE sending # 0
  BY <1>4, <1>6 DEF Delivered
<1>7. QED
  BY <1>5, <1>6

(* A sender is never ahead of the receiver: what it takes for delivered    *)
(* has been accepted, whatever the line spoils or loses, how often blocks  *)
(* and NAKs are repeated, and wherever the block numbers wrap.             *)
THEOREM SenderIsNotAhead == Spec => []SenderNotAhead
<1>1. Init => InStep
  BY InitInStep
<1>2. InStep /\ [Next]_vars => InStep'
  BY NextInStep
<1>3. InStep => SenderNotAhead
  BY InStepGivesNotAhead
<1>4. QED
  BY <1>1, <1>2, <1>3, PTL DEF Spec

-------------------------------------------------------------------------------
(***************************************************************************)
(* The check sum.                                                          *)
(***************************************************************************)
Plus(x, y) == (x + y) % 256

LEMMA NumbersAdd ==
  ASSUME NEW x \in 0 .. 255, NEW y \in 0 .. 255, NEW b \in 0 .. 255
  PROVE  /\ Plus(x, b) \in 0 .. 255
         /\ x # y => Plus(x, b) # Plus(y, b)
         /\ x # y => Plus(b, x) # Plus(b, y)
BY SMTT(40) DEF Plus

LEMMA BytesAdd ==
  /\ \A x, b \in Byte : Plus(x, b) \in Byte
  /\ \A x, y, b \in Byte : x # y => Plus(x, b) # Plus(y, b)
  /\ \A x, y, b \in Byte : x # y => Plus(b, x) # Plus(b, y)
<1>1. ASSUME NEW x \in Byte, NEW y \in Byte, NEW b \in Byte
      PROVE  /\ Plus(x, b) \in Byte
             /\ x # y => Plus(x, b) # Plus(y, b)
             /\ x # y => Plus(b, x) # Plus(b, y)
  <2>1. x \in 0 .. 255 /\ y \in 0 .. 255 /\ b \in 0 .. 255
    BY DEF Byte
  <2>2. /\ Plus(x, b) \in 0 .. 255
        /\ x # y => Plus(x, b) # Plus(y, b)
        /\ x # y => Plus(b, x) # Plus(b, y)
    BY <2>1, NumbersAdd, ZenonT(40)
  <2>3. QED
    BY <2>2 DEF Byte
<1>2. QED
  BY <1>1

LEMMA SumsRecursion ==
  ASSUME NEW s \in Seq(Byte)
  PROVE  /\ Sums(s) \in [0 .. Len(s) -> Byte]
         /\ Sums(s)[0] = 0
         /\ \A k \in 1 .. Len(s) : Sums(s)[k] = Plus(Sums(s)[k - 1], s[k])
<1> DEFINE step == [n \in Nat |-> [v \in Byte |->
                     IF n + 1 \in 1 .. Len(s) THEN Plus(v, s[n + 1]) ELSE v]]
           Rec(up) == up = [k \in 0 .. Len(s) |->
                              IF k = 0 THEN 0 ELSE Plus(up[k - 1], s[k])]
<1>1. step \in [Nat -> [Byte -> Byte]] /\ 0 \in Byte /\ Len(s) \in Nat
  <2>1. \A n \in Nat, v \in Byte :
          n + 1 \in 1 .. Len(s) => Plus(v, s[n + 1]) \in Byte
    BY BytesAdd
  <2>2. step \in [Nat -> [Byte -> Byte]]
    BY <2>1
  <2>3. 0 \in Byte /\ Len(s) \in Nat
    BY DEF Byte
  <2>4. QED
    BY <2>2, <2>3
<1>2. PICK f : Recurs(f, Byte, 0, step)
  <2> HIDE DEF step
  <2> QED BY <1>1, Recursion
<1>3. f \in [Nat -> Byte] /\ f[0] = 0 /\ \A n \in Nat : f[n + 1] = step[n][f[n]]
  <2> HIDE DEF step
  <2> QED BY <1>2 DEF Recurs
<1> DEFINE g == [k \in 0 .. Len(s) |-> f[k]]
<1>4. Rec(g)
  <2> SUFFICES ASSUME NEW k \in 0 .. Len(s), k # 0 PROVE f[k] = Plus(g[k - 1], s[k])
    BY <1>3
  <2>1. k - 1 \in Nat /\ k - 1 + 1 = k /\ k \in 1 .. Len(s) /\ k - 1 \in 0 .. Len(s)
    BY <1>1
  <2>2. f[k] = step[k - 1][f[k - 1]]
    BY <1>3, <2>1
  <2>3. step[k - 1][f[k - 1]] = Plus(f[k - 1], s[k])
    BY <1>3, <2>1
  <2>4. QED
    BY <2>1, <2>2, <2>3
<1>5. Sums(s) = CHOOSE up : Rec(up)
  BY DEF Sums, Plus
<1>6. Rec(Sums(s))
  <2> HIDE DEF Rec
  <2> QED BY <1>4, <1>5
<1> DEFINE u == Sums(s)
           S == {n \in Nat : n \in 0 .. Len(s) => u[n] \in Byte}
<1>7. /\ u = [k \in 0 .. Len(s) |-> u[k]] /\ u[0] = 0
      /\ \A k \in 1 .. Len(s) : u[k] = Plus(u[k - 1], s[k])
  <2>1. u = [k \in 0 .. Len(s) |-> u[k]]
    BY <1>6
  <2>2. u[0] = 0
    BY <1>1, <1>6
  <2>3. \A k \in 1 .. Len(s) : u[k] = Plus(u[k - 1], s[k])
    BY <1>1, <1>6
  <2>4. QED
    BY <2>1, <2>2, <2>3
<1> HIDE DEF u
<1>8. 0 \in S
  BY <1>1, <1>7
<1>9. \A n \in Nat : n \in S => n + 1 \in S
  <2> SUFFICES ASSUME NEW n \in Nat, n \in S, n + 1 \in 0 .. Len(s)
               PROVE  u[n + 1] \in Byte
    OBVIOUS
  <2>1. PICK k \in 1 .. Len(s) : k = n + 1 /\ k - 1 = n
    BY <1>1
  <2>2. u[k - 1] \in Byte /\ s[k] \in Byte
    BY <2>1
  <2>3. u[k] = Plus(u[k - 1], s[k])
    BY <1>7
  <2>4. u[k] \in Byte
    BY <2>2, <2>3, BytesAdd
  <2>5. QED
    BY <2>1, <2>4
<1>10. Nat \subseteq S
  <2> HIDE DEF S
  <2> QED BY <1>8, <1>9, SetInduction
<1>11. u \in [0 .. Len(s) -> Byte]
  <2>1. \A k \in 0 .. Len(s) : u[k] \in Byte
    <3>1. \A k \in 0 .. Len(s) : k \in Nat /\ k \in S
      <4> HIDE DEF S
      <4> QED BY <1>1, <1>10
    <3>2. QED
      BY <3>1
  <2>2. QED
    BY <1>7, <2>1
<1>12. QED
  BY <1>7, <1>11 DEF u

LEMMA SumIsByte ==
  ASSUME NEW s \in Seq(Byte) PROVE Sum(s) \in Byte
BY SumsRecursion DEF Sum

(* A single byte that is spoilt shows in the sum.                          *)
LEMMA OneByteShows ==
  ASSUME NEW s \in Seq(Byte), NEW t \in Seq(Byte), Len(s) = Len(t),
         NEW i \in 1 .. Len(s), s[i] # t[i],
         \A k \in 1 .. Len(s) : k # i => s[k] = t[k]
  PROVE  Sum(s) # Sum(t)
<1> DEFINE u == Sums(s)
           w == Sums(t)
           S == {n \in Nat : n \in 0 .. Len(s) => (u[n] # w[n] <=> n >= i)}
<1>1. /\ Len(s) \in Nat
      /\ u \in [0 .. Len(s) -> Byte] /\ w \in [0 .. Len(s) -> Byte]
      /\ u[0] = 0 /\ w[0] = 0
      /\ \A k \in 1 .. Len(s) : u[k] = Plus(u[k - 1], s[k])
      /\ \A k \in 1 .. Len(s) : w[k] = Plus(w[k - 1], t[k])
  <2>1. Len(s) \in Nat
    OBVIOUS
  <2>2. /\ u \in [0 .. Len(s) -> Byte] /\ u[0] = 0
        /\ \A k \in 1 .. Len(s) : u[k] = Plus(u[k - 1], s[k])
    BY SumsRecursion
  <2>3. /\ w \in [0 .. Len(t) -> Byte] /\ w[0] = 0
        /\ \A k \in 1 .. Len(t) : w[k] = Plus(w[k - 1], t[k])
    BY SumsRecursion
  <2> HIDE DEF u, w
  <2>4. QED
    BY <2>1, <2>2, <2>3
<1> HIDE DEF u, w
<1>2. 0 \in S
  BY <1>1
<1>3. \A n \in Nat : n \in S => n + 1 \in S
  <2> SUFFICES ASSUME NEW n \in Nat, n \in S, n + 1 \in 0 .. Len(s)
               PROVE  u[n + 1] # w[n + 1] <=> n + 1 >= i
    OBVIOUS
  <2>1. PICK k \in 1 .. Len(s) : k = n + 1 /\ k - 1 = n /\ n \in 0 .. Len(s)
    BY <1>1
  <2>2. /\ u[n] \in Byte /\ w[n] \in Byte /\ s[k] \in Byte /\ t[k] \in Byte
        /\ u[n] # w[n] <=> n >= i
    BY <1>1, <2>1
  <2>3. u[k] = Plus(u[n], s[k]) /\ w[k] = Plus(w[n], t[k])
    BY <1>1, <2>1
  <2>4. CASE k = i
    <3>1. u[n] = w[n] /\ s[k] # t[k]
      BY <2>1, <2>2, <2>4
    <3>2. u[k] # w[k]
      BY <2>2, <2>3, <3>1, BytesAdd
    <3>3. QED
      BY <2>1, <2>4, <3>2
  <2>5. CASE k < i
    <3>1. u[n] = w[n] /\ s[k] = t[k]
      <4>1. k # i /\ ~(n >= i)
        BY <2>1, <2>5
      <4>2. QED
        BY <2>1, <2>2, <4>1
    <3>2. QED
      BY <2>1, <2>3, <2>5, <3>1
  <2>6. CASE k > i
    <3>1. u[n] # w[n] /\ s[k] = t[k]
      <4>1. k # i /\ n >= i
        BY <2>1, <2>6
      <4>2. QED
        BY <2>1, <2>2, <4>1
    <3>2. u[k] # w[k]
      BY <2>2, <2>3, <3>1, BytesAdd
    <3>3. QED
      BY <2>1, <2>6, <3>2
  <2>7. QED
    BY <2>1, <2>4, <2>5, <2>6
<1>4. Nat \subseteq S
  <2> HIDE DEF S
  <2> QED BY <1>2, <1>3, SetInduction
<1>5. Len(s) \in S
  <2> HIDE DEF S
  <2> QED BY <1>1, <1>4
<1>6. u[Len(s)] # w[Len(s)]
  BY <1>1, <1>5
<1>7. QED
  BY <1>6 DEF Sum, u, w

-------------------------------------------------------------------------------
(***************************************************************************)
(* Types.  How far the buffer is filled depends on the place in the        *)
(* program.                                                                *)
(***************************************************************************)
BufLength ==
  /\ pc = "data" => size <= Len(buf) /\ Len(buf) < size + XMODEM_BLOCK_SIZE
  /\ pc = "check" => Len(buf) = size + XMODEM_BLOCK_SIZE
  /\ pc \notin {"data", "check"} => Len(buf) = size

TypeInv ==
  /\ pc \in {"command", "number", "complement", "data", "check", "done"}
  /\ receiving \in BOOLEAN
  /\ block_number \in Byte /\ check_sum \in Byte
  /\ buf \in Seq(Byte) /\ size \in Nat /\ BufLength
  /\ result = NULL \/ (pc = "done" /\ result \in {-1, size})
  /\ sending \in 0 .. Cancelled
  /\ rx \in Seq(Byte) /\ tx \in Seq(Answer)
  /\ faults \in 0 .. MaxFaults

LEMMA NumberIsByte ==
  ASSUME NEW n \in Nat
  PROVE  /\ n % 256 \in Byte /\ 255 - (n % 256) \in Byte
         /\ ((n % 256) + 1) % 256 = (n + 1) % 256
<1>1. n % 256 \in 0 .. 255 /\ 255 - (n % 256) \in 0 .. 255
  OBVIOUS
<1>2. ((n % 256) + 1) % 256 = (n + 1) % 256
  OBVIOUS
<1>3. QED
  BY <1>1, <1>2 DEF Byte

LEMMA FileTypes ==
  /\ Len(File) \in Nat
  /\ \A n \in 1 .. Len(File) : File[n] \in Seq(Byte) /\ Len(File[n]) = XMODEM_BLOCK_SIZE
  /\ XMODEM_BLOCK_SIZE \in Nat /\ XMODEM_BLOCK_SIZE > 0
  /\ MaxFaults \in Nat /\ Noise \subseteq Byte /\ NULL \notin Int
  /\ Answer \subseteq Byte /\ {XMODEM_SOH, XMODEM_EOT, XMODEM_CAN} \subseteq Byte
BY FileAssumption
   DEF Answer, Byte, XMODEM_SOH, XMODEM_EOT, XMODEM_ACK, XMODEM_NAK, XMODEM_CAN

LEMMA PacketType ==
  ASSUME NEW n \in Nat, n # 0
  PROVE  Packet(n) \in Seq(Byte)
<1>1. CASE n <= Len(File)
  <2>1. n \in 1 .. Len(File)
    BY <1>1, FileTypes
  <2>2. File[n] \in Seq(Byte) /\ Sum(File[n]) \in Byte
    BY <2>1, FileTypes, SumIsByte
  <2>3. <<XMODEM_SOH, n % 256, 255 - (n % 256)>> \in Seq(Byte)
    BY FileTypes, NumberIsByte
  <2>4. <<Sum(File[n])>> \in Seq(Byte)
    BY <2>2
  <2>5. QED
    BY <1>1, <2>2, <2>3, <2>4 DEF Packet
<1>2. CASE ~(n <= Len(File))
  BY <1>2, FileTypes DEF Packet
<1>3. QED
  BY <1>1, <1>2

(* What the line makes of bytes are bytes.                                 *)
LEMMA SpoiltType ==
  ASSUME NEW p \in Seq(Byte), NEW s \in Spoils(p) \cup Shortened(p)
  PROVE  s \in Seq(Byte)
<1>1. CASE s \in Spoils(p)
  <2>1. PICK i \in DOMAIN p, x \in Noise : s = [p EXCEPT ![i] = x]
    BY <1>1 DEF Spoils, ReplaceAt
  <2>2. x \in Byte
    BY FileTypes
  <2>3. QED
    BY <2>1, <2>2, ExceptSeq
<1>2. CASE s \in Shortened(p)
  <2>1. PICK i \in DOMAIN p : s = SubSeq(p, 1, i - 1) \o SubSeq(p, i + 1, Len(p))
    BY <1>2 DEF Shortened, RemoveAt
  <2>2. i \in 1 .. Len(p) /\ Len(p) \in Nat
    OBVIOUS
  <2>3. SubSeq(p, 1, i - 1) \in Seq(Byte)
    <3>1. \A k \in 1 .. i - 1 : p[k] \in Byte
      BY <2>2
    <3>2. QED
      BY <2>2, <3>1, SubSeqProperties
  <2>4. SubSeq(p, i + 1, Len(p)) \in Seq(Byte)
    <3>1. \A k \in i + 1 .. Len(p) : p[k] \in Byte
      BY <2>2
    <3>2. QED
      BY <2>2, <3>1, SubSeqProperties
  <2>5. QED
    BY <2>1, <2>3, <2>4
<1>3. QED
  BY <1>1, <1>2

LEMMA ReadType ==
  ASSUME TypeInv, NEW p, Reads(p)
  PROVE  c \in Byte /\ rx' \in Seq(Byte) /\ pc = p
<1>1. rx # <<>> /\ rx' = Tail(rx) /\ rx \in Seq(Byte)
  BY DEF Reads, TypeInv
<1>2. QED
  BY <1>1, HeadTailProperties DEF Reads, c

(* A block in error leaves what was accepted. *)
LEMMA RejectType ==
  ASSUME TypeInv
  PROVE  /\ SubSeq(buf, 1, size) \in Seq(Byte) /\ Len(SubSeq(buf, 1, size)) = size
         /\ \A k \in 1 .. size : SubSeq(buf, 1, size)[k] = buf[k]
         /\ size \in Nat /\ Len(buf) \in Nat /\ size <= Len(buf)
<1>1. size \in Nat /\ Len(buf) \in Nat /\ buf \in Seq(Byte) /\ size <= Len(buf)
  BY FileTypes DEF TypeInv, BufLength
<1>2. \A k \in 1 .. size : buf[k] \in Byte
  BY <1>1
<1>3. /\ SubSeq(buf, 1, size) \in Seq(Byte)
      /\ Len(SubSeq(buf, 1, size)) = IF 1 <= size THEN size - 1 + 1 ELSE 0
      /\ \A k \in 1 .. size - 1 + 1 : SubSeq(buf, 1, size)[k] = buf[1 + k - 1]
  <2>1. 1 \in Int /\ size \in Int
    BY <1>1
  <2>2. QED
    BY <1>2, <2>1, SubSeqProperties
<1>4. \A k \in 1 .. size : k \in 1 .. size - 1 + 1 /\ 1 + k - 1 = k
  BY <1>1
<1>5. QED
  BY <1>1, <1>3, <1>4

LEMMA AnswerType ==
  ASSUME TypeInv, NEW a \in Answer, Answers(a)
  PROVE  tx' \in Seq(Answer)
BY DEF TypeInv, Answers

LEMMA ReceiverType ==
  ASSUME TypeInv, Receiver
  PROVE  TypeInv'
<1> USE FileTypes
<1>0. XMODEM_ACK \in Answer /\ XMODEM_NAK \in Answer
  BY DEF Answer
<1>1. sending' = sending /\ faults' = faults
  BY DEF Receiver, xmodem_wait, xmodem_recv, read_number, read_complement,
         read_data, read_check
<1>2. sending' \in 0 .. Cancelled' /\ faults' \in 0 .. MaxFaults
  BY <1>1 DEF TypeInv, Cancelled
<1>3. ASSUME Rejects, pc # "done", rx' \in Seq(Byte) PROVE TypeInv'
  <2>1. /\ buf' \in Seq(Byte) /\ Len(buf') = size
    BY <1>3, RejectType DEF Rejects
  <2>2. tx' \in Seq(Answer)
    BY <1>0, <1>3, AnswerType DEF Rejects
  <2>3. BufLength'
    BY <1>3, <2>1 DEF Rejects, BufLength
  <2>4. QED
    BY <1>2, <1>3, <2>1, <2>2, <2>3 DEF Rejects, TypeInv
<1>4. ASSUME Accepts, pc = "check", rx' \in Seq(Byte) PROVE TypeInv'
  <2>1. block_number' \in Byte
    <3>1. block_number \in Nat /\ block_number + 1 \in Nat
      BY DEF TypeInv, Byte
    <3>2. (block_number + 1) % 256 \in Byte
      BY <3>1, NumberIsByte
    <3>3. QED
      BY <1>4, <3>2 DEF Accepts
  <2>2. tx' \in Seq(Answer)
    BY <1>0, <1>4, AnswerType DEF Accepts
  <2>3. size' \in Nat /\ BufLength'
    BY <1>4 DEF Accepts, BufLength, TypeInv
  <2>4. QED
    BY <1>2, <1>4, <2>1, <2>2, <2>3 DEF Accepts, TypeInv
<1>5. CASE xmodem_wait
  <2>1. tx' \in Seq(Answer)
    BY <1>0, <1>5, AnswerType DEF xmodem_wait
  <2>2. QED
    BY <1>2, <1>5, <2>1 DEF xmodem_wait, receiverVars, TypeInv, BufLength
<1>6. CASE xmodem_recv
  <2>1. rx' \in Seq(Byte) /\ pc = "command"
    BY <1>6, ReadType DEF xmodem_recv
  <2>2. tx' \in Seq(Answer)
    <3>1. tx' = tx \/ Answers(XMODEM_ACK)
      BY <1>6 DEF xmodem_recv
    <3>2. QED
      BY <1>0, <3>1, AnswerType DEF TypeInv
  <2>3. \/ Returns(size) \/ Returns(-1)
        \/ /\ receiving' = TRUE /\ pc' = "number"
           /\ UNCHANGED <<block_number, check_sum, buf, size, result>>
        \/ UNCHANGED receiverVars
    BY <1>6 DEF xmodem_recv
  <2>4. CASE Returns(size) \/ Returns(-1)
    BY <1>2, <2>1, <2>2, <2>4 DEF Returns, TypeInv, BufLength
  <2>5. CASE /\ receiving' = TRUE /\ pc' = "number"
             /\ UNCHANGED <<block_number, check_sum, buf, size, result>>
    BY <1>2, <2>1, <2>2, <2>5 DEF TypeInv, BufLength
  <2>6. CASE UNCHANGED receiverVars
    BY <1>2, <2>1, <2>2, <2>6 DEF receiverVars, TypeInv, BufLength
  <2>7. QED
    BY <2>3, <2>4, <2>5, <2>6
<1>7. CASE read_number
  <2>1. rx' \in Seq(Byte) /\ pc = "number"
    BY <1>7, ReadType DEF read_number
  <2>2. CASE Rejects
    BY <1>3, <2>1, <2>2
  <2>3. CASE Goes("complement") /\ UNCHANGED check_sum
    BY <1>2, <2>1, <2>3 DEF Goes, TypeInv, BufLength
  <2>4. QED
    BY <1>7, <2>2, <2>3 DEF read_number
<1>8. CASE read_complement
  <2>1. rx' \in Seq(Byte) /\ pc = "complement"
    BY <1>8, ReadType DEF read_complement
  <2>2. CASE Rejects
    BY <1>3, <2>1, <2>2
  <2>3. CASE Goes("data") /\ check_sum' = 0
    <3>1. BufLength'
      BY <2>1, <2>3 DEF Goes, TypeInv, BufLength
    <3>2. check_sum' \in Byte
      BY <2>3 DEF Byte
    <3>3. QED
      BY <1>2, <2>1, <2>3, <3>1, <3>2 DEF Goes, TypeInv
  <2>4. QED
    BY <1>8, <2>2, <2>3 DEF read_complement
<1>9. CASE read_data
  <2>1. rx' \in Seq(Byte) /\ pc = "data" /\ c \in Byte
    BY <1>9, ReadType DEF read_data
  <2>2. /\ buf' = Append(buf, c)
        /\ check_sum' = Plus(check_sum, c)
        /\ pc' = IF Len(buf') = size + XMODEM_BLOCK_SIZE THEN "check" ELSE "data"
        /\ UNCHANGED <<receiving, block_number, size, result, tx>>
    BY <1>9 DEF read_data, Plus
  <2>3. buf' \in Seq(Byte) /\ Len(buf') = Len(buf) + 1
    BY <2>1, <2>2 DEF TypeInv
  <2>4. check_sum' \in Byte
    BY <2>1, <2>2, BytesAdd DEF TypeInv
  <2>5. BufLength'
    <3>1. size <= Len(buf) /\ Len(buf) < size + XMODEM_BLOCK_SIZE
          /\ size \in Nat /\ Len(buf) \in Nat /\ size' = size
      BY <2>1, <2>2 DEF TypeInv, BufLength
    <3>2. QED
      BY <2>2, <2>3, <3>1 DEF BufLength
  <2>6. QED
    BY <1>2, <2>1, <2>2, <2>3, <2>4, <2>5 DEF TypeInv
<1>10. CASE read_check
  <2>1. rx' \in Seq(Byte) /\ pc = "check"
    BY <1>10, ReadType DEF read_check
  <2>2. QED
    BY <1>3, <1>4, <1>10, <2>1 DEF read_check
<1>11. QED
  BY <1>5, <1>6, <1>7, <1>8, <1>9, <1>10 DEF Receiver

LEMMA SendsType ==
  ASSUME TypeInv, NEW n \in 1 .. Finished, Sends(n)
  PROVE  sending' \in 0 .. Cancelled /\ rx' \in Seq(Byte) /\ faults' \in 0 .. MaxFaults
<1>1. n \in Nat /\ n # 0 /\ Finished \in Nat /\ Finished < Cancelled /\ Cancelled \in Nat
  BY Places
<1>2. Packet(n) \in Seq(Byte)
  BY <1>1, PacketType
<1>3. sending' \in 0 .. Cancelled
  BY <1>1 DEF Sends
<1>4. CASE n >= Finished
  <2>1. UNCHANGED <<rx, faults>>
    BY <1>1, <1>4 DEF Sends
  <2>2. QED
    BY <1>3, <2>1 DEF TypeInv
<1>5. CASE rx' = rx \o Packet(n) /\ UNCHANGED faults
  BY <1>2, <1>3, <1>5 DEF TypeInv
<1>6. CASE /\ faults > 0
           /\ \E s \in Spoils(Packet(n)) \cup Shortened(Packet(n)) : rx' = rx \o s
           /\ faults' = faults - 1
  <2>1. PICK s \in Spoils(Packet(n)) \cup Shortened(Packet(n)) : rx' = rx \o s
    BY <1>6
  <2>2. s \in Seq(Byte)
    BY <1>2, SpoiltType
  <2>3. faults' \in 0 .. MaxFaults
    BY <1>6, FileTypes DEF TypeInv
  <2>4. QED
    BY <1>3, <2>1, <2>2, <2>3 DEF TypeInv
<1>7. QED
  BY <1>4, <1>5, <1>6 DEF Sends

LEMMA NextType ==
  ASSUME TypeInv, [Next]_vars
  PROVE  TypeInv'
<1>1. CASE Receiver
  BY <1>1, ReceiverType
<1>2. ASSUME UNCHANGED receiverVars, tx' \in Seq(Answer), rx' \in Seq(Byte),
             sending' \in 0 .. Cancelled, faults' \in 0 .. MaxFaults
      PROVE  TypeInv'
  BY <1>2 DEF TypeInv, BufLength, receiverVars, Cancelled
<1>3. tx # <<>> => Tail(tx) \in Seq(Answer)
  BY DEF TypeInv
<1>4. sending \in 0 .. Cancelled /\ Finished + 1 = Cancelled /\ Finished \in Nat
      /\ 1 <= Finished - 1
  BY Places DEF TypeInv, Finished, Cancelled
<1>5. CASE GetsAnswer
  <2>1. tx' \in Seq(Answer) /\ UNCHANGED receiverVars
    BY <1>3, <1>5 DEF GetsAnswer
  <2>2. CASE UNCHANGED <<sending, rx, faults>>
    BY <1>2, <2>1, <2>2 DEF TypeInv
  <2>3. CASE Head(tx) = XMODEM_NAK /\ Sends(IF sending = 0 THEN 1 ELSE sending)
    <3> DEFINE n == IF sending = 0 THEN 1 ELSE sending
    <3>1. CASE n \in 1 .. Finished
      BY <1>2, <2>1, <2>3, <3>1, SendsType
    <3>2. CASE n = Cancelled
      <4>1. sending' = n /\ UNCHANGED <<rx, faults>>
        BY <1>4, <2>3, <3>2 DEF Sends
      <4>2. QED
        BY <1>2, <1>4, <2>1, <3>2, <4>1 DEF TypeInv
    <3>3. QED
      BY <1>4, <3>1, <3>2
  <2>4. CASE sending \in 1 .. Finished - 1 /\ Sends(sending + 1)
    <3>1. sending + 1 \in 1 .. Finished
      BY <1>4, <2>4
    <3>2. QED
      BY <1>2, <2>1, <2>4, <3>1, SendsType
  <2>5. QED
    BY <1>5, <2>2, <2>3, <2>4 DEF GetsAnswer
<1>6. CASE TimesOut
  <2>1. sending \in 1 .. Finished /\ Sends(sending) /\ UNCHANGED <<receiverVars, tx>>
    BY <1>4, <1>6 DEF TimesOut
  <2>2. QED
    BY <1>2, <2>1, SendsType DEF TypeInv
<1>7. CASE Cancels
  <2>1. rx' \in Seq(Byte)
    BY <1>7, FileTypes DEF Cancels
  <2>2. QED
    BY <1>2, <1>3, <1>4, <1>7, <2>1 DEF Cancels, TypeInv
<1>8. CASE AnswerLost
  <2>1. faults' \in 0 .. MaxFaults
    BY <1>8, FileTypes DEF AnswerLost, TypeInv
  <2>2. QED
    BY <1>2, <1>3, <1>8, <2>1 DEF AnswerLost, TypeInv
<1>9. CASE UNCHANGED vars
  BY <1>2, <1>9 DEF vars, TypeInv
<1>10. QED
  BY <1>1, <1>5, <1>6, <1>7, <1>8, <1>9 DEF Next

LEMMA InitType == Init => TypeInv
<1> SUFFICES ASSUME Init PROVE TypeInv
  OBVIOUS
<1>1. pc = "command" /\ buf = <<>> /\ size = 0 /\ result = NULL /\ rx = <<>> /\ tx = <<>>
  BY DEF Init
<1>2. block_number \in Byte /\ check_sum \in Byte
  BY DEF Init, Byte
<1>3. receiving \in BOOLEAN
  BY Zenon DEF Init
<1>4. buf \in Seq(Byte) /\ size \in Nat /\ rx \in Seq(Byte) /\ tx \in Seq(Answer)
  BY <1>1
<1>5. BufLength
  BY <1>1 DEF BufLength
<1>6. sending \in 0 .. Cancelled /\ faults \in 0 .. MaxFaults
  BY FileTypes, Places DEF Init
<1>7. QED
  BY <1>1, <1>2, <1>3, <1>4, <1>5, <1>6 DEF TypeInv

LEMMA TypeInvGivesTypes == TypeInv => TypeOK
<1> SUFFICES ASSUME TypeInv PROVE TypeOK
  OBVIOUS
<1>1. Range(buf) \subseteq Byte /\ Range(rx) \subseteq Byte /\ Range(tx) \subseteq Answer
  BY DEF Range, TypeInv
<1>2. size \in 0 .. Len(buf)
  BY RejectType
<1>3. QED
  BY <1>1, <1>2 DEF TypeInv, TypeOK, Answer

LEMMA Types == Spec => []TypeInv
<1>1. QED
  BY InitType, NextType, PTL DEF Spec

(* The variables of receiver, sender and line have their types on any      *)
(* line: every byte fits a byte, the sum and the numbers of the blocks     *)
(* wrap, and what is accepted is in the buffer.                            *)
THEOREM Typing == Spec => []TypeOK
BY Types, TypeInvGivesTypes, PTL

-------------------------------------------------------------------------------
(***************************************************************************)
(* The safe line.                                                          *)
(***************************************************************************)
(* The room that a blocks take.  Off(a) stands for a product, which the    *)
(* provers are better not shown.                                           *)
Off(a) == a * XMODEM_BLOCK_SIZE

LEMMA OffStep ==
  /\ Off(0) = 0
  /\ \A a \in Nat : Off(a) \in Nat /\ Off(a + 1) = Off(a) + XMODEM_BLOCK_SIZE
  /\ \A a \in Nat : Off(a) \div XMODEM_BLOCK_SIZE = a
  /\ \A a, b \in Nat : a <= b => Off(a) <= Off(b)
<1>1. ASSUME NEW a \in Nat, NEW b \in Nat \ {0}
      PROVE  /\ a * b \in Nat /\ (a + 1) * b = a * b + b /\ 0 * b = 0
             /\ (a * b) \div b = a
  OBVIOUS
<1>2. QED
  BY <1>1, FileAssumption, LessRoom DEF Off

(* What is sent for block n when its data are D and its check sum is k.    *)
Header(n) == <<XMODEM_SOH, n % 256, 255 - (n % 256)>>

Wire(n, D, k) ==
  [i \in 1 .. XMODEM_BLOCK_SIZE + 4 |->
     IF i <= 3 THEN Header(n)[i]
     ELSE IF i = XMODEM_BLOCK_SIZE + 4 THEN k ELSE D[i - 3]]

(* What arrives for block n: the line has spoilt at most one place.        *)
DataOf(n) ==
  {File[n]} \cup {[File[n] EXCEPT ![m] = x] : m \in 1 .. XMODEM_BLOCK_SIZE, x \in Noise}

Arrives(n, D, k) ==
  \/ D = File[n] /\ k \in Byte
  \/ D \in DataOf(n) /\ k = Sum(File[n])

LEMMA WireParts ==
  ASSUME NEW n, NEW D, NEW k
  PROVE  /\ Wire(n, D, k)[1] = XMODEM_SOH
         /\ Wire(n, D, k)[2] = n % 256
         /\ Wire(n, D, k)[3] = 255 - (n % 256)
         /\ \A m \in 1 .. XMODEM_BLOCK_SIZE : Wire(n, D, k)[m + 3] = D[m]
         /\ Wire(n, D, k)[XMODEM_BLOCK_SIZE + 4] = k
<1>1. XMODEM_BLOCK_SIZE \in Nat
  BY FileTypes
<1>2. 1 \in 1 .. XMODEM_BLOCK_SIZE + 4 /\ 2 \in 1 .. XMODEM_BLOCK_SIZE + 4
      /\ 3 \in 1 .. XMODEM_BLOCK_SIZE + 4
      /\ XMODEM_BLOCK_SIZE + 4 \in 1 .. XMODEM_BLOCK_SIZE + 4
  BY <1>1
<1>3. \A m \in 1 .. XMODEM_BLOCK_SIZE :
        /\ m + 3 \in 1 .. XMODEM_BLOCK_SIZE + 4 /\ m + 3 - 3 = m
        /\ ~(m + 3 <= 3) /\ m + 3 # XMODEM_BLOCK_SIZE + 4
  BY <1>1
<1>4. Header(n)[1] = XMODEM_SOH /\ Header(n)[2] = n % 256 /\ Header(n)[3] = 255 - (n % 256)
  BY DEF Header
<1>5. ~(XMODEM_BLOCK_SIZE + 4 <= 3)
  BY <1>1
<1>6. QED
  BY <1>2, <1>3, <1>4, <1>5 DEF Wire

LEMMA DataType ==
  ASSUME NEW n \in 1 .. Len(File), NEW D \in DataOf(n)
  PROVE  D \in Seq(Byte) /\ Len(D) = XMODEM_BLOCK_SIZE
<1>1. File[n] \in Seq(Byte) /\ Len(File[n]) = XMODEM_BLOCK_SIZE
  BY FileTypes
<1>2. CASE D = File[n]
  BY <1>1, <1>2
<1>3. CASE D # File[n]
  <2>1. PICK m \in 1 .. XMODEM_BLOCK_SIZE, x \in Noise : D = [File[n] EXCEPT ![m] = x]
    BY <1>3 DEF DataOf
  <2>2. x \in Byte
    BY FileTypes
  <2>3. QED
    BY <1>1, <2>1, <2>2, ExceptSeq
<1>4. QED
  BY <1>2, <1>3

(* Data that pass the check sum are those of the file. *)
LEMMA CheckedIsFile ==
  ASSUME NEW n \in 1 .. Len(File), NEW D, Arrives(n, D, Sum(D))
  PROVE  D = File[n]
<1> SUFFICES ASSUME D # File[n] PROVE FALSE
  OBVIOUS
<1>1. D \in DataOf(n) /\ Sum(D) = Sum(File[n])
  BY DEF Arrives
<1>2. File[n] \in Seq(Byte) /\ Len(File[n]) = XMODEM_BLOCK_SIZE
  BY FileTypes
<1>3. PICK m \in 1 .. XMODEM_BLOCK_SIZE, x \in Noise : D = [File[n] EXCEPT ![m] = x]
  BY <1>1 DEF DataOf
<1>4. D \in Seq(Byte) /\ Len(D) = XMODEM_BLOCK_SIZE
  BY <1>1, DataType
<1>5. /\ m \in 1 .. Len(File[n])
      /\ \A k \in 1 .. Len(File[n]) : k # m => File[n][k] = D[k]
  BY <1>2, <1>3
<1>6. File[n][m] # D[m]
  BY <1>2, <1>3, <1>4
<1>7. QED
  BY <1>1, <1>2, <1>4, <1>5, <1>6, OneByteShows

(* What is still on the line when i bytes of a block have been read.       *)
Rest(s, i, n, D, k) ==
  /\ s \in Seq(Byte)
  /\ Len(s) = XMODEM_BLOCK_SIZE + 4 - i
  /\ \A j \in 1 .. Len(s) : s[j] = Wire(n, D, k)[i + j]

LEMMA RestStep ==
  ASSUME NEW s, NEW n, NEW D, NEW k, NEW i \in 0 .. XMODEM_BLOCK_SIZE + 3,
         Rest(s, i, n, D, k)
  PROVE  /\ s # <<>> /\ Head(s) = Wire(n, D, k)[i + 1] /\ Head(s) \in Byte
         /\ Rest(Tail(s), i + 1, n, D, k)
         /\ i = XMODEM_BLOCK_SIZE + 3 => Tail(s) = <<>>
<1> DEFINE W == Wire(n, D, k)
<1>1. /\ s \in Seq(Byte) /\ Len(s) = XMODEM_BLOCK_SIZE + 4 - i
      /\ \A j \in 1 .. Len(s) : s[j] = W[i + j]
  BY DEF Rest
<1> HIDE DEF W
<1>2. XMODEM_BLOCK_SIZE \in Nat /\ i \in Nat /\ Len(s) \in Nat /\ Len(s) >= 1
  BY <1>1, FileTypes
<1>3. s # <<>> /\ 1 \in 1 .. Len(s) /\ Head(s) = s[1] /\ s[1] \in Byte
  BY <1>1, <1>2
<1>4. /\ Tail(s) \in Seq(Byte) /\ Len(Tail(s)) = Len(s) - 1
      /\ \A j \in 1 .. Len(s) - 1 : Tail(s)[j] = s[j + 1]
  BY <1>1, <1>3
<1>5. \A j \in 1 .. Len(Tail(s)) : Tail(s)[j] = W[(i + 1) + j]
  <2> SUFFICES ASSUME NEW j \in 1 .. Len(Tail(s)) PROVE Tail(s)[j] = W[(i + 1) + j]
    OBVIOUS
  <2>1. PICK m \in 1 .. Len(s) : m = j + 1
    BY <1>2, <1>4
  <2>2. Tail(s)[j] = s[m] /\ i + m = (i + 1) + j
    BY <1>2, <1>4, <2>1
  <2>3. QED
    BY <1>1, <2>2
<1>6. Len(Tail(s)) = XMODEM_BLOCK_SIZE + 4 - (i + 1)
  BY <1>1, <1>2, <1>4
<1>7. i = XMODEM_BLOCK_SIZE + 3 => Tail(s) = <<>>
  BY <1>2, <1>4, <1>6
<1>8. QED
  BY <1>1, <1>3, <1>4, <1>5, <1>6, <1>7 DEF Rest, W

LEMMA PacketIsWire ==
  ASSUME NEW n \in 1 .. Len(File)
  PROVE  /\ Len(Packet(n)) = XMODEM_BLOCK_SIZE + 4
         /\ \A i \in 1 .. XMODEM_BLOCK_SIZE + 4 :
              Packet(n)[i] = Wire(n, File[n], Sum(File[n]))[i]
<1> DEFINE B == XMODEM_BLOCK_SIZE
           D == File[n]
           k == Sum(File[n])
           h == Header(n) \o D
<1>1. n \in Nat /\ n <= Len(File) /\ D \in Seq(Byte) /\ Len(D) = B /\ B \in Nat
  BY FileTypes
<1>2. /\ Header(n) \in Seq(Byte) /\ Len(Header(n)) = 3
  BY <1>1, FileTypes, NumberIsByte DEF Header
<1>3. k \in Byte
  BY <1>1, SumIsByte
<1>4. Packet(n) = h \o <<k>>
  BY <1>1 DEF Packet, Header
<1> HIDE DEF D, k, B
<1>5. /\ h \in Seq(Byte) /\ Len(h) = B + 3
      /\ \A i \in 1 .. 3 : h[i] = Header(n)[i]
      /\ \A m \in 4 .. B + 3 : h[m] = D[m - 3]
  <2> DEFINE g == Header(n)
  <2>1. g \in Seq(Byte) /\ Len(g) = 3
    BY <1>2
  <2> HIDE DEF g
  <2>2. /\ g \o D \in Seq(Byte) /\ Len(g \o D) = B + 3
        /\ \A i \in 1 .. 3 : (g \o D)[i] = g[i]
        /\ \A m \in 4 .. B + 3 : (g \o D)[m] = D[m - 3]
    <3>1. g \o D \in Seq(Byte) /\ Len(g \o D) = Len(g) + Len(D)
      BY <1>1, <2>1, ConcatProperties, Zenon
    <3>2. \A i \in 1 .. Len(g) + Len(D) :
             (g \o D)[i] = IF i <= Len(g) THEN g[i] ELSE D[i - Len(g)]
      BY <1>1, <2>1, ConcatProperties, Zenon
    <3>3. Len(g \o D) = B + 3
      BY <1>1, <2>1, <3>1
    <3>4. ASSUME NEW i \in 1 .. 3 PROVE (g \o D)[i] = g[i]
      <4>1. i \in 1 .. Len(g) + Len(D) /\ i <= Len(g)
        BY <1>1, <2>1
      <4>2. QED
        BY <3>2, <4>1, Zenon
    <3>5. ASSUME NEW m \in 4 .. B + 3 PROVE (g \o D)[m] = D[m - 3]
      <4>1. m \in 1 .. Len(g) + Len(D) /\ ~(m <= Len(g))
        BY <1>1, <2>1
      <4>2. (g \o D)[m] = D[m - Len(g)]
        BY <3>2, <4>1, Zenon
      <4>3. QED
        BY <2>1, <4>2, Zenon
    <3>6. QED
      BY <3>1, <3>3, <3>4, <3>5
  <2>3. QED
    BY <2>2 DEF g
<1> HIDE DEF h
<1>6. /\ Len(h \o <<k>>) = B + 4
      /\ \A i \in 1 .. B + 3 : (h \o <<k>>)[i] = h[i]
      /\ (h \o <<k>>)[B + 4] = k
  BY <1>1, <1>3, <1>5
<1>7. ASSUME NEW i \in 1 .. B + 4
      PROVE  Packet(n)[i] = Wire(n, D, k)[i]
  <2>1. CASE i <= 3
    <3>1. i \in 1 .. 3 /\ i \in 1 .. B + 3
      BY <1>1, <2>1
    <3>2. QED
      BY <1>4, <1>5, <1>6, <2>1, <3>1 DEF Wire, B
  <2>2. CASE i = B + 4
    <3>1. ~(i <= 3)
      BY <1>1, <2>2
    <3>2. QED
      BY <1>4, <1>6, <2>2, <3>1 DEF Wire, B
  <2>3. CASE i > 3 /\ i # B + 4
    <3>1. i \in 4 .. B + 3 /\ i \in 1 .. B + 3 /\ ~(i <= 3)
      BY <1>1, <2>3
    <3>2. QED
      BY <1>4, <1>5, <1>6, <2>3, <3>1 DEF Wire, B
  <2>4. QED
    BY <1>1, <2>1, <2>2, <2>3
<1>8. QED
  BY <1>4, <1>6, <1>7 DEF B, D, k

(* On a safe line, what is sent arrives with at most one place spoilt,     *)
(* which is not one of the header's, and EOT always arrives.               *)
LEMMA SafeArrival ==
  ASSUME HeadersAreSafe, NEW n \in 1 .. Len(File),
         NEW s \in Spoils(Packet(n)) \cup Shortened(Packet(n))
  PROVE  \E D, k : Arrives(n, D, k) /\ Rest(s, 0, n, D, k)
<1> DEFINE B == XMODEM_BLOCK_SIZE
           p == Packet(n)
<1>1. B \in Nat /\ n \in Nat /\ n # 0 /\ Len(p) = B + 4 /\ p \in Seq(Byte)
  BY FileTypes, PacketIsWire, PacketType
<1>2. s \in Spoils(p)
  BY DEF HeadersAreSafe, Shortened
<1>3. PICK i \in Spoilt \cap DOMAIN p, x \in Noise : s = [p EXCEPT ![i] = x]
  BY <1>2 DEF Spoils, ReplaceAt
<1>4. x \in Byte
  BY FileTypes
<1>5. s \in Seq(Byte) /\ Len(s) = B + 4
      /\ s[i] = x /\ \A j \in 1 .. B + 4 : j # i => s[j] = p[j]
  <2> HIDE DEF p
  <2> QED BY <1>1, <1>3, <1>4, ExceptSeq
<1>6. i \in 4 .. B + 4
  <2>1. i \in 1 .. B + 4
    <3> HIDE DEF p
    <3> QED BY <1>1, <1>3
  <2>2. i \notin 1 .. 3
    BY <1>3 DEF HeadersAreSafe
  <2>3. QED
    BY <1>1, <2>1, <2>2
<1>7. \A j \in 1 .. B + 4 : p[j] = Wire(n, File[n], Sum(File[n]))[j]
  BY PacketIsWire
<1> HIDE DEF p
<1>8. CASE i = B + 4
  <2>1. \A j \in 1 .. B + 4 : s[j] = Wire(n, File[n], x)[j]
    <3> SUFFICES ASSUME NEW j \in 1 .. B + 4 PROVE s[j] = Wire(n, File[n], x)[j]
      OBVIOUS
    <3>1. CASE j = i
      BY <1>5, <1>8, <3>1, WireParts
    <3>2. CASE j # i
      BY <1>5, <1>7, <1>8, <3>2 DEF Wire
    <3>3. QED
      BY <3>1, <3>2
  <2>2. Arrives(n, File[n], x)
    BY <1>4 DEF Arrives
  <2>3. Rest(s, 0, n, File[n], x)
    BY <1>1, <1>5, <2>1 DEF Rest
  <2>4. QED
    BY <2>2, <2>3
<1>9. CASE i # B + 4
  <2>1. PICK m \in 1 .. B : m = i - 3 /\ i = m + 3
    BY <1>1, <1>6, <1>9
  <2> DEFINE D == [File[n] EXCEPT ![m] = x]
             k == Sum(File[n])
  <2>2. D \in DataOf(n)
    BY DEF DataOf
  <2>3. /\ D[m] = x /\ \A l \in 1 .. B : l # m => D[l] = File[n][l]
    BY FileTypes
  <2>4. \A j \in 1 .. B + 4 : s[j] = Wire(n, D, k)[j]
    <3> SUFFICES ASSUME NEW j \in 1 .. B + 4 PROVE s[j] = Wire(n, D, k)[j]
      OBVIOUS
    <3> HIDE DEF D, k
    <3>1. CASE j = i
      BY <1>5, <2>1, <2>3, <3>1, WireParts
    <3>2. CASE j # i
      <4>1. s[j] = Wire(n, File[n], k)[j]
        BY <1>5, <1>7, <3>2 DEF k
      <4>2. j > 3 /\ j # B + 4 => j - 3 \in 1 .. B /\ j - 3 # m
        BY <1>1, <2>1, <3>2
      <4>3. QED
        BY <1>1, <2>3, <4>1, <4>2 DEF Wire
    <3>3. QED
      BY <3>1, <3>2
  <2>5. Arrives(n, D, k)
    BY <2>2 DEF Arrives
  <2> HIDE DEF D, k
  <2>6. Rest(s, 0, n, D, k)
    BY <1>1, <1>5, <2>4 DEF Rest
  <2>7. QED
    BY <2>5, <2>6
<1>10. QED
  BY <1>8, <1>9

LEMMA SafeSend ==
  ASSUME HeadersAreSafe, TypeInv, NEW n \in 1 .. Len(File) + 1, Sends(n), rx = <<>>
  PROVE  /\ sending' = n
         /\ n <= Len(File) =>
              \E D, k : Arrives(n, D, k) /\ Rest(rx', 0, n, D, k)
         /\ n = Len(File) + 1 => rx' = <<XMODEM_EOT>>
<1>1. n \in Nat /\ n # 0 /\ n < Finished /\ Packet(n) \in Seq(Byte)
  BY FileTypes, PacketType DEF Finished
<1>2. \A s \in Seq(Byte) : <<>> \o s = s
  OBVIOUS
<1>3. PICK s \in {Packet(n)} \cup Spoils(Packet(n)) \cup Shortened(Packet(n)) : rx' = rx \o s
  <2>1. ~(n >= Finished)
    BY <1>1, Places
  <2>2. QED
    BY <2>1, Zenon DEF Sends
<1>4. s \in Seq(Byte)
  BY <1>1, <1>3, SpoiltType
<1>5. rx' = s
  BY <1>2, <1>3, <1>4
<1>6. CASE n <= Len(File)
  <2>1. n \in 1 .. Len(File)
    BY <1>6
  <2>2. CASE s = Packet(n)
    <3>1. Arrives(n, File[n], Sum(File[n]))
      BY DEF Arrives, DataOf
    <3>2. Rest(s, 0, n, File[n], Sum(File[n]))
      BY <1>4, <2>1, <2>2, FileTypes, PacketIsWire DEF Rest
    <3>3. QED
      BY <1>1, <1>5, <1>6, <3>1, <3>2, FileTypes DEF Sends
  <2>3. CASE s # Packet(n)
    <3>1. \E D, k : Arrives(n, D, k) /\ Rest(s, 0, n, D, k)
      BY <1>3, <2>1, <2>3, SafeArrival
    <3>2. QED
      BY <1>1, <1>5, <1>6, <3>1, FileTypes DEF Sends
  <2>4. QED
    BY <2>2, <2>3
<1>7. CASE n = Len(File) + 1
  <2>1. Packet(n) = <<XMODEM_EOT>> /\ DOMAIN Packet(n) = {1}
    BY <1>7, FileTypes DEF Packet
  <2>2. Spoils(Packet(n)) = {} /\ Shortened(Packet(n)) = {}
    BY <2>1 DEF HeadersAreSafe, Spoils, Shortened
  <2>3. QED
    BY <1>3, <1>5, <1>7, <2>1, <2>2, FileTypes DEF Sends
<1>8. QED
  BY <1>6, <1>7

-------------------------------------------------------------------------------
(***************************************************************************)
(* The inductive invariant on a safe line.  The receiver has accepted the  *)
(* first a blocks, whole, and one of the two has the turn: the sender,     *)
(* with at most one answer on the line and no byte, or the receiver, with  *)
(* no answer and the rest of what it is reading.                           *)
(***************************************************************************)
Holds(b, a) ==
  \A j \in 1 .. a, m \in 1 .. XMODEM_BLOCK_SIZE : b[Off(j - 1) + m] = File[j][m]

Stored(a) == size = Off(a) /\ Holds(buf, a)

NextToSend(a) == sending = a + 1 \/ (a = 0 /\ sending = 0)

(* The sender's turn. *)
Waits(a) ==
  /\ pc = "command" /\ rx = <<>>
  /\ \/ (tx = <<>> \/ tx = <<XMODEM_NAK>>) /\ NextToSend(a)
     \/ tx = <<XMODEM_ACK>> /\ sending = a /\ a # 0

(* The receiver's turn, and the byte that ends the transfer arrives. *)
Ending(a) ==
  /\ pc = "command" /\ tx = <<>>
  /\ \/ rx = <<XMODEM_EOT>> /\ a = Len(File)
     \/ rx = <<XMODEM_CAN>>

(* It has read m of the data.                                              *)
InData(m, D) ==
  /\ pc = IF m = XMODEM_BLOCK_SIZE THEN "check" ELSE "data"
  /\ Len(buf) = size + m
  /\ \A l \in 1 .. m : buf[size + l] = D[l]
  /\ check_sum = Sums(D)[m]

(* Where the receiver is when i bytes of a block with the data D have come.*)
AtPlace(i, D) ==
  \/ i = 0 /\ pc = "command"
  \/ i = 1 /\ pc = "number"
  \/ i = 2 /\ pc = "complement"
  \/ \E m \in 0 .. XMODEM_BLOCK_SIZE : i = m + 3 /\ InData(m, D)

Receives(a) ==
  /\ a < Len(File) /\ sending = a + 1 /\ tx = <<>>
  /\ \E D, k : \E i \in 0 .. XMODEM_BLOCK_SIZE + 3 :
       Arrives(a + 1, D, k) /\ Rest(rx, i, a + 1, D, k) /\ AtPlace(i, D)

Runs(a) ==
  /\ result = NULL /\ pc # "done"
  /\ block_number = (a + 1) % 256
  /\ Waits(a) \/ Ending(a) \/ Receives(a)

HasReturned(a) ==
  pc = "done" /\ (result = -1 \/ (result = size /\ a = Len(File)))

Safe(a) == Stored(a) /\ (HasReturned(a) \/ Runs(a))

SafeInv == \E a \in 0 .. Len(File) : Safe(a)

(* What is stored stays when the buffer only changes behind it, and grows  *)
(* with a block of the file.                                               *)
LEMMA StillHolds ==
  ASSUME NEW a \in Nat, NEW b, NEW d, Holds(b, a), \A l \in 1 .. Off(a) : d[l] = b[l]
  PROVE  Holds(d, a)
<1> SUFFICES ASSUME NEW j \in 1 .. a, NEW m \in 1 .. XMODEM_BLOCK_SIZE
             PROVE  d[Off(j - 1) + m] = File[j][m]
  BY DEF Holds
<1>1. PICK p \in Nat : p = j - 1 /\ j = p + 1
  OBVIOUS
<1>2. p + 1 \in Nat /\ p + 1 <= a
  BY <1>1
<1>3. /\ Off(p) \in Nat /\ Off(p + 1) = Off(p) + XMODEM_BLOCK_SIZE
      /\ Off(p + 1) \in Nat /\ Off(a) \in Nat
  BY <1>2, OffStep, Zenon
<1>4. Off(p + 1) <= Off(a)
  BY <1>2, OffStep
<1>5. Off(p) + m \in 1 .. Off(a)
  BY <1>3, <1>4, FileTypes
<1>6. d[Off(p) + m] = b[Off(p) + m]
  BY <1>5
<1>7. b[Off(p) + m] = File[j][m]
  BY <1>1 DEF Holds
<1>8. QED
  BY <1>1, <1>6, <1>7

LEMMA HoldsMore ==
  ASSUME NEW a \in Nat, NEW b, Holds(b, a),
         \A l \in 1 .. XMODEM_BLOCK_SIZE : b[Off(a) + l] = File[a + 1][l]
  PROVE  Holds(b, a + 1)
<1> SUFFICES ASSUME NEW j \in 1 .. a + 1, NEW m \in 1 .. XMODEM_BLOCK_SIZE
             PROVE  b[Off(j - 1) + m] = File[j][m]
  BY DEF Holds
<1>1. CASE j = a + 1
  <2>1. j - 1 = a
    BY <1>1
  <2>2. QED
    BY <1>1, <2>1
<1>2. CASE j # a + 1
  <2>1. j \in 1 .. a
    BY <1>2
  <2>2. QED
    BY <2>1 DEF Holds
<1>3. QED
  BY <1>1, <1>2

LEMMA InitSafe == Init => SafeInv
<1> SUFFICES ASSUME Init PROVE SafeInv
  OBVIOUS
<1>1. Stored(0)
  BY OffStep DEF Init, Stored, Holds
<1>2. Waits(0)
  BY DEF Init, Waits, NextToSend
<1>3. Runs(0)
  BY <1>2, NumberIsByte DEF Init, Runs
<1>4. 0 \in 0 .. Len(File)
  BY FileTypes
<1>5. QED
  BY <1>1, <1>3, <1>4 DEF SafeInv, Safe

(* The sender sends block a + 1, or EOT when there is none. *)
LEMMA SendIsSafe ==
  ASSUME HeadersAreSafe, TypeInv, NEW a \in 0 .. Len(File), Stored(a), Runs(a), Waits(a),
         Sends(a + 1), tx' = <<>>, UNCHANGED receiverVars
  PROVE  Safe(a)'
<1>1. a + 1 \in 1 .. Len(File) + 1 /\ rx = <<>>
  BY FileTypes DEF Waits
<1>2. Stored(a)'
  BY DEF Stored, Holds, receiverVars
<1>3. pc' = "command" /\ result' = NULL /\ block_number' = (a + 1) % 256
  BY DEF Runs, Waits, receiverVars
<1>4. sending' = a + 1
  BY <1>1, SafeSend
<1>5. CASE a < Len(File)
  <2>1. PICK D, k : Arrives(a + 1, D, k) /\ Rest(rx', 0, a + 1, D, k)
    BY <1>1, <1>5, SafeSend
  <2>2. AtPlace(0, D)'
    BY <1>3 DEF AtPlace
  <2>3. 0 \in 0 .. XMODEM_BLOCK_SIZE + 3
    BY FileTypes
  <2>4. Receives(a)'
    BY <1>4, <1>5, <2>1, <2>2, <2>3 DEF Receives, Arrives
  <2>5. QED
    BY <1>2, <1>3, <2>4 DEF Safe, Runs
<1>6. CASE a = Len(File)
  <2>1. rx' = <<XMODEM_EOT>>
    BY <1>1, <1>6, SafeSend
  <2>2. Ending(a)'
    BY <1>3, <1>6, <2>1 DEF Ending
  <2>3. QED
    BY <1>2, <1>3, <2>2 DEF Safe, Runs
<1>7. QED
  BY <1>5, <1>6

LEMMA WaitsStep ==
  ASSUME HeadersAreSafe, TypeInv, NEW a \in 0 .. Len(File), Stored(a), Runs(a), Waits(a),
         Next
  PROVE  Safe(a)'
<1>1. /\ pc = "command" /\ rx = <<>> /\ result = NULL /\ block_number = (a + 1) % 256
  BY DEF Waits, Runs
<1>2. \A s \in Answer : Head(<<s>>) = s /\ Tail(<<s>>) = <<>>
  OBVIOUS
<1>3. ASSUME UNCHANGED receiverVars, rx' = <<>>, tx' = <<>> \/ tx' = <<XMODEM_NAK>>,
             sending' = sending, NextToSend(a)
      PROVE  Safe(a)'
  <2>1. Stored(a)'
    BY <1>3 DEF Stored, Holds, receiverVars
  <2>2. NextToSend(a)'
    BY <1>3 DEF NextToSend
  <2>3. Waits(a)'
    BY <1>1, <1>3, <2>2 DEF Waits, receiverVars
  <2>4. QED
    BY <1>1, <1>3, <2>1, <2>3 DEF Safe, Runs, receiverVars
<1>4. CASE Receiver
  <2>1. xmodem_wait
    BY <1>1, <1>4 DEF Receiver, xmodem_recv, read_number, read_complement,
                       read_data, read_check, Reads
  <2>2. tx = <<>>
    BY <2>1 DEF xmodem_wait
  <2>3. NextToSend(a)
    BY <2>2 DEF Waits
  <2>4. tx' = <<XMODEM_NAK>>
    BY <2>1, <2>2 DEF xmodem_wait, Answers
  <2>5. QED
    BY <1>1, <1>3, <2>1, <2>3, <2>4 DEF xmodem_wait
<1>5. CASE GetsAnswer
  <2>1. tx # <<>> /\ tx' = Tail(tx) /\ UNCHANGED receiverVars
    BY <1>5 DEF GetsAnswer
  <2>2. CASE tx = <<XMODEM_NAK>> /\ NextToSend(a)
    <3>1. Head(tx) = XMODEM_NAK /\ Head(tx) # XMODEM_ACK /\ tx' = <<>>
      BY <1>2, <2>1, <2>2 DEF Answer, XMODEM_NAK, XMODEM_ACK
    <3>2. (IF sending = 0 THEN 1 ELSE sending) = a + 1
      <4>1. a \in Nat /\ (sending = a + 1 \/ (a = 0 /\ sending = 0))
        BY <2>2, FileTypes DEF NextToSend
      <4>2. CASE a = 0 /\ sending = 0
        BY <4>2
      <4>3. CASE sending = a + 1
        BY <4>1, <4>3
      <4>4. QED
        BY <4>1, <4>2, <4>3
    <3>3. Sends(a + 1)
      BY <1>5, <3>1, <3>2, Zenon DEF GetsAnswer
    <3>4. QED
      BY <2>1, <3>1, <3>3, SendIsSafe
  <2>3. CASE tx = <<XMODEM_ACK>> /\ sending = a /\ a # 0
    <3>1. Head(tx) = XMODEM_ACK /\ Head(tx) # XMODEM_NAK /\ tx' = <<>>
      BY <1>2, <2>1, <2>3 DEF Answer, XMODEM_NAK, XMODEM_ACK
    <3>2. a \in 1 .. Finished - 1
      BY <2>3, FileTypes DEF Finished
    <3>3. Sends(a + 1)
      BY <1>5, <2>3, <3>1, <3>2, Zenon DEF GetsAnswer
    <3>4. QED
      BY <2>1, <3>1, <3>3, SendIsSafe
  <2>4. QED
    BY <2>1, <2>2, <2>3 DEF Waits
<1>6. CASE TimesOut
  <2>1. /\ tx = <<>> /\ sending \in 1 .. Finished - 1 /\ Sends(sending)
        /\ tx' = tx /\ UNCHANGED receiverVars
    BY <1>6 DEF TimesOut
  <2>2. sending = a + 1
    BY <2>1 DEF Waits, NextToSend
  <2>3. QED
    BY <2>1, <2>2, SendIsSafe
<1>7. CASE Cancels
  <2>1. /\ tx # <<>> /\ tx' = Tail(tx) /\ rx' = <<XMODEM_CAN>> /\ UNCHANGED receiverVars
    BY <1>7 DEF Cancels
  <2>2. tx' = <<>>
    BY <1>2, <2>1 DEF Waits, Answer
  <2>3. Ending(a)'
    BY <1>1, <2>1, <2>2 DEF Ending, receiverVars
  <2>4. Stored(a)'
    BY <2>1 DEF Stored, Holds, receiverVars
  <2>5. QED
    BY <1>1, <2>1, <2>3, <2>4 DEF Safe, Runs, receiverVars
<1>8. CASE AnswerLost
  <2>1. /\ tx # <<>> /\ tx' = Tail(tx) /\ Head(tx) # XMODEM_ACK
        /\ rx' = <<>> /\ sending' = sending /\ UNCHANGED receiverVars
    BY <1>1, <1>8 DEF AnswerLost, HeadersAreSafe
  <2>2. tx' = <<>> /\ NextToSend(a)
    BY <1>2, <2>1 DEF Waits, Answer
  <2>3. QED
    BY <1>3, <2>1, <2>2
<1>9. QED
  BY <1>4, <1>5, <1>6, <1>7, <1>8 DEF Next

LEMMA EndingStep ==
  ASSUME TypeInv, NEW a \in 0 .. Len(File), Stored(a), Runs(a), Ending(a), Next
  PROVE  Safe(a)'
<1>1. pc = "command" /\ tx = <<>> /\ rx # <<>>
  BY DEF Ending
<1>2. (c = XMODEM_EOT /\ a = Len(File)) \/ c = XMODEM_CAN
  BY DEF Ending, c
<1>3. xmodem_recv
  BY <1>1 DEF Next, Receiver, xmodem_wait, read_number, read_complement, read_data,
              read_check, Reads, GetsAnswer, TimesOut, Cancels, AnswerLost
<1>4. Returns(-1) \/ (Returns(size) /\ a = Len(File))
  <2>1. CASE c = XMODEM_EOT /\ a = Len(File)
    BY <1>3, <2>1 DEF xmodem_recv, XMODEM_EOT, XMODEM_CAN, XMODEM_SOH
  <2>2. CASE c = XMODEM_CAN
    BY <1>3, <2>2 DEF xmodem_recv, XMODEM_EOT, XMODEM_CAN, XMODEM_SOH
  <2>3. QED
    BY <1>2, <2>1, <2>2
<1>5. Stored(a)'
  BY <1>4 DEF Returns, Stored, Holds
<1>6. HasReturned(a)'
  BY <1>4 DEF Returns, HasReturned
<1>7. QED
  BY <1>5, <1>6 DEF Safe

(* The receiver reads on in a block.                                       *)
LEMMA ReadsOn ==
  ASSUME TypeInv, NEW a \in 0 .. Len(File), Stored(a), Runs(a),
         a < Len(File), sending' = a + 1, tx' = <<>>,
         NEW D, NEW k, NEW i \in 0 .. XMODEM_BLOCK_SIZE + 2,
         Arrives(a + 1, D, k), Rest(rx', i + 1, a + 1, D, k), AtPlace(i + 1, D)',
         pc' # "done", UNCHANGED <<block_number, size, result>>,
         Holds(buf', a)
  PROVE  Safe(a)'
<1>1. i + 1 \in 0 .. XMODEM_BLOCK_SIZE + 3
  BY FileTypes
<1>2. Receives(a)'
  BY <1>1 DEF Receives, Arrives
<1>3. Stored(a)'
  BY DEF Stored, Holds
<1>4. QED
  BY <1>2, <1>3 DEF Safe, Runs

LEMMA ReceivesStep ==
  ASSUME TypeInv, NEW a \in 0 .. Len(File), Stored(a), Runs(a), Receives(a), Next
  PROVE  SafeInv'
<1> DEFINE B == XMODEM_BLOCK_SIZE
           n == a + 1
<1>1. PICK D, k : \E j \in 0 .. B + 3 :
                    Arrives(n, D, k) /\ Rest(rx, j, n, D, k) /\ AtPlace(j, D)
  BY DEF Receives
<1>2. PICK i \in 0 .. B + 3 :
             Arrives(n, D, k) /\ Rest(rx, i, n, D, k) /\ AtPlace(i, D)
  BY <1>1
<1>3. /\ a < Len(File) /\ sending = n /\ tx = <<>> /\ result = NULL
      /\ block_number = n % 256 /\ n \in Nat /\ n \in 1 .. Len(File) /\ B \in Nat /\ B > 0
      /\ Holds(buf, a)
  BY FileTypes DEF Receives, Runs, Stored
<1>4. /\ rx # <<>> /\ c = Wire(n, D, k)[i + 1] /\ c \in Byte
      /\ Rest(Tail(rx), i + 1, n, D, k)
      /\ i = B + 3 => Tail(rx) = <<>>
  <2> HIDE DEF B, n
  <2>1. i \in 0 .. XMODEM_BLOCK_SIZE + 3
    BY DEF B
  <2>2. QED
    BY <1>2, <2>1, RestStep DEF c, B
<1>5. /\ Receiver /\ ~xmodem_wait /\ sending' = sending
  BY <1>3, <1>4 DEF Next, Receiver, xmodem_wait, xmodem_recv, read_number, read_complement,
              read_data, read_check, GetsAnswer, TimesOut, Cancels, AnswerLost
<1>6. rx' = Tail(rx)
  BY <1>5 DEF Receiver, xmodem_recv, read_number, read_complement, read_data, read_check, Reads
<1>7. Safe(a)' => SafeInv'
  BY DEF SafeInv
<1>8. CASE i = 0 /\ pc = "command"
  <2>1. c = XMODEM_SOH
    BY <1>4, <1>8, WireParts
  <2>2. xmodem_recv
    BY <1>5, <1>8 DEF Receiver, read_number, read_complement, read_data, read_check, Reads
  <2>3. /\ pc' = "number" /\ UNCHANGED <<block_number, buf, size, result, tx>>
    BY <2>1, <2>2 DEF xmodem_recv, XMODEM_EOT, XMODEM_CAN, XMODEM_SOH
  <2>4. AtPlace(i + 1, D)' /\ i \in 0 .. B + 2
    BY <1>3, <1>8, <2>3 DEF AtPlace
  <2>5. QED
    BY <1>2, <1>3, <1>4, <1>5, <1>6, <1>7, <2>3, <2>4, ReadsOn
<1>9. CASE i = 1 /\ pc = "number"
  <2>1. c = block_number
    BY <1>3, <1>4, <1>9, WireParts
  <2>2. read_number
    BY <1>5, <1>9 DEF Receiver, xmodem_recv, read_complement, read_data, read_check, Reads
  <2>3. /\ pc' = "complement" /\ UNCHANGED <<block_number, buf, size, result, tx>>
    BY <2>1, <2>2 DEF read_number, Goes
  <2>4. AtPlace(i + 1, D)' /\ i \in 0 .. B + 2
    BY <1>3, <1>9, <2>3 DEF AtPlace
  <2>5. QED
    BY <1>2, <1>3, <1>4, <1>5, <1>6, <1>7, <2>3, <2>4, ReadsOn
<1>10. CASE i = 2 /\ pc = "complement"
  <2>1. c = 255 - block_number
    BY <1>3, <1>4, <1>10, WireParts
  <2>2. read_complement
    BY <1>5, <1>10 DEF Receiver, xmodem_recv, read_number, read_data, read_check, Reads
  <2>3. /\ pc' = "data" /\ check_sum' = 0
        /\ UNCHANGED <<block_number, buf, size, result, tx>>
    BY <2>1, <2>2 DEF read_complement, Goes
  <2>4. D \in Seq(Byte)
    BY <1>2, <1>3, DataType DEF Arrives, DataOf
  <2>5. Sums(D)[0] = 0
    BY <2>4, SumsRecursion
  <2>6. Len(buf) = size /\ size \in Nat
    BY <1>10 DEF TypeInv, BufLength
  <2>7. AtPlace(i + 1, D)' /\ i \in 0 .. B + 2
    <3>1. /\ 0 \in 0 .. B /\ i + 1 = 0 + 3 /\ 0 # B /\ Len(buf') = size' + 0
          /\ \A l \in 1 .. 0 : buf'[size' + l] = D[l]
      BY <1>3, <1>10, <2>3, <2>6
    <3>2. QED
      BY <1>3, <1>10, <2>3, <2>5, <3>1 DEF AtPlace, InData
  <2>8. QED
    BY <1>2, <1>3, <1>4, <1>5, <1>6, <1>7, <2>3, <2>7, ReadsOn
<1>11. ASSUME NEW m \in 0 .. B, i = m + 3,
              pc = IF m = B THEN "check" ELSE "data",
              Len(buf) = size + m,
              \A l \in 1 .. m : buf[size + l] = D[l],
              check_sum = Sums(D)[m]
       PROVE  SafeInv'
  <2>1. D \in Seq(Byte) /\ Len(D) = B
    BY <1>2, <1>3, DataType DEF Arrives, DataOf
  <2>2. /\ Sums(D) \in [0 .. B -> Byte]
        /\ \A l \in 1 .. B : Sums(D)[l] = Plus(Sums(D)[l - 1], D[l])
    BY <2>1, SumsRecursion
  <2>3. size \in Nat /\ Len(buf) \in Nat /\ buf \in Seq(Byte) /\ size = Off(a)
    BY DEF TypeInv, Stored
  <2>4. CASE m # B
    <3>1. read_data
      BY <1>5, <1>11, <2>4 DEF Receiver, xmodem_recv, read_number, read_complement, read_check, Reads
    <3>2. PICK l \in 1 .. B : l = m + 1 /\ l - 1 = m /\ i + 1 = l + 3
      BY <1>3, <1>11, <2>4
    <3>3. c = D[l]
      <4>1. Wire(n, D, k)[l + 3] = D[l]
        BY WireParts
      <4>2. QED
        BY <1>4, <3>2, <4>1
    <3>4. /\ buf' = Append(buf, c) /\ check_sum' = Plus(check_sum, c)
          /\ pc' = IF Len(buf') = size + XMODEM_BLOCK_SIZE THEN "check" ELSE "data"
          /\ UNCHANGED <<block_number, size, result, tx>>
      BY <3>1 DEF read_data, Plus
    <3>5. /\ Len(buf') = size + l
          /\ \A p \in 1 .. size + m : buf'[p] = buf[p]
          /\ buf'[size + l] = c
      BY <1>4, <1>11, <2>3, <3>2, <3>4
    <3>6. \A p \in 1 .. l : buf'[size + p] = D[p]
      <4> SUFFICES ASSUME NEW p \in 1 .. l PROVE buf'[size + p] = D[p]
        OBVIOUS
      <4>1. CASE p = l
        BY <3>3, <3>5, <4>1
      <4>2. CASE p # l
        <5>1. p \in 1 .. m /\ size + p \in 1 .. size + m
          BY <2>3, <3>2, <4>2
        <5>2. QED
          BY <1>11, <3>5, <5>1
      <4>3. QED
        BY <4>1, <4>2
    <3>7. check_sum' = Sums(D)[l]
      BY <1>11, <2>2, <3>2, <3>3, <3>4
    <3>8. pc' = IF l = B THEN "check" ELSE "data"
      BY <1>3, <2>3, <3>4, <3>5
    <3>9. AtPlace(i + 1, D)'
      <4>1. /\ l \in 0 .. XMODEM_BLOCK_SIZE
            /\ Len(buf') = size' + l
            /\ \A p \in 1 .. l : buf'[size' + p] = D[p]
            /\ pc' = IF l = XMODEM_BLOCK_SIZE THEN "check" ELSE "data"
        <5>1. size' = size
          BY <3>4
        <5>2. \A p \in 1 .. l : buf'[size' + p] = D[p]
          BY <3>6, <5>1, Zenon
        <5>3. l \in 0 .. XMODEM_BLOCK_SIZE
          BY <1>3
        <5>4. QED
          BY <3>5, <3>8, <5>1, <5>2, <5>3
      <4>2. QED
        BY <3>2, <3>7, <4>1 DEF AtPlace, InData
    <3>10. Holds(buf', a)
      <4>1. \A p \in 1 .. Off(a) : buf'[p] = buf[p]
        <5>1. \A p \in 1 .. Off(a) : p \in 1 .. size + m
          BY <2>3
        <5>2. QED
          BY <3>5, <5>1
      <4>2. a \in Nat
        OBVIOUS
      <4>3. QED
        BY <1>3, <4>1, <4>2, StillHolds
    <3>11. i \in 0 .. B + 2 /\ pc' # "done"
      BY <1>3, <3>2, <3>8
    <3>12. QED
      BY <1>2, <1>3, <1>4, <1>5, <1>6, <1>7, <3>4, <3>9, <3>10, <3>11, ReadsOn
  <2>5. CASE m = B
    <3>1. read_check
      BY <1>5, <1>11, <2>5 DEF Receiver, xmodem_recv, read_number, read_complement, read_data, Reads
    <3>2. c = k /\ rx' = <<>>
      <4>1. i = B + 3 /\ i + 1 = B + 4
        BY <1>3, <1>11, <2>5
      <4>2. QED
        BY <1>4, <1>6, <4>1, WireParts
    <3>3. check_sum = Sum(D)
      BY <1>11, <2>1, <2>5 DEF Sum
    <3>4. CASE c = check_sum
      <4>1. D = File[n]
        <5> HIDE DEF n
        <5> QED BY <1>2, <1>3, <3>2, <3>3, <3>4, CheckedIsFile
      <4>2. Accepts
        BY <3>1, <3>4 DEF read_check
      <4>3. Holds(buf, n)
        <5>1. \A l \in 1 .. XMODEM_BLOCK_SIZE : buf[Off(a) + l] = File[a + 1][l]
          BY <1>11, <2>3, <2>5, <4>1
        <5>2. a \in Nat
          OBVIOUS
        <5>3. QED
          BY <1>3, <5>1, <5>2, HoldsMore
      <4>4. Stored(n)'
        <5>1. size' = size + XMODEM_BLOCK_SIZE /\ buf' = buf
          BY <4>2 DEF Accepts
        <5>2. Off(a + 1) = Off(a) + XMODEM_BLOCK_SIZE
          BY OffStep
        <5>3. QED
          BY <2>3, <4>3, <5>1, <5>2 DEF Stored
      <4>5. block_number' = (n + 1) % 256
        <5>1. block_number' = (block_number + 1) % 256
          BY <4>2 DEF Accepts
        <5> HIDE DEF n
        <5>2. QED
          BY <1>3, <5>1, NumberIsByte
      <4>6. tx' = <<XMODEM_ACK>> /\ pc' = "command" /\ result' = NULL
        BY <1>3, <4>2 DEF Accepts, Answers
      <4>7. Waits(n)'
        BY <1>3, <1>5, <3>2, <4>6 DEF Waits
      <4>8. n \in 0 .. Len(File) /\ Safe(n)'
        BY <1>3, <4>4, <4>5, <4>6, <4>7 DEF Safe, Runs
      <4>9. QED
        BY <4>8 DEF SafeInv
    <3>5. CASE c # check_sum
      <4>1. Rejects
        BY <3>1, <3>5 DEF read_check
      <4>2. Holds(buf', a)
        <5>1. \A p \in 1 .. Off(a) : buf'[p] = buf[p]
          BY <2>3, <4>1, RejectType DEF Rejects
        <5>2. a \in Nat
          OBVIOUS
        <5>3. QED
          BY <1>3, <5>1, <5>2, StillHolds
      <4>3. Stored(a)'
        BY <2>3, <4>1, <4>2 DEF Rejects, Stored
      <4>4. /\ tx' = <<XMODEM_NAK>> /\ pc' = "command" /\ result' = NULL
            /\ block_number' = (a + 1) % 256
        BY <1>3, <4>1 DEF Rejects, Answers
      <4>5. Waits(a)'
        BY <1>3, <1>5, <3>2, <4>4 DEF Waits, NextToSend
      <4>6. QED
        BY <1>7, <4>3, <4>4, <4>5 DEF Safe, Runs
    <3>6. QED
      BY <3>4, <3>5
  <2>6. QED
    BY <2>4, <2>5
<1>12. QED
  <2>1. AtPlace(i, D)
    BY <1>2
  <2>2. CASE \/ i = 0 /\ pc = "command"
             \/ i = 1 /\ pc = "number"
             \/ i = 2 /\ pc = "complement"
    BY <1>8, <1>9, <1>10, <2>2
  <2>3. CASE \E m \in 0 .. B : i = m + 3 /\ InData(m, D)
    <3>1. PICK m \in 0 .. B : i = m + 3 /\ InData(m, D)
      BY <2>3
    <3>2. QED
      BY <1>11, <3>1 DEF InData
  <2>4. QED
    BY <2>1, <2>2, <2>3 DEF AtPlace

LEMMA NextSafe ==
  ASSUME HeadersAreSafe, TypeInv, SafeInv, [Next]_vars
  PROVE  SafeInv'
<1>1. PICK a \in 0 .. Len(File) : Safe(a)
  BY DEF SafeInv
<1>2. Safe(a)' => SafeInv'
  BY DEF SafeInv
<1>3. CASE UNCHANGED vars
  <2>1. UNCHANGED <<pc, receiving, block_number, check_sum, buf, size, result, sending, rx, tx>>
    BY <1>3 DEF vars, receiverVars
  <2>2. Safe(a)'
    BY <1>1, <2>1
       DEF Safe, Stored, Holds, HasReturned, Runs, Waits, NextToSend, Ending, Receives,
           Arrives, AtPlace, InData, Rest
  <2>3. QED
    BY <1>2, <2>2
<1>4. CASE Next /\ HasReturned(a)
  <2>1. UNCHANGED receiverVars
    BY <1>4 DEF HasReturned, Next, Receiver, xmodem_wait, xmodem_recv, read_number,
                read_complement, read_data, read_check, Reads, GetsAnswer, TimesOut,
                Cancels, AnswerLost
  <2>2. Safe(a)'
    BY <1>1, <1>4, <2>1 DEF Safe, Stored, Holds, HasReturned, receiverVars
  <2>3. QED
    BY <1>2, <2>2
<1>5. CASE Next /\ Runs(a)
  <2>1. Stored(a)
    BY <1>1 DEF Safe
  <2>2. CASE Waits(a)
    BY <1>2, <1>5, <2>1, <2>2, WaitsStep
  <2>3. CASE Ending(a)
    BY <1>2, <1>5, <2>1, <2>3, EndingStep
  <2>4. CASE Receives(a)
    BY <1>5, <2>1, <2>4, ReceivesStep
  <2>5. QED
    BY <1>5, <2>2, <2>3, <2>4 DEF Runs
<1>6. QED
  BY <1>1, <1>3, <1>4, <1>5 DEF Safe

LEMMA SafeTypes ==
  ASSUME HeadersAreSafe PROVE Spec => [](TypeInv /\ SafeInv)
<1>1. Init => TypeInv /\ SafeInv
  BY InitType, InitSafe
<1>2. TypeInv /\ SafeInv /\ [Next]_vars => TypeInv' /\ SafeInv'
  BY NextType, NextSafe
<1>3. QED
  BY <1>1, <1>2, PTL DEF Spec

-------------------------------------------------------------------------------
(***************************************************************************)
(* What the caller gets.                                                   *)
(***************************************************************************)
(* There is only one way to hold the first blocks of the file.             *)
LEMMA HoldsOnce ==
  ASSUME NEW b, NEW d, NEW a \in Nat, Holds(b, a), Holds(d, a)
  PROVE  \A p \in 1 .. Off(a) : b[p] = d[p]
<1> DEFINE S == {k \in Nat : k <= a => \A p \in 1 .. Off(k) : b[p] = d[p]}
<1>1. 0 \in S
  BY OffStep
<1>2. \A k \in Nat : k \in S => k + 1 \in S
  <2> SUFFICES ASSUME NEW k \in Nat, k \in S, k + 1 <= a, NEW p \in 1 .. Off(k + 1)
               PROVE  b[p] = d[p]
    OBVIOUS
  <2>1. Off(k) \in Nat /\ Off(k + 1) = Off(k) + XMODEM_BLOCK_SIZE /\ XMODEM_BLOCK_SIZE \in Nat
    BY OffStep, FileTypes
  <2>2. CASE p <= Off(k)
    BY <2>1, <2>2
  <2>3. CASE p > Off(k)
    <3>1. PICK m \in 1 .. XMODEM_BLOCK_SIZE : p = Off(k) + m
      <4>1. p - Off(k) \in 1 .. XMODEM_BLOCK_SIZE /\ p = Off(k) + (p - Off(k))
        BY <2>1, <2>3
      <4>2. QED
        BY <4>1
    <3>2. PICK j \in 1 .. a : j = k + 1 /\ j - 1 = k
      OBVIOUS
    <3>3. b[Off(k) + m] = File[j][m] /\ d[Off(k) + m] = File[j][m]
      BY <3>2 DEF Holds
    <3>4. QED
      BY <3>1, <3>3
  <2>4. QED
    BY <2>1, <2>2, <2>3
<1>3. Nat \subseteq S
  <2> HIDE DEF S
  <2> QED BY <1>1, <1>2, SetInduction
<1>4. a \in S
  <2> HIDE DEF S
  <2> QED BY <1>3
<1>5. QED
  BY <1>4

(* The blocks of the file one behind the other.                            *)
Flat(s, a) == s \in Seq(Byte) /\ Len(s) = Off(a) /\ Holds(s, a)

LEMMA FlatMore ==
  ASSUME NEW a \in Nat, a < Len(File), NEW s, Flat(s, a)
  PROVE  Flat(s \o File[a + 1], a + 1)
<1> DEFINE D == File[a + 1]
           t == s \o D
<1>1. /\ s \in Seq(Byte) /\ Len(s) = Off(a) /\ Holds(s, a)
      /\ Off(a) \in Nat /\ Off(a + 1) = Off(a) + XMODEM_BLOCK_SIZE
      /\ XMODEM_BLOCK_SIZE \in Nat
      /\ D \in Seq(Byte) /\ Len(D) = XMODEM_BLOCK_SIZE
  <2>1. a + 1 \in 1 .. Len(File)
    BY FileTypes
  <2>2. QED
    BY <2>1, OffStep, FileTypes DEF Flat
<1> HIDE DEF D
<1>2. t \in Seq(Byte) /\ Len(t) = Len(s) + Len(D)
  BY <1>1, ConcatProperties, Zenon
<1>3. \A i \in 1 .. Len(s) + Len(D) : t[i] = IF i <= Len(s) THEN s[i] ELSE D[i - Len(s)]
  BY <1>1, ConcatProperties, Zenon
<1> HIDE DEF t
<1>4. Holds(t, a)
  <2>1. \A l \in 1 .. Off(a) : t[l] = s[l]
    BY <1>1, <1>3
  <2>2. QED
    BY <1>1, <2>1, StillHolds
<1>5. ASSUME NEW l \in 1 .. XMODEM_BLOCK_SIZE PROVE t[Off(a) + l] = File[a + 1][l]
  <2>1. PICK p \in 1 .. Len(s) + Len(D) : p = Off(a) + l /\ p - Len(s) = l /\ ~(p <= Len(s))
    <3> DEFINE o == Off(a)
               b == XMODEM_BLOCK_SIZE
    <3>1. o \in Nat /\ Len(s) = o /\ b \in Nat /\ Len(D) = b /\ l \in 1 .. b
      BY <1>1
    <3> HIDE DEF o, b
    <3>2. o + l \in 1 .. o + b /\ (o + l) - o = l /\ ~(o + l <= o)
      BY <3>1
    <3>3. o + l \in 1 .. Len(s) + Len(D) /\ (o + l) - Len(s) = l /\ ~(o + l <= Len(s))
      BY <3>1, <3>2, Zenon
    <3>4. QED
      BY <3>3, Zenon DEF o
  <2>2. t[p] = D[l]
    BY <1>3, <2>1
  <2>3. QED
    BY <2>1, <2>2 DEF D
<1>6. Holds(t, a + 1)
  BY <1>4, <1>5, HoldsMore
<1>7. QED
  BY <1>1, <1>2, <1>6 DEF Flat, t, D

LEMMA FlatFile == Flat(FlattenSeq(File), Len(File))
<1> DEFINE L == Len(File)
           step == [n \in Nat |-> [v \in Seq(Byte) |->
                      IF n + 1 \in 1 .. L THEN v \o File[n + 1] ELSE v]]
           Rec(up) == up = [i \in 1 .. L |->
                              IF i = 1 THEN File[i] ELSE up[i - 1] \o File[i]]
<1>1. L \in Nat /\ <<>> \in Seq(Byte) /\ \A n \in 1 .. L : File[n] \in Seq(Byte)
  BY FileTypes
<1>2. step \in [Nat -> [Seq(Byte) -> Seq(Byte)]]
  <2>1. \A n \in Nat, v \in Seq(Byte) :
          n + 1 \in 1 .. L => v \o File[n + 1] \in Seq(Byte)
    BY <1>1
  <2>2. QED
    BY <2>1
<1>3. PICK f : Recurs(f, Seq(Byte), <<>>, step)
  <2> HIDE DEF step, L
  <2> QED BY <1>1, <1>2, Recursion
<1>4. /\ f \in [Nat -> Seq(Byte)]
      /\ f[0] = <<>>
      /\ \A n \in Nat : f[n + 1] = step[n][f[n]]
  <2> HIDE DEF step
  <2> QED BY <1>3 DEF Recurs
<1>5. \A n \in Nat : n < L => f[n + 1] = f[n] \o File[n + 1]
  <2> SUFFICES ASSUME NEW n \in Nat, n < L PROVE f[n + 1] = f[n] \o File[n + 1]
    OBVIOUS
  <2>1. n + 1 \in 1 .. L
    BY <1>1
  <2>2. f[n] \in Seq(Byte)
    BY <1>4, Zenon
  <2>3. step[n][f[n]] = f[n] \o File[n + 1]
    BY <2>1, <2>2
  <2>4. QED
    BY <1>4, <2>3, Zenon
<1>6. \A n \in Nat : n <= L => Flat(f[n], n)
  <2> DEFINE S == {n \in Nat : n <= L => Flat(f[n], n)}
  <2>1. 0 \in S
    <3>1. Holds(<<>>, 0)
      BY DEF Holds
    <3>2. Flat(<<>>, 0)
      BY <1>1, <3>1, OffStep DEF Flat
    <3>3. f[0] = <<>>
      BY <1>4, Zenon
    <3>4. QED
      BY <3>2, <3>3
  <2>2. \A n \in Nat : n \in S => n + 1 \in S
    <3> SUFFICES ASSUME NEW n \in Nat, n \in S, n + 1 <= L PROVE Flat(f[n + 1], n + 1)
      OBVIOUS
    <3>1. n < L /\ Flat(f[n], n)
      BY <1>1
    <3>2. Flat(f[n] \o File[n + 1], n + 1)
      BY <3>1, FlatMore
    <3>3. QED
      BY <1>5, <3>1, <3>2
  <2>3. Nat \subseteq S
    <3> HIDE DEF S
    <3> QED BY <2>1, <2>2, SetInduction
  <2>4. QED
    BY <2>3
<1>7. CASE L = 0
  <2>1. FlattenSeq(File) = File /\ File = <<>>
    BY <1>7, FileAssumption, EmptySeq DEF FlattenSeq
  <2>2. Flat(f[0], 0) /\ f[0] = <<>>
    BY <1>4, <1>6, <1>7
  <2>3. QED
    BY <1>7, <2>1, <2>2
<1>8. CASE L # 0
  <2> DEFINE g == [i \in 1 .. L |-> f[i]]
  <2>1. Rec(g)
    <3> SUFFICES ASSUME NEW i \in 1 .. L
                 PROVE  f[i] = IF i = 1 THEN File[i] ELSE g[i - 1] \o File[i]
      OBVIOUS
    <3>1. PICK n \in Nat : i = n + 1 /\ i - 1 = n /\ n < L
      BY <1>1
    <3>2. f[i] = f[n] \o File[i]
      BY <1>5, <3>1
    <3>3. CASE i = 1
      <4>1. f[n] = <<>> /\ File[i] \in Seq(Byte)
        BY <1>1, <1>4, <3>1, <3>3
      <4>2. <<>> \o File[i] = File[i]
        BY <4>1
      <4>3. QED
        BY <3>2, <3>3, <4>1, <4>2
    <3>4. CASE i # 1
      <4>1. g[i - 1] = f[n]
        BY <1>1, <3>1, <3>4
      <4>2. QED
        BY <3>2, <3>4, <4>1
    <3>5. QED
      BY <3>3, <3>4
  <2> DEFINE u == CHOOSE up : Rec(up)
  <2>2. Rec(u)
    <3> HIDE DEF Rec
    <3> QED BY <2>1
  <2>3. FlattenSeq(File) = u[L]
    BY <1>8 DEF FlattenSeq
  <2> HIDE DEF u
  <2> DEFINE T == {k \in Nat : k \in 1 .. L => u[k] = f[k]}
  <2>4. 0 \in T
    BY <1>1
  <2>5. \A k \in Nat : k \in T => k + 1 \in T
    <3> SUFFICES ASSUME NEW k \in Nat, k \in T, k + 1 \in 1 .. L PROVE u[k + 1] = f[k + 1]
      OBVIOUS
    <3>1. PICK i \in 1 .. L : i = k + 1 /\ i - 1 = k
      OBVIOUS
    <3>2. u[i] = IF i = 1 THEN File[i] ELSE u[i - 1] \o File[i]
      BY <2>2
    <3>3. f[i] = IF i = 1 THEN File[i] ELSE f[i - 1] \o File[i]
      <4>1. g[i] = IF i = 1 THEN File[i] ELSE g[i - 1] \o File[i]
        BY <2>1
      <4>2. i # 1 => i - 1 \in 1 .. L
        BY <1>1
      <4>3. QED
        BY <4>1, <4>2
    <3>4. i # 1 => u[i - 1] = f[i - 1]
      BY <1>1, <3>1
    <3>5. QED
      BY <3>1, <3>2, <3>3, <3>4
  <2>6. Nat \subseteq T
    <3> HIDE DEF T
    <3> QED BY <2>4, <2>5, SetInduction
  <2>7. u[L] = f[L]
    <3>1. L \in T /\ L \in 1 .. L
      BY <1>1, <1>8, <2>6
    <3>2. QED
      BY <3>1
  <2>8. QED
    BY <1>1, <1>6, <2>3, <2>7
<1>9. QED
  BY <1>7, <1>8

LEMMA SafeIsWhole == TypeInv /\ SafeInv => SuccessIsWhole
<1> SUFFICES ASSUME TypeInv, SafeInv, result \notin {NULL, -1}
             PROVE  SubSeq(buf, 1, size) = FlattenSeq(File)
  BY DEF SuccessIsWhole
<1> DEFINE L == Len(File)
           s == SubSeq(buf, 1, size)
           t == FlattenSeq(File)
<1>1. Stored(L) /\ L \in Nat
  BY FileTypes DEF SafeInv, Safe, HasReturned, Runs
<1>2. /\ s \in Seq(Byte) /\ Len(s) = Off(L)
      /\ \A p \in 1 .. Off(L) : s[p] = buf[p]
  BY <1>1, RejectType DEF Stored
<1>3. t \in Seq(Byte) /\ Len(t) = Off(L) /\ Holds(t, L)
  BY FlatFile DEF Flat
<1> HIDE DEF s, t, L
<1>4. Holds(s, L)
  BY <1>1, <1>2, StillHolds DEF Stored
<1>5. \A p \in 1 .. Off(L) : s[p] = t[p]
  BY <1>1, <1>3, <1>4, HoldsOnce
<1>6. s = t
  BY <1>2, <1>3, <1>5, SeqEqual
<1>7. QED
  BY <1>6 DEF s, t

(* A transfer that succeeds has brought the whole file, when the line      *)
(* spoils only data and check sums and loses no ACK, however long the file *)
(* is and wherever the block numbers wrap.                                 *)
THEOREM Whole ==
  ASSUME HeadersAreSafe
  PROVE  Spec => []SuccessIsWhole
<1>1. Spec => [](TypeInv /\ SafeInv)
  BY SafeTypes
<1>2. TypeInv /\ SafeInv => SuccessIsWhole
  BY SafeIsWhole
<1>3. QED
  BY <1>1, <1>2, PTL

(* The blocks in the first z bytes of b, as AcceptedBlocks has them.       *)
Cut(b, z) ==
  [n \in 1 .. z \div XMODEM_BLOCK_SIZE |->
     SubSeq(b, (n - 1) * XMODEM_BLOCK_SIZE + 1, n * XMODEM_BLOCK_SIZE)]

Taken(a) == [n \in 1 .. a |-> File[n]]

LEMMA CutIsTaken ==
  ASSUME NEW a \in 0 .. Len(File), NEW b \in Seq(Byte), Holds(b, a), Off(a) <= Len(b)
  PROVE  Cut(b, Off(a)) = Taken(a)
<1>1. /\ a \in Nat /\ a <= Len(File) /\ Len(b) \in Nat /\ Off(a) \in Nat
      /\ Off(a) \div XMODEM_BLOCK_SIZE = a
  BY OffStep, FileTypes
<1>2. ASSUME NEW n \in 1 .. a
      PROVE  SubSeq(b, (n - 1) * XMODEM_BLOCK_SIZE + 1, n * XMODEM_BLOCK_SIZE) = File[n]
  <2>1. PICK k \in Nat : n = k + 1 /\ n - 1 = k
    BY <1>1
  <2>2. /\ Off(k) \in Nat /\ Off(n) = Off(k) + XMODEM_BLOCK_SIZE /\ Off(n) <= Off(a)
        /\ XMODEM_BLOCK_SIZE \in Nat /\ XMODEM_BLOCK_SIZE > 0
    <3>1. n \in Nat /\ n <= a
      BY <1>1
    <3>2. QED
      BY <1>1, <2>1, <3>1, OffStep, FileTypes
  <2> DEFINE s == SubSeq(b, Off(k) + 1, Off(n))
  <2>3. \A p \in Off(k) + 1 .. Off(n) : b[p] \in Byte
    <3>1. \A p \in Off(k) + 1 .. Off(n) : p \in 1 .. Len(b)
      BY <1>1, <2>2
    <3>2. QED
      BY <3>1
  <2>4. /\ s \in Seq(Byte)
        /\ Len(s) = IF Off(k) + 1 <= Off(n) THEN Off(n) - (Off(k) + 1) + 1 ELSE 0
        /\ \A m \in 1 .. Off(n) - (Off(k) + 1) + 1 : s[m] = b[Off(k) + 1 + m - 1]
    <3>1. Off(k) + 1 \in Int /\ Off(n) \in Int
      BY <2>2
    <3>2. QED
      BY <2>3, <3>1, SubSeqProperties
  <2> HIDE DEF s
  <2>5. Len(s) = XMODEM_BLOCK_SIZE
    BY <2>2, <2>4
  <2>6. ASSUME NEW m \in 1 .. XMODEM_BLOCK_SIZE PROVE s[m] = File[n][m]
    <3>1. m \in 1 .. Off(n) - (Off(k) + 1) + 1 /\ Off(k) + 1 + m - 1 = Off(k) + m
      BY <2>2
    <3>2. s[m] = b[Off(k) + m]
      BY <2>4, <3>1
    <3>3. QED
      BY <2>1, <3>2 DEF Holds
  <2>7. n \in 1 .. Len(File)
    BY <1>1, FileTypes
  <2>8. File[n] \in Seq(Byte) /\ Len(File[n]) = XMODEM_BLOCK_SIZE
    BY <2>7, FileTypes
  <2>9. s = File[n]
    BY <2>4, <2>5, <2>6, <2>8, SeqEqual
  <2>10. QED
    BY <2>1, <2>9 DEF s, Off
<1>3. QED
  BY <1>1, <1>2 DEF Cut, Taken

LEMMA StoredIsTaken ==
  ASSUME NEW a \in 0 .. Len(File), TypeInv, Stored(a)
  PROVE  AcceptedBlocks = Taken(a)
<1>1. buf \in Seq(Byte) /\ size = Off(a) /\ Holds(buf, a) /\ Off(a) <= Len(buf)
  BY RejectType DEF TypeInv, Stored
<1>2. Cut(buf, size) = Taken(a)
  BY <1>1, CutIsTaken
<1>3. QED
  BY <1>2 DEF AcceptedBlocks, Cut

LEMMA StoredIsTakenNext ==
  ASSUME NEW a \in 0 .. Len(File), TypeInv', Stored(a)'
  PROVE  AcceptedBlocks' = Taken(a)
<1>1. buf' \in Seq(Byte) /\ size' = Off(a) /\ Holds(buf', a) /\ Off(a) <= Len(buf')
  BY FileTypes DEF TypeInv, Stored, BufLength
<1>2. Cut(buf', size') = Taken(a)
  BY <1>1, CutIsTaken
<1>3. QED
  BY <1>2 DEF AcceptedBlocks, Cut

LEMMA InitPromise == Init => Promise!Init
<1> SUFFICES ASSUME Init PROVE Promise!Init
  OBVIOUS
<1>1. TypeInv
  BY InitType
<1>2. Stored(0) /\ 0 \in 0 .. Len(File)
  BY OffStep, FileTypes DEF Init, Stored, Holds
<1>3. AcceptedBlocks = [n \in 1 .. 0 |-> File[n]]
  BY <1>1, <1>2, StoredIsTaken DEF Taken
<1>4. [n \in 1 .. 0 |-> File[n]] = <<>>
  OBVIOUS
<1>5. QED
  BY <1>3, <1>4 DEF Init, Promise!Init

(* What a step may do to size and result.                                  *)
LEMMA StepShape ==
  ASSUME TypeInv, [Next]_vars
  PROVE  \/ size' = size /\ result' = result
         \/ size' = size + XMODEM_BLOCK_SIZE /\ result' = result /\ pc = "check"
         \/ size' = size /\ result = NULL /\ result' \in {-1, size} /\ pc' = "done"
<1>1. CASE GetsAnswer \/ TimesOut \/ Cancels \/ AnswerLost \/ UNCHANGED vars
  BY <1>1 DEF GetsAnswer, TimesOut, Cancels, AnswerLost, vars, receiverVars
<1>2. CASE Receiver
  <2>1. CASE Accepts /\ pc = "check"
    BY <2>1 DEF Accepts
  <2>2. CASE Rejects \/ Goes("complement") \/ Goes("data") \/ read_data \/ xmodem_wait
    BY <2>2 DEF Rejects, Goes, read_data, xmodem_wait, receiverVars
  <2>3. CASE xmodem_recv
    BY <2>3 DEF xmodem_recv, Returns, receiverVars, Reads, TypeInv
  <2>4. QED
    BY <1>2, <2>1, <2>2, <2>3 DEF Receiver, read_number, read_complement, read_check, Reads
<1>3. QED
  BY <1>1, <1>2 DEF Next

LEMMA StepPromise ==
  ASSUME TypeInv, SafeInv, TypeInv', SafeInv', [Next]_vars
  PROVE  [Promise!Next]_(Promise!vars)
<1>1. PICK a \in 0 .. Len(File) : Safe(a)
  BY DEF SafeInv
<1>2. PICK b \in 0 .. Len(File) : Safe(b)'
  BY DEF SafeInv
<1>3. AcceptedBlocks = Taken(a) /\ size = Off(a)
  BY <1>1, StoredIsTaken DEF Safe, Stored
<1>4. AcceptedBlocks' = Taken(b) /\ size' = Off(b)
  BY <1>2, StoredIsTakenNext DEF Safe, Stored
<1>5. /\ a \in Nat /\ b \in Nat /\ a <= Len(File) /\ b <= Len(File)
      /\ Off(a) \div XMODEM_BLOCK_SIZE = a /\ Off(b) \div XMODEM_BLOCK_SIZE = b
      /\ Off(a + 1) = Off(a) + XMODEM_BLOCK_SIZE
      /\ Off(a + 1) \div XMODEM_BLOCK_SIZE = a + 1
  BY OffStep, FileTypes
<1>6. Len(Taken(a)) = a
  BY <1>5 DEF Taken
<1>7. CASE size' = size /\ result' = result
  <2>1. a = b
    BY <1>3, <1>4, <1>5, <1>7
  <2>2. QED
    BY <1>3, <1>4, <1>7, <2>1 DEF Promise!vars
<1>8. CASE size' = size + XMODEM_BLOCK_SIZE /\ result' = result /\ pc = "check"
  <2>1. b = a + 1
    BY <1>3, <1>4, <1>5, <1>8
  <2>2. Taken(b) = Append(Taken(a), File[a + 1])
    BY <1>5, <2>1 DEF Taken
  <2>3. result = NULL
    BY <1>1, <1>8 DEF Safe, HasReturned, Runs
  <2>4. Promise!Accept
    BY <1>3, <1>4, <1>5, <1>6, <1>8, <2>1, <2>2, <2>3 DEF Promise!Accept
  <2>5. QED
    BY <2>4 DEF Promise!Next
<1>9. CASE size' = size /\ result = NULL /\ result' \in {-1, size} /\ pc' = "done"
  <2>1. a = b
    BY <1>3, <1>4, <1>5, <1>9
  <2>2. CASE result' = -1
    BY <1>3, <1>4, <1>9, <2>1, <2>2 DEF Promise!Fail, Promise!Next
  <2>3. CASE result' # -1
    <3>1. result' = size' /\ b = Len(File)
      BY <1>2, <1>9, <2>3 DEF Safe, HasReturned, Runs
    <3>2. Taken(a) = File
      <4>1. File \in Seq(Seq(Byte))
        BY FileAssumption
      <4>2. File = [n \in 1 .. Len(File) |-> File[n]]
        BY <4>1
      <4>3. QED
        BY <2>1, <3>1, <4>2 DEF Taken
    <3>3. result' = Len(AcceptedBlocks) * XMODEM_BLOCK_SIZE
      BY <1>3, <1>6, <1>9, <2>1, <3>1 DEF Off
    <3>4. Promise!Succeed
      BY <1>3, <1>4, <1>9, <2>1, <3>2, <3>3 DEF Promise!Succeed
    <3>5. QED
      BY <3>4 DEF Promise!Next
  <2>4. QED
    BY <2>2, <2>3
<1>10. QED
  BY <1>7, <1>8, <1>9, StepShape

(* On such a line the receiver implements the transfer that its caller     *)
(* relies on: block after block of the file, each once, whole and in its   *)
(* place, and then one answer, their size or -1.                           *)
THEOREM Transfers ==
  ASSUME HeadersAreSafe
  PROVE  Spec => ImplementsTransfer
<1>1. Init => Promise!Init
  BY InitPromise
<1>2. TypeInv /\ SafeInv /\ (TypeInv /\ SafeInv)' /\ [Next]_vars
      => [Promise!Next]_(Promise!vars)
  BY StepPromise
<1>3. Spec => [](TypeInv /\ SafeInv)
  BY SafeTypes
<1>4. QED
  BY <1>1, <1>2, <1>3, PTL DEF Spec, ImplementsTransfer, Promise!Spec
===============================================================================

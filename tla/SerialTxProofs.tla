-------------------------- MODULE SerialTxProofs --------------------------
(***************************************************************************)
(* Proofs about SerialTx, for every ring size and number of bytes.         *)
(***************************************************************************)
EXTENDS SerialTx, TLAPS

\* Advancing an index keeps it in the ring.
LEMMA AfterType ==
  ASSUME NEW i \in Slots
  PROVE  After(i) \in Slots
BY TxAssumption DEF After, Slots

\* The initial state satisfies the invariant.
LEMMA InitInv == Init => IInv
<1> SUFFICES ASSUME Init PROVE IInv
  OBVIOUS
<1>a. txeie \in BOOLEAN /\ reset \in BOOLEAN /\ overrun \in BOOLEAN
  BY Zenon DEF Init
<1>b. 0 \in Slots /\ 0 \in 0..MaxBytes
  BY TxAssumption DEF Slots
<1>1. TypeOK
  BY <1>a, <1>b DEF Init, TypeOK
<1>2. Queued = {}
  BY DEF Init, Queued, Slots, Ahead
<1>3. QueuedUnlessOverrun
  BY <1>2 DEF Init, QueuedUnlessOverrun, AllQueued, Unsent
<1>4. TxRunning /\ WriterInv
  BY DEF Init, TxRunning, WriterInv
<1> QED
  BY <1>1, <1>3, <1>4 DEF IInv

\* Only Store, Advance and the interrupt change the ring or what is on it.
LEMMA QueueFrame ==
  ASSUME AllQueued, UNCHANGED <<buffer, head, tail, accepted, sent>>
  PROVE  AllQueued'
BY DEF AllQueued, Queued, Ahead, Unsent

\* A byte stored at head is not on the ring yet.
LEMMA StoreKeepsQueue ==
  ASSUME TypeOK, AllQueued, Store
  PROVE  AllQueued'
<1>1. buffer' = [buffer EXCEPT ![head] = byte] /\ head' = head /\ tail' = tail /\ Unsent' = Unsent
  BY DEF Store, sentVars, Unsent
<1>2. Queued' = Queued
  BY <1>1 DEF Queued, Ahead
<1>3. \A i \in Queued : i \in Slots /\ i # head
  BY TxAssumption DEF Queued, TypeOK, Slots, Ahead
<1>4. \A i \in Queued : buffer'[i] = buffer[i]
  BY <1>1, <1>3 DEF TypeOK
<1>5. \A i : Ahead(i)' = Ahead(i)
  BY <1>1 DEF Ahead
<1> QED
  BY <1>1, <1>2, <1>4, <1>5 DEF AllQueued

\* Advancing head puts the stored byte at the end of the queue.
LEMMA AdvanceKeepsQueue ==
  ASSUME IInv, ~overrun, Advance
  PROVE  AllQueued'
<1>1. /\ head' = After(head) /\ head' # tail /\ buffer[head] = byte
      /\ \A b \in accepted : b < byte
      /\ buffer' = buffer /\ tail' = tail /\ accepted' = accepted \cup {byte} /\ sent' = sent
      /\ sent \subseteq accepted
  BY DEF Advance, IInv, WriterInv
<1>2. AllQueued /\ TypeOK
  BY DEF IInv, QueuedUnlessOverrun
<1>c. byte \in Nat /\ byte \notin sent
  BY <1>1, <1>2 DEF TypeOK
<1>d. Unsent' = Unsent \cup {byte} /\ \A b \in Unsent : b < byte
  BY <1>1, <1>c DEF Unsent
<1>4. \A i : Ahead(i)' = Ahead(i)
  BY <1>1 DEF Ahead
<1>a. head \in Slots /\ tail \in Slots /\ head' \in Slots
  BY <1>1, <1>2, AfterType DEF TypeOK
<1>b. ASSUME NEW i \in Slots
      PROVE  Ahead(i) < Ahead(head)' <=> Ahead(i) < Ahead(head) \/ i = head
  BY <1>1, <1>a, TxAssumption DEF Ahead, After, Slots
<1>3. Queued' = Queued \cup {head}
  BY <1>4, <1>a, <1>b DEF Queued, Slots
<1>5. \A i \in Queued : Ahead(i) < Ahead(head) /\ buffer[i] \in Unsent
  BY <1>2 DEF Queued, AllQueued
<1>6. Unsent' = {buffer'[i] : i \in Queued'}
  BY <1>1, <1>2, <1>3, <1>d DEF AllQueued
<1>7. ASSUME NEW i \in Queued', NEW j \in Queued', Ahead(i)' < Ahead(j)'
      PROVE  buffer'[i] < buffer'[j]
  <2>1. head \in Slots /\ tail \in Slots /\ i \in Slots
    BY <1>2, <1>3 DEF TypeOK, Queued
  <2>2. i # head
    BY <1>3, <1>4, <1>5, <1>7, <2>1, TxAssumption DEF Ahead, Slots
  <2>3. CASE j = head
    BY <1>1, <1>3, <1>5, <1>d, <2>2, <2>3
  <2>4. CASE j # head
    BY <1>1, <1>2, <1>3, <1>4, <1>7, <2>2, <2>4 DEF AllQueued
  <2> QED
    BY <2>3, <2>4
<1> QED
  BY <1>6, <1>7 DEF AllQueued

\* On a ring that is not empty the interrupt takes the first byte of the queue.
LEMMA UdreKeepsQueue ==
  ASSUME TypeOK, AllQueued, Udre, head # tail
  PROVE  AllQueued'
<1>1. /\ tail' = After(tail) /\ head' = head /\ buffer' = buffer
      /\ Unsent' = Unsent \ {buffer[tail]}
  BY DEF Udre, Unsent
<1>2. tail \in Queued /\ Ahead(tail) = 0 /\ Queued \subseteq Slots
  BY TxAssumption DEF Queued, Ahead, TypeOK, Slots
<1>a. head \in Slots /\ tail \in Slots
  BY DEF TypeOK
<1>b. ASSUME NEW i \in Slots
      PROVE  Ahead(i)' < Ahead(head)' <=> Ahead(i) < Ahead(head) /\ i # tail
  BY <1>1, <1>a, TxAssumption DEF Ahead, After, Slots
<1>3. Queued' = Queued \ {tail}
  BY <1>b, <1>a DEF Queued, Slots
<1>4. \A i \in Queued : i # tail => Ahead(i) > 0 /\ Ahead(i)' = Ahead(i) - 1
  BY <1>1, <1>2, TxAssumption DEF Ahead, After, Slots, TypeOK, Queued
<1>5. \A i \in Queued : i # tail => buffer[tail] < buffer[i]
  BY <1>2, <1>4 DEF AllQueued
<1>6. \A i \in Queued : buffer[i] \in 0..MaxBytes
  BY <1>2 DEF TypeOK
<1>7. \A i \in Queued : i # tail => buffer[i] # buffer[tail]
  BY <1>2, <1>5, <1>6, TxAssumption
<1>8. Unsent' = {buffer'[i] : i \in Queued'}
  BY <1>1, <1>2, <1>3, <1>7 DEF AllQueued
<1>9. ASSUME NEW i \in Queued', NEW j \in Queued', Ahead(i)' < Ahead(j)'
      PROVE  buffer'[i] < buffer'[j]
  <2>1. i \in Queued /\ j \in Queued /\ i # tail /\ j # tail
    BY <1>3
  <2>2. Ahead(i) \in Int /\ Ahead(j) \in Int
    BY <1>2, <2>1, TxAssumption DEF Ahead, Slots, TypeOK
  <2>3. Ahead(i) < Ahead(j)
    BY <1>4, <1>9, <2>1, <2>2
  <2> QED
    BY <1>1, <2>1, <2>3 DEF AllQueued
<1> QED
  BY <1>8, <1>9 DEF AllQueued

\* Type correctness is preserved by every step.
LEMMA NextType ==
  ASSUME TypeOK, WriterInv, [Next]_vars
  PROVE  TypeOK'
<1> USE TxAssumption
<1>1. CASE Call
  BY <1>1, AfterType DEF Call, TypeOK, sentVars
<1>2. CASE Space \/ Drop
  BY <1>2 DEF Space, Drop, TypeOK, sentVars
<1>3. CASE Store
  BY <1>3 DEF Store, TypeOK, sentVars
<1>4. CASE Advance
  <2>1. byte \in 1..MaxBytes
    BY <1>4 DEF TypeOK, WriterInv, Advance
  <2> QED
    BY <1>4, <2>1 DEF Advance, TypeOK
<1>5. CASE Enable
  BY <1>5 DEF Enable, TypeOK, sentVars
<1>6. CASE Udre
  <2>1. tail' \in Slots
    BY <1>6, AfterType DEF Udre, TypeOK
  <2>2. txeie' \in BOOLEAN /\ overrun' \in BOOLEAN
    BY <1>6, Zenon DEF Udre, TypeOK
  <2>3. UNCHANGED <<pc, byte, next_head, buffer, head, reset, accepted>>
    BY <1>6 DEF Udre
  <2>4. sent' \subseteq 0..MaxBytes
    BY <1>6 DEF Udre, TypeOK
  <2> QED
    BY <2>1, <2>2, <2>3, <2>4 DEF TypeOK
<1>7. CASE ResetSet \/ ResetClear
  BY <1>7 DEF ResetSet, ResetClear, TypeOK, sentVars
<1>8. CASE UNCHANGED vars
  BY <1>8 DEF vars, sentVars, TypeOK
<1> QED
  BY <1>1, <1>2, <1>3, <1>4, <1>5, <1>6, <1>7, <1>8 DEF Next, SerialWrite

\* The ring is served at every stage of serial_write and of the interrupt.
LEMMA NextRunning ==
  ASSUME TypeOK, TxRunning, [Next]_vars
  PROVE  TxRunning'
<1>1. CASE Advance
  BY <1>1 DEF Advance, TxRunning
<1>2. CASE Enable
  BY <1>2 DEF Enable, TxRunning
<1>3. CASE Udre
  BY <1>3 DEF Udre, TxRunning
<1>4. CASE Call \/ Space \/ Drop \/ Store \/ ResetSet \/ ResetClear \/ UNCHANGED vars
  BY <1>4 DEF Call, Space, Drop, Store, ResetSet, ResetClear, vars, TxRunning
<1> QED
  BY <1>1, <1>2, <1>3, <1>4 DEF Next, SerialWrite

\* What serial_write knows stays true when the interrupt runs in between: the
\* interrupt makes room on the ring and never takes it away.
LEMMA NextWriter ==
  ASSUME IInv, [Next]_vars
  PROVE  WriterInv'
<1>1. TypeOK /\ WriterInv
  BY DEF IInv
<1>2. byte \in Nat /\ \A b \in accepted : b \in Int /\ b <= byte
  BY <1>1 DEF TypeOK, WriterInv
<1>4. CASE Call
  <2>1. /\ byte' = byte + 1 /\ next_head' = After(head) /\ head' = head
        /\ accepted' = accepted /\ sent' = sent /\ overrun' = overrun /\ pc' = "wait"
    BY <1>4 DEF Call, sentVars
  <2>2. byte' >= 1 /\ \A b \in accepted : b < byte' /\ b <= byte'
    BY <1>2, <2>1
  <2> QED
    BY <1>1, <2>1, <2>2 DEF WriterInv, After
<1>5. CASE Space
  BY <1>1, <1>5 DEF Space, WriterInv, After, sentVars
<1>6. CASE Drop
  BY <1>1, <1>6 DEF Drop, WriterInv, After, sentVars
<1>7. CASE Store
  BY <1>1, <1>7 DEF Store, WriterInv, After, sentVars, TypeOK
<1>8. CASE Advance
  BY <1>1, <1>2, <1>8 DEF Advance, WriterInv
<1>9. CASE Enable
  BY <1>1, <1>9 DEF Enable, WriterInv, sentVars
<1>10. CASE Udre
  <2>1. /\ UNCHANGED <<pc, byte, next_head, buffer, head, accepted>>
        /\ tail' = After(tail) /\ sent' = sent \cup {buffer[tail]}
        /\ overrun' = (overrun \/ head = tail)
    BY <1>10 DEF Udre
  <2>2. head \in Slots /\ tail \in Slots
    BY <1>1 DEF TypeOK
  <2>3. head # tail => After(tail) # After(head)
    BY <2>2, TxAssumption DEF After, Slots
  <2>4. overrun' \/ sent' \subseteq accepted
    <3> SUFFICES ASSUME ~overrun' PROVE sent' \subseteq accepted
      OBVIOUS
    <3>1. ~overrun /\ head # tail
      BY <2>1, Zenon
    <3>2. tail \in Queued
      BY <2>2, <3>1, TxAssumption DEF Queued, Ahead, Slots
    <3>3. buffer[tail] \in Unsent
      BY <3>1, <3>2 DEF IInv, QueuedUnlessOverrun, AllQueued
    <3> QED
      BY <1>1, <2>1, <3>1, <3>3 DEF WriterInv, Unsent
  <2> QED
    BY <1>1, <2>1, <2>3, <2>4 DEF WriterInv, After
<1>11. CASE ResetSet \/ ResetClear \/ UNCHANGED vars
  BY <1>1, <1>11 DEF ResetSet, ResetClear, vars, sentVars, WriterInv, After
<1> QED
  BY <1>4, <1>5, <1>6, <1>7, <1>8, <1>9, <1>10, <1>11 DEF Next, SerialWrite

\* No step breaks the queue while the interrupt has found it non-empty every time.
LEMMA NextQueue ==
  ASSUME IInv, [Next]_vars
  PROVE  QueuedUnlessOverrun'
<1> SUFFICES ASSUME ~overrun' PROVE AllQueued'
  BY DEF QueuedUnlessOverrun
<1>0. TypeOK
  BY DEF IInv
<1>a. ASSUME Udre PROVE overrun => overrun'
  BY <1>a, Zenon DEF Udre
<1>b. ASSUME [Next]_vars, ~Udre PROVE overrun' = overrun
  BY <1>b DEF Next, SerialWrite, Call, Space, Drop, Store, Advance, Enable,
         ResetSet, ResetClear, vars, sentVars
<1>1. ~overrun
  <2>1. CASE Udre
    BY <1>a, <2>1
  <2>2. CASE ~Udre
    BY <1>b, <2>2
  <2> QED
    BY <2>1, <2>2
<1>2. AllQueued /\ ~overrun
  BY <1>1 DEF IInv, QueuedUnlessOverrun
<1>3. CASE Store
  BY <1>0, <1>2, <1>3, StoreKeepsQueue
<1>4. CASE Advance
  BY <1>2, <1>4, AdvanceKeepsQueue
<1>5. CASE Udre
  <2>1. head # tail
    BY <1>5 DEF Udre
  <2> QED
    BY <1>0, <1>2, <1>5, <2>1, UdreKeepsQueue
<1>6. CASE Call \/ Space \/ Drop \/ Enable \/ ResetSet \/ ResetClear \/ UNCHANGED vars
  <2>1. UNCHANGED <<buffer, head, tail, accepted, sent>>
    BY <1>6 DEF Call, Space, Drop, Enable, ResetSet, ResetClear, vars, sentVars
  <2> QED
    BY <1>2, <2>1, QueueFrame
<1> QED
  BY <1>3, <1>4, <1>5, <1>6 DEF Next, SerialWrite

\* The invariant holds in every reachable state.
THEOREM Invariance == Spec => []IInv
<1>1. IInv /\ [Next]_vars => IInv'
  BY NextType, NextRunning, NextWriter, NextQueue DEF IInv
<1> QED
  BY InitInv, <1>1, PTL DEF Spec

\* The indices never leave the ring.
THEOREM TypeCorrect == Spec => []TypeOK
BY Invariance, PTL DEF IInv

\* Whatever the interleaving, a ring that is not empty is being drained.
THEOREM NeverStuck == Spec => []TxRunning
BY Invariance, PTL DEF IInv

\* Bytes are lost or reordered only after the interrupt has run on an empty ring.
THEOREM LostOnlyAfterOverrun == Spec => []QueuedUnlessOverrun
BY Invariance, PTL DEF IInv

=============================================================================

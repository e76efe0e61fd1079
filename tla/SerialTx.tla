----------------------------- MODULE SerialTx -----------------------------
(***************************************************************************)
(* The transmit side of drivers/grbl/serial.c: serial_write, called by the *)
(* main program for every character of a report, and the data-register-    *)
(* empty part of the USART1 interrupt, which sends them.  They share the   *)
(* ring's two indices and the TXEIE bit of CR1, and neither masks the      *)
(* other, so serial_write is split at each access to a shared variable.    *)
(*                                                                         *)
(* A byte is the number of the serial_write call that was given it.        *)
(***************************************************************************)
EXTENDS Integers

CONSTANTS
  TX_RING_BUFFER,   \* serial.c: TX_BUFFER_SIZE + 1 slots
  MaxBytes          \* bound: calls of serial_write

ASSUME TxAssumption ==
  /\ TX_RING_BUFFER \in Nat /\ TX_RING_BUFFER >= 2 /\ TX_RING_BUFFER < 256   \* uint8_t indices
  /\ MaxBytes \in Nat

VARIABLES
  pc,         \* where serial_write stands; "idle" outside it
  byte,       \* the byte of this call, or of the last one
  next_head,  \* serial_write's local
  buffer, head, tail,
  txeie,      \* CR1.TXEIE: the interrupt fires whenever the data register is empty
  reset,      \* EXEC_RESET is set
  accepted,   \* history: bytes put on the ring
  sent,       \* history: bytes that the interrupt has sent; 0 is what the ring held at first
  overrun     \* history: the interrupt took a byte from an empty ring

sentVars == <<accepted, sent, overrun>>
Unsent == accepted \ sent
vars == <<pc, byte, next_head, buffer, head, tail, txeie, reset, sentVars>>

Slots == 0 .. TX_RING_BUFFER - 1

\* Mutant of After: the index is wrapped one slot too late.
AfterLate(i) == IF i + 1 > TX_RING_BUFFER THEN 0 ELSE i + 1

\* Both sides: increment, wrap at TX_RING_BUFFER.
After(i) == IF i + 1 = TX_RING_BUFFER THEN 0 ELSE i + 1

Init ==
  /\ pc = "idle" /\ byte = 0 /\ next_head = 0
  /\ buffer = [i \in Slots |-> 0]
  /\ head = 0 /\ tail = 0
  /\ txeie = FALSE                 \* serial_init enables only RXNE
  /\ reset = FALSE /\ accepted = {} /\ sent = {} /\ overrun = FALSE

-----------------------------------------------------------------------------
(* serial_write *)

Call ==
  /\ pc = "idle" /\ byte < MaxBytes
  /\ pc' = "wait"
  /\ byte' = byte + 1
  /\ next_head' = After(head)
  /\ UNCHANGED <<buffer, head, tail, txeie, reset, sentVars>>

\* Mutant of Space: the writer does not wait.
SpaceUnchecked == pc = "wait" /\ pc' = "store" /\ UNCHANGED <<byte, next_head, buffer, head, tail, txeie, reset, sentVars>>

\* The while loop ends: there is space.
Space ==
  /\ pc = "wait" /\ next_head # tail
  /\ pc' = "store"
  /\ UNCHANGED <<byte, next_head, buffer, head, tail, txeie, reset, sentVars>>

\* Full, and a reset is pending: the byte is dropped.
Drop ==
  /\ pc = "wait" /\ next_head = tail /\ reset
  /\ pc' = "idle"
  /\ UNCHANGED <<byte, next_head, buffer, head, tail, txeie, reset, sentVars>>

Store ==
  /\ pc = "store"
  /\ buffer' = [buffer EXCEPT ![head] = byte]
  /\ pc' = "advance"
  /\ UNCHANGED <<byte, next_head, head, tail, txeie, reset, sentVars>>

Advance ==
  /\ pc = "advance"
  /\ head' = next_head
  /\ accepted' = accepted \cup {byte}
  /\ pc' = "enable"
  /\ UNCHANGED <<byte, next_head, buffer, tail, txeie, reset, sent, overrun>>

\* Mutant of Enable: only an empty ring's interrupt is started, but the ring is looked
\* at after the byte was put on it.
EnableIfIdle ==
  /\ pc = "enable"
  /\ txeie' = (txeie \/ tail = head)
  /\ pc' = "idle"
  /\ UNCHANGED <<byte, next_head, buffer, head, tail, reset, sentVars>>

\* UCSR0B |= ...: a read, an OR and a write of CR1, with interrupts in between.  Of the
\* bits of CR1 only TXEIE ever changes, and whatever the read found, the write leaves it
\* set: the three do what one step at the write does.  An update with the interrupts
\* masked would be this step as well, so nothing below depends on its not being masked.
Enable ==
  /\ pc = "enable"
  /\ txeie' = TRUE
  /\ pc' = "idle"
  /\ UNCHANGED <<byte, next_head, buffer, head, tail, reset, sentVars>>

-----------------------------------------------------------------------------
(* Interrupts *)

\* Mutant of Udre: TXEIE is switched off before the last byte is sent.
UdreStopsEarly ==
  /\ txeie
  /\ sent' = sent \cup {buffer[tail]}
  /\ overrun' = (overrun \/ head = tail)
  /\ tail' = After(tail)
  /\ txeie' = (After(tail') # head)
  /\ UNCHANGED <<pc, byte, next_head, buffer, head, reset, accepted>>

\* usart1_udr_empty_isr: it sends a byte before it looks whether there is one.
Udre ==
  /\ txeie
  /\ sent' = sent \cup {buffer[tail]}
  /\ overrun' = (overrun \/ head = tail)
  /\ tail' = After(tail)
  /\ txeie' = (tail' # head)
  /\ UNCHANGED <<pc, byte, next_head, buffer, head, reset, accepted>>

\* mc_reset in an interrupt; the main program clears the flag when it restarts,
\* outside serial_write.
ResetSet ==
  /\ ~reset /\ reset' = TRUE
  /\ UNCHANGED <<pc, byte, next_head, buffer, head, tail, txeie, sentVars>>

ResetClear ==
  /\ pc = "idle" /\ reset /\ reset' = FALSE
  /\ UNCHANGED <<pc, byte, next_head, buffer, head, tail, txeie, sentVars>>

SerialWrite == Call \/ Space \/ Drop \/ Store \/ Advance \/ Enable
Next == SerialWrite \/ Udre \/ ResetSet \/ ResetClear

Spec == Init /\ [][Next]_vars

\* The main program runs when no interrupt does, and the USART empties its data
\* register in bounded time.
Fairness == WF_vars(Space \/ Drop \/ Store \/ Advance \/ Enable) /\ WF_vars(Udre)
FairSpec == Spec /\ Fairness

-----------------------------------------------------------------------------
(* Properties *)

\* The indices stay inside the ring and the history holds only bytes written so far.
TypeOK ==
  /\ pc \in {"idle", "wait", "store", "advance", "enable"}
  /\ byte \in 0..MaxBytes
  /\ next_head \in Slots
  /\ buffer \in [Slots -> 0..MaxBytes]
  /\ head \in Slots /\ tail \in Slots
  /\ txeie \in BOOLEAN /\ reset \in BOOLEAN
  /\ overrun \in BOOLEAN
  /\ accepted \subseteq 1..MaxBytes /\ sent \subseteq 0..MaxBytes

\* How many bytes the interrupt sends before it reaches slot i.
Ahead(i) == IF i >= tail THEN i - tail ELSE i - tail + TX_RING_BUFFER

\* The ring never holds bytes that no interrupt will come for, whichever way the
\* two sides' updates of the indices and of TXEIE interleave: if it is not empty,
\* TXEIE is set, or serial_write is about to set it.
TxRunning == head # tail => txeie \/ pc = "enable"

\* The slots that the interrupt reaches before head.
Queued == {i \in Slots : Ahead(i) < Ahead(head)}

\* They hold the bytes accepted and not sent yet, in the order they were accepted.
AllQueued ==
  /\ Unsent = {buffer[i] : i \in Queued}
  /\ \A i, j \in Queued : Ahead(i) < Ahead(j) => buffer[i] < buffer[j]

\* As long as the interrupt has not run on an empty ring, no accepted byte is
\* overwritten, skipped or sent out of order, however the two sides interleave and
\* whichever bytes a pending reset drops.
QueuedUnlessOverrun == ~overrun => AllQueued

\* ... and it is sent at last.
SentUnlessOverrun == \A b \in 1..MaxBytes : b \in Unsent ~> b \in sent \/ overrun

\* The strengthening of TxRunning and QueuedUnlessOverrun that every step preserves:
\* what serial_write knows at each of its stages.
WriterInv ==
  /\ pc \in {"wait", "store", "advance"} => next_head = After(head)
  /\ pc # "idle" => byte >= 1
  /\ pc \in {"wait", "store", "advance"} => \A b \in accepted : b < byte
  /\ pc \in {"store", "advance"} => overrun \/ next_head # tail
  /\ pc = "advance" => buffer[head] = byte
  /\ \A b \in accepted : b <= byte
  /\ overrun \/ sent \subseteq accepted

IInv == TypeOK /\ TxRunning /\ QueuedUnlessOverrun /\ WriterInv

\* serial_write returns: a full ring is drained by the interrupt, whether or not a
\* reset comes.
WriteReturns == pc = "wait" ~> pc = "idle"

\* No accepted byte is overwritten before it is sent.  README.md:85 lists the lost "ok"
\* responses among the issues that are solved.
NoByteLost == \A b \in Unsent : \E i \in Slots : buffer[i] = b
=============================================================================

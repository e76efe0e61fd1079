----------------------------- MODULE LineReader -----------------------------
(***************************************************************************)
(* How lines get from the host to the parser: the USART1 receive interrupt *)
(* and its ring (drivers/grbl/serial.c), the main loop that assembles one  *)
(* line after the other from it (protocol_main_loop), and the reset that   *)
(* throws away what has been received.                                     *)
(*                                                                         *)
(* The host is external.  It counts characters, as config.h:454 expects:   *)
(* it keeps every character of an unanswered line on its books and never   *)
(* sends more than the receive buffer holds; after a reset it waits for    *)
(* the welcome message and starts a new count.                             *)
(*                                                                         *)
(* The ring is the sequence of the characters between its tail and its     *)
(* head; the arithmetic of the indices is that of SerialTx.                *)
(***************************************************************************)
EXTENDS Integers, Sequences

CONSTANTS
  RX_BUFFER_SIZE,     \* serial.h: characters the receive ring holds
  LINE_BUFFER_SIZE,   \* protocol.h: characters of a line and its terminator
  Alphabet            \* the characters the host sends

\* A letter in either case, what is skipped (white space and "/"), and what starts or
\* ends comments and lines.
Letters == {"G", "g"}
ASSUME ReaderAssumption ==
  /\ RX_BUFFER_SIZE \in 2..254 /\ LINE_BUFFER_SIZE \in 1..255   \* uint8_t indices
  /\ Alphabet \subseteq Letters \cup {"space", "open", "close", "semicolon", "eol"}

VARIABLES
  \* --- host
  pending,      \* the characters of its unanswered lines
  waiting,      \* it has sent a reset and waits for the welcome message
  \* --- USART1
  dr,           \* its data register: a character, "reset" or "none"
  \* --- receive ring and real-time flag, shared with the interrupt
  rx,           \* serial_rx_buffer[] from the tail up to the head
  reset,        \* EXEC_RESET, and sys.abort once it has been seen
  \* --- main program
  pc,
  c,            \* the character it has read, until it is dealt with
  line,         \* line[0..char_counter-1]
  line_flags

hostVars == <<pending, waiting>>
lineVars == <<line, line_flags>>
vars == <<hostVars, dr, rx, reset, pc, c, lineVars>>

Init ==
  /\ pending = <<>> /\ waiting = FALSE /\ dr = "none"
  /\ rx = <<>> /\ reset = FALSE
  /\ pc = "read" /\ c = "none" /\ line = <<>> /\ line_flags = {}

-----------------------------------------------------------------------------
(* The host and the wire *)

\* A character reaches the data register after the interrupt has read the one before.
\* (Were the interrupt later than that, the hardware would lose the character.)
Arrive(x) == dr = "none" /\ dr' = x

\* Room is kept for the end of the line.
Send(x) ==
  /\ ~waiting
  /\ Len(pending) + (IF x = "eol" THEN 1 ELSE 2) <= RX_BUFFER_SIZE
  /\ Arrive(x) /\ pending' = Append(pending, x)
  /\ UNCHANGED <<waiting, rx, reset, pc, c, lineVars>>

SendReset ==
  /\ ~waiting /\ waiting' = TRUE
  /\ Arrive("reset")
  /\ UNCHANGED <<pending, rx, reset, pc, c, lineVars>>

-----------------------------------------------------------------------------
(* The receive interrupt *)

\* Mutant of Full: one more slot is kept free.
FullEarly == Len(rx) >= RX_BUFFER_SIZE - 1

\* The one free slot that tells a full ring from an empty one is not counted.
Full == Len(rx) = RX_BUFFER_SIZE

\* The other real-time characters set flags of their own, which Realtime and Overrides
\* take up; none of them reaches the ring.
RxIsr ==
  /\ dr # "none" /\ dr' = "none"
  /\ IF dr = "reset" THEN reset' = TRUE /\ UNCHANGED rx
     ELSE rx' = (IF Full THEN rx ELSE Append(rx, dr)) /\ UNCHANGED reset
  /\ UNCHANGED <<hostVars, pc, c, lineVars>>

-----------------------------------------------------------------------------
(* The main loop *)

\* serial_read() up to its update of the tail.
Read ==
  /\ pc = "read" /\ rx # <<>>
  /\ c' = Head(rx) /\ pc' = "consume"
  /\ UNCHANGED <<hostVars, dr, rx, reset, lineVars>>

Upcase(x) == IF x = "g" THEN "G" ELSE x

\* Mutant of Filter: the place of the terminator is not kept.
FilterOffByOne ==
  IF line_flags # {}
  THEN line_flags' = (IF c = "close" THEN line_flags \ {"open"} ELSE line_flags) /\ UNCHANGED line
  ELSE CASE c = "space" -> UNCHANGED lineVars
         [] c \in {"open", "semicolon"} -> line_flags' = {c} /\ UNCHANGED line
         [] c \notin {"space", "open", "semicolon"} ->
              IF Len(line) > LINE_BUFFER_SIZE - 1
              THEN line_flags' = {"OVERFLOW"} /\ UNCHANGED line
              ELSE line' = Append(line, Upcase(c)) /\ UNCHANGED line_flags

\* What a character other than the end of the line does to the line.  The comment flags
\* are named by the character that sets them.
Filter ==
  IF line_flags # {}
  THEN line_flags' = (IF c = "close" THEN line_flags \ {"open"} ELSE line_flags) /\ UNCHANGED line
  ELSE CASE c = "space" -> UNCHANGED lineVars
         [] c \in {"open", "semicolon"} -> line_flags' = {c} /\ UNCHANGED line
         [] c \notin {"space", "open", "semicolon"} ->
              IF Len(line) >= LINE_BUFFER_SIZE - 1
              THEN line_flags' = {"OVERFLOW"} /\ UNCHANGED line
              ELSE line' = Append(line, Upcase(c)) /\ UNCHANGED line_flags

\* The rest of serial_read(), and the character.
Consume ==
  /\ pc = "consume"
  /\ rx' = Tail(rx) /\ c' = "none"
  /\ IF c = "eol" THEN pc' = "eol" /\ UNCHANGED lineVars ELSE pc' = "read" /\ Filter
  /\ UNCHANGED <<hostVars, dr, reset>>

\* The check points: at the end of a line, and when the ring is empty.
EndOfLine ==
  /\ pc = "eol" /\ pc' = IF reset THEN "abort" ELSE "execute"
  /\ UNCHANGED <<hostVars, dr, rx, reset, c, lineVars>>

\* Mutant of NoMore: a pass with nothing received does not look at the abort.
NoMoreUnchecked ==
  /\ pc = "read" /\ rx = <<>>
  /\ UNCHANGED vars

NoMore ==
  /\ pc = "read" /\ rx = <<>>
  /\ pc' = IF reset THEN "abort" ELSE "read"
  /\ UNCHANGED <<hostVars, dr, rx, reset, c, lineVars>>

\* The host drops the line that has been answered from its books.
Ends == {i \in DOMAIN pending : pending[i] = "eol"}
FirstEnd == CHOOSE i \in Ends : \A j \in Ends : i <= j
Drop == IF Ends = {} THEN <<>> ELSE SubSeq(pending, FirstEnd + 1, Len(pending))

\* Mutant of Execute: a line without a command is not answered.
ExecuteSilent ==
  /\ pc = "execute" /\ pc' = "read"
  /\ pending' = (IF line = <<>> THEN pending ELSE Drop)
  /\ line' = <<>> /\ line_flags' = {}
  /\ UNCHANGED <<waiting, dr, rx, reset, c>>

\* Every line is executed, or refused, and answered with one status message, also an
\* empty one and one that was too long.
Execute ==
  /\ pc = "execute" /\ pc' = "read"
  /\ pending' = Drop
  /\ line' = <<>> /\ line_flags' = {}
  /\ UNCHANGED <<waiting, dr, rx, reset, c>>

-----------------------------------------------------------------------------
(* scheduler_run() after an abort, in its order *)

ClearFlags ==
  /\ pc = "abort" /\ pc' = "clear" /\ reset' = FALSE
  /\ UNCHANGED <<hostVars, dr, rx, c, lineVars>>

\* Mutant of ResetReadBuffer: the ring is not cleared.
ResetReadBufferNot ==
  /\ pc = "clear" /\ pc' = "welcome"
  /\ UNCHANGED <<hostVars, dr, rx, reset, c, lineVars>>

\* serial_reset_read_buffer()
ResetReadBuffer ==
  /\ pc = "clear" /\ pc' = "welcome" /\ rx' = <<>>
  /\ UNCHANGED <<hostVars, dr, reset, c, lineVars>>

\* report_init_message(), and a new protocol_main_loop() with its own line.
Welcome ==
  /\ pc = "welcome" /\ pc' = "read"
  /\ pending' = <<>> /\ waiting' = FALSE
  /\ line' = <<>> /\ line_flags' = {}
  /\ UNCHANGED <<dr, rx, reset, c>>

Main == \/ Read \/ Consume \/ EndOfLine \/ NoMore \/ Execute
        \/ ClearFlags \/ ResetReadBuffer \/ Welcome
Next == (\E x \in Alphabet : Send(x)) \/ SendReset \/ RxIsr \/ Main
Spec == Init /\ [][Next]_vars

\* The interrupt is served, and the main program runs when none is; a line takes a
\* bounded time, for an operator does not hold the machine for ever.
FairSpec == Spec /\ WF_vars(RxIsr) /\ WF_vars(Main)

-----------------------------------------------------------------------------
(* Properties *)

\* The ring holds what it may, and the line with its terminator inside its buffer.
TypeOK ==
  /\ pending \in Seq(Alphabet) /\ Len(pending) <= RX_BUFFER_SIZE /\ waiting \in BOOLEAN
  /\ dr \in Alphabet \cup {"reset", "none"}
  /\ rx \in Seq(Alphabet) /\ Len(rx) <= RX_BUFFER_SIZE
  /\ reset \in BOOLEAN /\ c \in Alphabet \cup {"none"}
  /\ pc \in {"read", "consume", "eol", "execute", "abort", "clear", "welcome"}
  /\ line \in Seq({"G", "close"}) /\ Len(line) < LINE_BUFFER_SIZE
  /\ line_flags \in SUBSET {"open", "semicolon", "OVERFLOW"}

\* A host that counts characters never finds the ring full: RX_BUFFER_SIZE, which
\* report_build_info() announces, really fits, whatever the main loop has or has not
\* read meanwhile.
NeverFull == dr \in Alphabet => ~Full

\* What comments leave of a line s: the comment that each position is in, and the text up to
\* each position, for the line as a whole.
CommentAfter(before, x) ==
  IF before = "none" /\ x \in {"open", "semicolon"} THEN x
  ELSE IF before = "open" /\ x = "close" THEN "none"
  ELSE before
Comment(s) ==
  LET after[i \in Nat] == IF i = 0 THEN "none" ELSE CommentAfter(after[i - 1], s[i])
  IN after

TextAfter(before, s, i) ==
  IF Comment(s)[i - 1] = "none" /\ s[i] \notin {"space", "open", "semicolon", "eol"}
  THEN Append(before, Upcase(s[i]))
  ELSE before
TextUpTo(s) ==
  LET text[i \in Nat] == IF i = 0 THEN <<>> ELSE TextAfter(text[i - 1], s, i)
  IN text
Text(s) == TextUpTo(s)[Len(s)]

\* The line that is executed is the host's first unanswered line, whole and without its
\* comments and spaces, and it is refused exactly if the rest is too long: through
\* every interleaving of the interrupt with the main loop, and after every reset,
\* nothing is lost, doubled, left over from an earlier line or cut short.
LineIntact ==
  pc = "execute" =>
    /\ Ends # {}
    /\ LET text == Text(SubSeq(pending, 1, FirstEnd)) IN
       IF Len(text) < LINE_BUFFER_SIZE THEN line = text /\ "OVERFLOW" \notin line_flags
       ELSE "OVERFLOW" \in line_flags

\* Every line gets its answer, so that a host that waits for room goes on: sender and
\* receiver never wait for each other.
Answered == []<>(Ends = {} \/ waiting) \/ []<><<Execute>>_vars

\* A reset is honoured wherever the main loop stands, and with nothing more to read.
ResetAnswered == waiting ~> ~waiting
=============================================================================

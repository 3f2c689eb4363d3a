----------------------------- MODULE Usart2530 ------------------------------
(***************************************************************************)
(* A USART of the CC2530: cl_CC2530_usart.                                 *)
(*                                                                         *)
(* A write of UxDBUF starts a transmission, or queues one byte while one   *)
(* runs; a bit is shifted out and one shifted in at every tick of the baud *)
(* clock while UxCSR.ACTIVE is set.  What is received is a fixed table of  *)
(* bits.  Both directions share ACTIVE and the cell of UxDBUF.             *)
(*                                                                         *)
(* The order bit of UxGCR is tested with && and the flush bit of UxUCR     *)
(* against 1: bits always go MSB first and nothing is ever flushed.  A     *)
(* reception ends when its count equals the length of the format: when the *)
(* format gets shorter meanwhile, it goes on behind the end of the table.  *)
(*                                                                         *)
(* The state is the record us.  The last fields are history: the byte of   *)
(* the current frame and of the queued one, whether a reception stored to  *)
(* UxDBUF since that was written, whether the frame was not queued,        *)
(* whether its format stayed, its levels, and a frame that was wrong.      *)
(***************************************************************************)
EXTENDS Integers, Sequences, FiniteSets

CONSTANTS
  UsartBytes,   \* bytes the program sends
  MaxBits       \* bits of one reception that are followed

ASSUME UsartAssumption == UsartBytes \subseteq 0 .. 255 /\ MaxBits \in Nat

VARIABLE us

Bit7(v) == (v \div 128) % 2 = 1

Ones(v) == Cardinality({b \in 0 .. 7 : (v \div 2^b) % 2 = 1})

\* testTab: start bit, 10101010, parity, stop; what lies behind it is read
\* as the twelfth bit
testTab == <<FALSE, TRUE, FALSE, TRUE, FALSE, TRUE, FALSE, TRUE, FALSE, TRUE, TRUE>>

NoCsr == [uart |-> FALSE, slave |-> FALSE, active |-> FALSE, err |-> FALSE, fe |-> FALSE,
          rx |-> FALSE, tx |-> FALSE]

\* cl_CC2530_usart::reset and clear_sfr.  BaudFactor becomes 0, which no tick
\* reaches, and the shift registers stay.
usart_reset(t, r) ==
  [csr |-> NoCsr, dbuf |-> 0, regForTx |-> t, regForRx |-> r, TX |-> FALSE, RX |-> FALSE,
   slave |-> FALSE, queue |-> FALSE, bitTxCnt |-> 0, bitRxCnt |-> 0, BitNumber |-> 0,
   StopBits |-> 0, startBit |-> FALSE, even |-> FALSE, TxParity |-> FALSE, baud |-> FALSE,
   urxif |-> FALSE, utxif |-> FALSE,
   asked |-> 0, waiting |-> 0, spoiled |-> FALSE, direct |-> FALSE, steady |-> FALSE,
   bits |-> <<>>, broken |-> FALSE]

parity_check(u, v) == IF u.even THEN Ones(v) % 2 = 1 ELSE Ones(v) % 2 = 0

\* the levels that differ from each other
stopBit(u) == ~u.startBit
-----------------------------------------------------------------------------
\* the bits of a byte, from the most significant one
Weight == <<128, 64, 32, 16, 8, 4, 2, 1>>

DataBit(v, i) == (v \div Weight[i]) % 2 = 1

\* the levels of a byte on the line
FrameLength(u) == IF u.BitNumber = 0 THEN 10 ELSE u.BitNumber + u.StopBits + 1

Level(u, v, i) ==
  CASE i = 1                       -> u.startBit
    [] i \in 2 .. 9                -> DataBit(v, i - 1)
    [] i = 10 /\ u.BitNumber = 9   -> parity_check(u, v)
    [] OTHER                       -> stopBit(u)

Frame(u, v) == [i \in 1 .. FrameLength(u) |-> Level(u, v, i)]

\* history: the frame is what the program asked for.  A queued byte goes out
\* with the parity of the byte before it.
Right(u) ==
  u.steady /\ (u.direct \/ u.BitNumber # 9) => u.bits = Frame(u, u.asked)

\* The end of a transmission starts the queued byte: its parity goes to
\* another variable, and TxParity stays.
EndTx(u) ==
  LET e == [u EXCEPT !.TX = FALSE, !.bitTxCnt = 0, !.csr.tx = TRUE, !.utxif = TRUE,
                     !.broken = @ \/ ~Right(u), !.bits = <<>>, !.steady = FALSE]
  IN  IF u.queue
      THEN [e EXCEPT !.TX = TRUE, !.regForTx = u.dbuf, !.queue = FALSE,
                     !.asked = u.waiting, !.direct = FALSE, !.steady = ~u.spoiled]
      ELSE [e EXCEPT !.csr.active = FALSE]

Put(u, level) == [u EXCEPT !.bits = IF Len(@) < 12 THEN Append(@, level) ELSE @]

\* Fault: the last data bit is taken for the first bit after the data.
Fault_Shift_out(u) ==
  LET n == u.bitTxCnt + 1
      s == [u EXCEPT !.bitTxCnt = n]
      level == IF u.BitNumber = 9 /\ n = 10 THEN u.TxParity ELSE stopBit(u)
  IN  IF n <= 1 THEN Put(s, u.startBit)
      ELSE IF n < 9 THEN [Put(s, Bit7(u.regForTx)) EXCEPT !.regForTx = (@ * 2) % 256]
      ELSE IF n >= u.BitNumber + u.StopBits + 1 THEN EndTx(Put(s, level))
      ELSE Put(s, level)

\* cl_CC2530_usart::Shift_out
Shift_out(u) ==
  LET n == u.bitTxCnt + 1
      s == [u EXCEPT !.bitTxCnt = n]
      level == IF u.BitNumber = 9 /\ n = 10 THEN u.TxParity ELSE stopBit(u)
  IN  IF n <= 1 THEN Put(s, u.startBit)
      ELSE IF n < 10 THEN [Put(s, Bit7(u.regForTx)) EXCEPT !.regForTx = (@ * 2) % 256]
      ELSE IF n >= u.BitNumber + u.StopBits + 1 THEN EndTx(Put(s, level))
      ELSE Put(s, level)

\* a received one goes to the buffer at once
Received(u, bit) ==
  IF bit
  THEN LET r == (u.regForRx * 2) + 1
       IN  [u EXCEPT !.regForRx = r % 256, !.dbuf = r % 256, !.spoiled = TRUE]
  ELSE [u EXCEPT !.regForRx = (@ * 2) % 256]

\* the checks of the parity and of the stop bits
Checked(u, n, bit) ==
  LET last == IF u.BitNumber = 9 THEN 11 ELSE 10
      e == IF u.BitNumber = 9 /\ n = 10 /\ bit # parity_check(u, u.regForRx)
           THEN [u EXCEPT !.csr.err = TRUE] ELSE u
  IN  IF n \in last .. last + u.StopBits - 1 /\ bit # stopBit(u)
      THEN [e EXCEPT !.csr.fe = TRUE] ELSE e

EndRx(u) ==
  [u EXCEPT !.csr.rx = TRUE, !.urxif = TRUE, !.csr.active = FALSE, !.RX = FALSE, !.bitRxCnt = 0]

\* cl_CC2530_usart::Shift_in; x is what lies behind the table.  Before UxUCR
\* is written BitNumber is 0 and the start bit ends the byte.
Shift_in(u, x) ==
  LET n == u.bitRxCnt + 1
      bit == IF n > Len(testTab) THEN x ELSE testTab[n]
      s == [u EXCEPT !.bitRxCnt = n]
      d == IF n \in 2 .. 9 THEN Received(s, bit) ELSE s
      c == IF n >= u.BitNumber + 1 THEN Checked(d, n, bit) ELSE d
  IN  IF u.bitRxCnt = 0 /\ testTab[1] # u.startBit THEN u
      ELSE IF n = u.BitNumber + u.StopBits + 1 THEN EndRx(c) ELSE c

\* cl_CC2530_usart::BaudTick.  The SPI clock of a slave is connected to
\* nothing; a master shifts both ways.
BaudTick(u, x) ==
  IF ~u.csr.active THEN u
  ELSE IF ~u.csr.uart THEN Shift_in(Shift_out(u), x)
  ELSE LET r == IF u.RX THEN Shift_in(u, x) ELSE u
       IN  IF r.TX THEN Shift_out(r) ELSE r

\* cl_CC2530_usart::tick: the baud clock runs once a rate was set
usart_tick(u, x) == IF u.baud /\ (u.csr.uart \/ ~u.slave) THEN BaudTick(u, x) ELSE u
-----------------------------------------------------------------------------
\* cl_CC2530_usart::write for UxDBUF
write_dbuf(u, v) ==
  LET s == [u EXCEPT !.dbuf = v, !.spoiled = FALSE]
  IN  IF u.TX THEN [s EXCEPT !.queue = TRUE, !.waiting = v]
      ELSE [s EXCEPT !.TX = TRUE, !.regForTx = v, !.csr.active = TRUE, !.bitTxCnt = 0,
                     !.TxParity = IF u.BitNumber = 9 THEN parity_check(u, v) ELSE @,
                     !.asked = v, !.direct = TRUE, !.steady = TRUE, !.bits = <<>>]

\* for UxCSR: ACTIVE is set before the cell takes the written value, and lost
write_csr(u, uart, re, slave, active) ==
  [u EXCEPT !.csr = [NoCsr EXCEPT !.uart = uart, !.slave = slave, !.active = active],
            !.RX = @ \/ re, !.slave = @ \/ slave]

\* for UxUCR; equal start and stop levels are refused
write_ucr(u, nine, even, levels, two) ==
  [u EXCEPT !.BitNumber = IF nine THEN 9 ELSE 8, !.StopBits = IF two THEN 2 ELSE 1,
            !.startBit = IF levels = 1 THEN TRUE ELSE IF levels = 2 THEN FALSE ELSE @,
            !.even = even, !.steady = FALSE]

\* for UxBAUD and UxGCR
write_baud(u) == [u EXCEPT !.baud = TRUE]

\* cl_CC2530_usart::read of UxCSR
read_csr(u) == [u EXCEPT !.csr.err = FALSE, !.csr.fe = FALSE]
-----------------------------------------------------------------------------
UsartInit == us = usart_reset(0, 0)

UsartTick == \E x \in BOOLEAN : us.bitRxCnt < MaxBits /\ us' = usart_tick(us, x)

UsartWrite ==
  \/ \E v \in UsartBytes : us' = write_dbuf(us, v)
  \/ \E uart \in BOOLEAN, re \in BOOLEAN, a \in BOOLEAN : us' = write_csr(us, uart, re, FALSE, a)
  \/ us' = write_csr(us, FALSE, FALSE, TRUE, FALSE)
  \/ \E nine \in BOOLEAN, even \in BOOLEAN, l \in 0 .. 2, two \in BOOLEAN :
       us' = write_ucr(us, nine, even, l, two)
  \/ us' = write_baud(us)
  \/ us' = read_csr(us)
  \/ us' = usart_reset(us.regForTx, us.regForRx)
-----------------------------------------------------------------------------
(* Properties *)

\* A byte that the program writes to UxDBUF leaves the line as one frame of
\* start bit, eight data bits, parity and stop bits of the format UxUCR set,
\* whatever is received or read meanwhile.  A queued byte does too, as long as
\* no reception stores to UxDBUF first and there is no parity bit.
FramesExact == ~us.broken
=============================================================================

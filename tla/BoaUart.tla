------------------------------ MODULE BoaUart ------------------------------
(***************************************************************************)
(* A byte's way through dev/hdl/mmio/uart.sv: the CPU writes it over the   *)
(* bus into the transmit FIFO of boa_peri_uart, unbuffered_uart_tx puts it *)
(* on the wire, and an unbuffered_uart_rx at the other end of the wire     *)
(* triggers with it.  One step is one rising edge of the clock.            *)
(*                                                                         *)
(* A byte is the sequence of its Bits bits, least significant bit first.   *)
(* Both ends use the same divider until the CPU writes clk_div.            *)
(***************************************************************************)
EXTENDS Integers, Sequences

CONSTANTS
  Bits,        \* Bits in a byte (8 in the code).
  Bytes,       \* The bytes that are sent.
  NoByte,      \* The bus carries no write to the FIFO.
  TxDepth,     \* Depth of the transmit FIFO (4 in the code).
  Divs,        \* Clock dividers, at least 2.
  Retune       \* The CPU writes the divider, as p_speed of the boot ROM does:
               \* "never", with the value it "keeps", or with "any" value.

ASSUME UartAssumption ==
  /\ Bits \in Nat \ {0} /\ Bytes \subseteq [1 .. Bits -> {0, 1}] /\ Bytes # {}
  /\ NoByte \notin Bytes /\ TxDepth \in Nat /\ TxDepth >= 2
  /\ Divs \subseteq Nat /\ \A n \in Divs : n >= 2
  /\ Retune \in {"never", "keeps", "any"}

VARIABLES
  wpos, rpos, storage,            \* tx_fifo.
  clkDiv,                         \* clk_div.
  txTimer, txState, txBuf, txAck, \* unbuffered_uart_tx.
  rxTimer, rxState, rxBuf,        \* unbuffered_uart_rx at the other end,
  rxTrig, rxByte, rxDiv,          \* its outputs, and its divider.
  pend, ready,                    \* The write the CPU presented, bus.ready.
  seenIdle,                       \* The CPU has read the status tx_busy = 0.
  flight                          \* History: accepted, not received yet.

fifo == <<wpos, rpos, storage>>
tx == <<txTimer, txState, txBuf, txAck>>
rx == <<rxTimer, rxState, rxBuf, rxTrig, rxByte>>
cpu == <<pend, ready, seenIdle>>
vars == <<fifo, clkDiv, tx, rx, rxDiv, cpu, flight>>

TxFifo == INSTANCE BoaFifo
            WITH Data <- Bytes, Depth <- TxDepth, AllowFullWe <- FALSE

Ones(n) == [i \in 1 .. n |-> 1]

Init ==
  /\ wpos = 0 /\ rpos = 0 /\ storage = [i \in 0 .. TxDepth - 1 |-> CHOOSE b \in Bytes : TRUE]
  /\ clkDiv \in Divs /\ rxDiv = clkDiv
  /\ txTimer = 1 /\ txState = 0 /\ txBuf = Ones(Bits + 1) /\ txAck = FALSE
  /\ rxTimer = 1 /\ rxState = 0 /\ rxBuf = Ones(Bits) /\ rxTrig = FALSE
  /\ rxByte = Ones(Bits)
  /\ pend = NoByte /\ ready = TRUE /\ seenIdle = FALSE
  /\ flight = <<>>

----------------------------------------------------------------------------
(* Transmitter.                                                            *)

Txd == txBuf[1]
TxBusy == txState # 0
TxTrig == TxFifo!HasDat /\ ~txAck
Shifted == Append(Tail(txBuf), 1)

\* Faults for the checks: the acknowledgement lasts a whole bit, or it is
\* never given.
AckHeld == IF txTimer = 1 THEN txState = 0 /\ TxTrig ELSE txAck
AckNever == txAck /\ TxTrig
\* tx_ack: set with the trigger, cleared once the trigger is gone.
AckNext ==
  IF txTimer = 1 /\ txState = 0 THEN txAck \/ TxTrig ELSE txAck /\ TxTrig

\* unbuffered_uart_tx: start bit, data bits, and a stop bit that is the first
\* bit of idleness.
Transmit ==
  /\ txAck' = AckNext
  /\ IF txTimer = 1
     THEN /\ txTimer' = clkDiv
          /\ txState' = IF txState = 0 THEN IF TxTrig THEN 1 ELSE 0
                        ELSE IF txState = Bits + 1 THEN 0 ELSE txState + 1
          /\ txBuf' = IF txState # 0 THEN Shifted
                      ELSE IF TxTrig THEN <<0>> \o TxFifo!Rdata ELSE txBuf
     ELSE txTimer' = txTimer - 1 /\ UNCHANGED <<txState, txBuf>>

----------------------------------------------------------------------------
(* Receiver.                                                               *)

\* Fault for the checks: the first sample is taken a whole bit late.
FirstSampleLate == rxDiv
\* Cycles from the start bit's edge to its first sample.
FirstSample == rxDiv \div 2

\* Fault for the checks: the stop bit is checked as if it were a start bit.
StopBitLow == Txd = 0
StopBit == Txd = 1

\* unbuffered_uart_rx, which acknowledges itself: rx_trig lasts one cycle.
Receive ==
  IF rxState = 0
  THEN /\ IF Txd = 0 THEN rxState' = 1 /\ rxTimer' = FirstSample
                     ELSE UNCHANGED <<rxState, rxTimer>>
       /\ rxTrig' = FALSE /\ UNCHANGED <<rxBuf, rxByte>>
  ELSE IF rxTimer > 1
  THEN /\ rxTimer' = rxTimer - 1
       /\ rxTrig' = FALSE /\ UNCHANGED <<rxState, rxBuf, rxByte>>
  ELSE /\ rxTimer' = rxDiv
       /\ IF rxState = Bits + 2
          THEN /\ rxState' = 0
               /\ rxTrig' = StopBit
               /\ rxByte' = IF StopBit THEN rxBuf ELSE rxByte
               /\ UNCHANGED rxBuf
          ELSE /\ rxState' = rxState + 1
               /\ rxBuf' = Append(Tail(rxBuf), Txd)
               /\ rxTrig' = FALSE /\ UNCHANGED rxByte

----------------------------------------------------------------------------
(* The bus.                                                                *)

\* What the CPU may present: a write that was not ready again, or anything.
Presents == IF ready THEN Bytes \cup {NoByte} ELSE {pend}
Accepted(w) == w # NoByte /\ ~TxFifo!Full

\* bus.ready, with tx_full_stall: a write to the full FIFO has to wait.
Ready(w) == ~(w # NoByte /\ TxFifo!Full)

\* The wire, the FIFO and the history, in a cycle in which the bus carries w.
Tick(w) ==
  /\ TxFifo!Clock(w # NoByte, IF w = NoByte THEN storage[0] ELSE w, txAck)
  /\ Transmit /\ Receive
  /\ ready' = Ready(w)
  /\ flight' = LET left == IF rxTrig /\ flight # <<>> THEN Tail(flight) ELSE flight
               IN IF Accepted(w) THEN Append(left, w) ELSE left

\* The CPU writes to the FIFO or leaves the UART alone.
Write ==
  \E w \in Presents :
    /\ Tick(w) /\ pend' = w
    /\ seenIdle' = (seenIdle /\ w = NoByte)
    /\ UNCHANGED <<clkDiv, rxDiv>>

\* p_speed of the boot ROM, once its answer is in the FIFO: read the status
\* until the transmitter is not busy (and nothing has been received) ...
ReadStatus ==
  /\ Retune # "never" /\ ready
  /\ Tick(NoByte) /\ pend' = NoByte
  /\ seenIdle' = ~TxBusy
  /\ UNCHANGED <<clkDiv, rxDiv>>

\* ... and then write clk_div.
SetDivider ==
  /\ Retune # "never" /\ ready /\ seenIdle
  /\ Tick(NoByte) /\ pend' = NoByte
  /\ clkDiv' \in IF Retune = "any" THEN Divs ELSE {clkDiv}
  /\ seenIdle' = FALSE
  /\ UNCHANGED rxDiv

Next == Write \/ ReadStatus \/ SetDivider
Spec == Init /\ [][Next]_vars
\* The clock ticks forever.
FairSpec == Spec /\ WF_vars(Next)

----------------------------------------------------------------------------
(* Properties.                                                             *)

\* The receiver triggers with the oldest byte under way: none is garbled,
\* received twice or overtaken, whatever the phase between FIFO and wire.
DeliversInOrder == rxTrig => flight # <<>> /\ rxByte = Head(flight)

\* None is lost: once FIFO, transmitter and receiver are idle every accepted
\* byte has been received.
NothingLost ==
  (~TxFifo!HasDat /\ ~TxBusy /\ rxState = 0 /\ ~rxTrig) => flight = <<>>

\* A write that has to wait for room in the FIFO is completed some time.
WriteCompletes == ~ready ~> ready

\* Every byte under way arrives.
Drains == flight # <<>> ~> rxTrig
=============================================================================

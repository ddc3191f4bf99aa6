------------------------------ MODULE BoaMtime ------------------------------
(***************************************************************************)
(* The machine timer of hdl/modules/boa_mtime.sv: the time counts in the   *)
(* domain of rtc_clk, the CPU accesses it in the domain of clk, and a      *)
(* write crosses over with a four-phase handshake.  The edges of the two   *)
(* clocks come in any order, or together.                                  *)
(*                                                                         *)
(* The time is made of two words of W bits.  The registers have no reset;  *)
(* they power up as zero.                                                  *)
(***************************************************************************)
EXTENDS Integers

CONSTANTS
  W,       \* Bits in a word (32 in the code).
  Regs     \* The registers that are written, of "lo", "hi", "cmplo", "cmphi".

ASSUME MtimeAssumption ==
  W \in Nat \ {0} /\ Regs \subseteq {"lo", "hi", "cmplo", "cmphi"}

VARIABLES
  mtime, rtcCmp, rtcWe, rtcAck, irq,        \* rtc_clk domain.
  cpuTime, cmp, cpuWe, cpuAck, ready, bus,  \* clk domain, and the bus.
  torn   \* History: a write was withdrawn, and since then some trigger or
         \* acknowledgement has been up in every state.

rtcVars == <<mtime, rtcCmp, rtcWe, rtcAck, irq>>
cpuVars == <<cpuTime, cmp, cpuWe, cpuAck, ready, bus>>
timerVars == <<rtcVars, cpuVars, torn>>

WordValues == 0 .. 2^W - 1
Times == 0 .. 2^(2 * W) - 1
Low(t) == t % 2^W
High(t) == t \div 2^W

\* What the CPU presents: a write of a word to a register, or no write, with
\* some word on wdata all the same.
Requests == [reg : Regs \cup {"none"}, data : WordValues]

TimerInit ==
  /\ mtime = 0 /\ rtcCmp = 0 /\ rtcWe = {} /\ rtcAck = {} /\ irq = FALSE
  /\ cpuTime = 0 /\ cmp = 0 /\ cpuWe = {} /\ cpuAck = {} /\ ready = TRUE
  /\ bus \in Requests /\ torn = FALSE

SuccTime(t) == (t + 1) % 2^(2 * W)

\* Fault for the checks: the interrupt stays until something else clears it.
DueSticky == irq \/ mtime > rtcCmp
Due == mtime > rtcCmp

\* always @(posedge rtc_clk).  The high word goes to bits 63 down to 31: it
\* ends one place too low and takes bit 31 from the low word.
RtcEdge ==
  /\ rtcWe' = cpuWe
  /\ rtcCmp' = cmp
  /\ IF "lo" \in rtcWe
     THEN /\ mtime' = High(mtime) * 2^W + bus.data
          /\ rtcAck' = {"lo"} /\ UNCHANGED irq
     ELSE IF "hi" \in rtcWe
     THEN /\ mtime' = (bus.data * 2^(W - 1)) + (mtime % 2^(W - 1))
          /\ rtcAck' = {"hi"} /\ UNCHANGED irq
     ELSE /\ mtime' = SuccTime(mtime)
          /\ irq' = Due
          /\ rtcAck' = {}

\* Fault for the checks: the write ends when its trigger is gone.
WaitTrigger ==
  /\ cpuWe' = cpuWe \ cpuAck
  /\ ready' = (cpuWe = {})
  /\ UNCHANGED cmp

\* Fault for the checks: the acknowledgement does not clear the trigger.
WaitKeepsTrigger ==
  /\ ready' = (cpuWe = {} /\ cpuAck = {})
  /\ UNCHANGED <<cpuWe, cmp>>

\* A write that waits for the other domain.  It ends when trigger and
\* acknowledgement are both gone.
Wait ==
  /\ cpuWe' = cpuWe \ cpuAck
  /\ ready' = (cpuWe = {} /\ cpuAck = {})
  /\ UNCHANGED cmp

\* A write the CPU presents first.
Accept ==
  IF bus.reg \in {"lo", "hi"}
  THEN cpuWe' = cpuWe \cup {bus.reg} /\ ready' = FALSE /\ UNCHANGED cmp
  ELSE /\ cmp' = IF bus.reg = "cmplo" THEN High(cmp) * 2^W + bus.data
                 ELSE bus.data * 2^W + Low(cmp)
       /\ ready' = TRUE /\ UNCHANGED cpuWe

\* Triggers and acknowledgements, on both sides.
Lines == cpuWe \cup rtcWe \cup rtcAck \cup cpuAck

\* An exception clears the MEM stage, which then presents no write although
\* the one it presented is not ready (boa_stage_mem.sv:308).
Withdrawn == ~ready' /\ bus.reg # "none" /\ bus'.reg = "none"

\* always @(posedge clk).  A write that is not ready is presented again, or
\* withdrawn.
CpuEdge ==
  /\ cpuTime' = mtime
  /\ cpuAck' = rtcAck
  /\ IF bus.reg = "none" THEN ready' = TRUE /\ UNCHANGED <<cpuWe, cmp>>
     ELSE IF ~ready THEN Wait ELSE Accept
  /\ \/ bus' = bus
     \/ ready' /\ bus' \in Requests
     \/ bus' \in Requests /\ Withdrawn

CpuOnly == CpuEdge /\ UNCHANGED rtcVars /\ torn' = ((torn \/ Withdrawn) /\ Lines' # {})
RtcOnly == RtcEdge /\ UNCHANGED cpuVars /\ torn' = (torn /\ Lines' # {})
Both == CpuEdge /\ RtcEdge /\ torn' = ((torn \/ Withdrawn) /\ Lines' # {})

TimerNext == CpuOnly \/ RtcOnly \/ Both
TimerSpec == TimerInit /\ [][TimerNext]_timerVars

\* Both clocks run, and no write has to be withdrawn for that.
FairSpec ==
  /\ TimerSpec
  /\ WF_timerVars((CpuOnly \/ Both) /\ ~Withdrawn)
  /\ WF_timerVars(RtcOnly \/ (Both /\ ~Withdrawn))

----------------------------------------------------------------------------

\* The domain of the timer takes a word off the bus only while the bus still
\* carries the write it was triggered for, whatever the two clocks do: data
\* and trigger of two writes do not mix ("Time write trigger", "Time write
\* acknowledge").  An exception that withdraws a write breaks this, and what
\* it breaks is made good once the lines of the handshake have all come down.
WritesOwnData ==
  [][RtcEdge /\ ~torn => \A half \in rtcWe : bus.reg = half]_<<rtcVars, rtcAck>>

\* When the CPU is done with writing, the time goes on counting ("Timekeeping
\* clock", boa_mtime.sv:14).  In the code a write withdrawn before it is
\* acknowledged leaves its trigger up: until the next write that waits nothing
\* clears it, and at every edge the time takes wdata instead of counting.
TimeRuns == <>[](bus.reg = "none") => []<>(rtcWe = {})

\* A write to the time ends some time, whichever clock is faster.
WriteEnds == ~ready ~> ready

\* A comparison value that the time cannot exceed silences the interrupt,
\* unless the timer is written to again and again.
IrqSilenced ==
  <>[](cmp = 2^(2 * W) - 1 /\ rtcWe = {}) => <>[]~irq

\* A write to the upper word sets the word that reads of it return, bits
\* 63 down to 32 of the time, and nothing else.
HighWordWritten ==
  [][RtcEdge /\ rtcWe = {"hi"} =>
       mtime' = bus.data * 2^W + Low(mtime)]_<<rtcVars>>
=============================================================================

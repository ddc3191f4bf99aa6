---------------------------- MODULE BoaMemDemux ----------------------------
(***************************************************************************)
(* The memory demultiplexer of hdl/modules/boa_memory.sv, boa_mem_demux,   *)
(* with the two arbiters it can be built with, boa_arbiter_rr and          *)
(* boa_arbiter_static, between Ports bus masters ("CPU ports") and one     *)
(* memory.  One action is one rising edge of the clock.                    *)
(*                                                                         *)
(* A bit vector with one bit per port is modelled by the set of the ports  *)
(* whose bit is 1.  The bus has one cycle of latency: a request is         *)
(* presented in one cycle, latched by the memory at the edge, and answered *)
(* (ready) in the next cycle or a later one.                               *)
(*                                                                         *)
(* The memories of the repository are of two kinds.  One that "samples"    *)
(* looks at the bus at every edge, and its ready is about the request of   *)
(* the cycle before, whatever came earlier (block RAM, UART, the front of  *)
(* a cache): its masters may change or withdraw a request at any time, as  *)
(* the MEM stage does when an interrupt clears it (boa_stage_mem.sv:308)   *)
(* and the fetch stage after a branch.  One that is "busy" keeps the       *)
(* request it latched and does not look at the bus until it is done with   *)
(* it (dev/hdl/mem/extmem_sram.sv:65-98): its masters are the caches, and  *)
(* those repeat a request until it is answered (cache.sv:367-380).         *)
(***************************************************************************)
EXTENDS Integers, FiniteSets

CONSTANTS
  N,        \* The number of CPU ports, at least 2.
  Addrs,    \* The addresses the masters access.
  NoReq,    \* A master that presents neither a read nor a write.
  Arbiter,  \* "rr" or "static".
  MaxWait   \* Bound on the wait states of the memory.

ASSUME NAssumption == N \in Nat /\ N >= 2
ASSUME NoReqAssumption == NoReq \notin Addrs
ASSUME ArbiterAssumption == Arbiter \in {"rr", "static"}
ASSUME MaxWaitAssumption == MaxWait \in Nat

Ports == 0 .. N - 1

VARIABLES
  cur,      \* Ports that have custody of the memory (boa_mem_demux.cur).
  hold,     \* There was a request in the last cycle (the arbiter's hold).
  pend,     \* The request each master presented in the last cycle.
  lat,      \* The request the memory latched: the addresses ORed together.
  wait,     \* Wait states left before the memory answers.
  slave     \* The kind of the memory, "samples" or "busy": never changes.

demuxVars == <<cur, hold, pend, lat, wait, slave>>

----------------------------------------------------------------------------
(* Arbitration.                                                            *)

\* The port d places before port i, counting down and around.
Before(i, d) == IF d <= i THEN i - d ELSE i - d + N

\* Fault for the checks: the scan does not stop at the first requester.
AfterCurAll(req) == req

\* The chain `arbiter' of boa_arbiter_rr: the first requester after cur.
AfterCur(req) ==
  {i \in req : \E d \in 1 .. N :
                 /\ Before(i, d) \in cur
                 /\ \A e \in 1 .. d - 1 : Before(i, e) \notin req}

\* boa_arbiter_rr: the current result is kept while hold is set.
NextRR(req) == IF hold THEN cur ELSE AfterCur(req)

\* boa_arbiter_static: port 0 is decided apart from the others and does not
\* look at hold; another port needs all lower ports to be idle.
NextStatic(req) ==
  {i \in Ports :
     IF i = 0 THEN IF req = cur THEN 0 \in cur ELSE 0 \in req
     ELSE IF hold THEN i \in cur
     ELSE i \in req /\ \A j \in 0 .. i - 1 : j \notin req}

NextArb(req) == IF Arbiter = "rr" THEN NextRR(req) ELSE NextStatic(req)

\* Fault for the checks: custody goes around while its owner requests.
NextCpuRotates(req) == AfterCur(req)

\* boa_mem_demux.next_cpu: a port that has custody keeps it while it requests.
NextCpu(req) == IF cur \cap req # {} THEN cur ELSE NextArb(req)

\* cpu[x].ready: the memory's ready, to the port or ports that have custody.
MemReady == wait = 0
\* Fault for the checks: ready is broadcast, like rdata.
ReadyBroadcast(x) == MemReady
Ready(x) == x \in cur /\ MemReady

----------------------------------------------------------------------------
(* The masters: any request in any cycle; those of a memory that is busy   *)
(* with what it latched hold a request until it is answered.               *)

Waiting(x) == pend[x] # NoReq /\ ~Ready(x)

Presented ==
  {b \in [Ports -> Addrs \cup {NoReq}] :
     slave = "busy" => \A x \in Ports : Waiting(x) => b[x] = pend[x]}

Requesting(b) == {x \in Ports : b[x] # NoReq}

DemuxInit ==
  /\ cur = {0}
  /\ hold = FALSE
  /\ pend = [x \in Ports |-> NoReq]
  /\ lat = {}
  /\ wait = 0
  /\ slave \in {"samples", "busy"}

\* What the memory finds on its bus at the edge: the OR of what the ports that
\* are given custody drive.  A port that does not request still drives some
\* address.
OnBus(b) ==
  LET served == NextCpu(Requesting(b))
      active == served \cap Requesting(b)
  IN IF active = {} THEN {{}}
     ELSE {{b[x] : x \in active} \cup {idle[x] : x \in served \ active} :
             idle \in [served \ active -> Addrs]}

\* The memory takes what is on the bus, with any number of wait states over a
\* request that is new to it: one that is done with the last request, and in
\* every cycle one that samples.  A request found again has a wait state less.
Latch(b) ==
  /\ MemReady \/ slave = "samples"
  /\ lat' \in OnBus(b)
  /\ wait' \in IF lat' = {} THEN {0}
              ELSE IF lat' = lat /\ ~MemReady THEN {wait - 1}
              ELSE 0 .. MaxWait

\* The memory is busy with the request it latched earlier.
Busy ==
  /\ ~MemReady /\ slave = "busy"
  /\ wait' = wait - 1
  /\ UNCHANGED lat

\* The registers of the demultiplexer and of its arbiter.
Arbitrate(b) ==
  LET nc == NextCpu(Requesting(b))
  IN /\ cur' = IF nc # {} THEN nc ELSE cur
     /\ hold' = (Requesting(b) # {})
     /\ pend' = b

Clock ==
  /\ \E b \in Presented : Arbitrate(b) /\ (Latch(b) \/ Busy)
  /\ UNCHANGED slave

\* Synchronous reset of the demultiplexer, the arbiter, and what they connect.
DemuxReset ==
  /\ cur' = {0}
  /\ hold' = FALSE
  /\ pend' = [x \in Ports |-> NoReq]
  /\ lat' = {}
  /\ wait' = 0
  /\ UNCHANGED slave

DemuxNext == Clock \/ DemuxReset

DemuxSpec == DemuxInit /\ [][DemuxNext]_demuxVars
\* The clock ticks forever, and the reset is not asserted forever.
DemuxFairSpec == DemuxSpec /\ WF_demuxVars(Clock)

----------------------------------------------------------------------------
(* Properties.                                                             *)

DemuxTypeOK ==
  /\ cur \in SUBSET Ports
  /\ hold \in BOOLEAN
  /\ pend \in [Ports -> Addrs \cup {NoReq}]
  /\ lat \in SUBSET Addrs
  /\ wait \in 0 .. MaxWait
  /\ slave \in {"samples", "busy"}

\* At most one master at a time has custody of the memory, so that the
\* addresses and data ORed onto the memory bus are those of one master
\* (boa_mem_demux: "CPU that has custody next cycle").
OneCustodian == \E x \in Ports : cur = {x}

\* A master that sees ready receives the answer to the request it presented:
\* the memory latched that master's address, alone, and no other one's, also
\* after requests that were changed or withdrawn before their answer.
AnswerIsMine ==
  \A x \in Ports : pend[x] # NoReq /\ Ready(x) => lat = {pend[x]}

\* A master that has custody and keeps asking for the same address gets its
\* answer, or is reset: wait states of the memory, and whatever the others
\* request or withdraw, cannot take custody away from it.
CustodianServed ==
  \A x \in Ports, a \in Addrs :
    (x \in cur /\ pend[x] = a) ~> (Ready(x) \/ pend[x] # a)

\* What makes AnswerIsMine inductive: what the memory latched is the request of
\* its custodian, and one that is busy works for a custodian that still asks.
BusyForCustodian ==
  /\ wait > 0 => \E x \in cur : pend[x] # NoReq
  /\ \A x \in cur : pend[x] # NoReq => lat = {pend[x]}

DemuxInv == DemuxTypeOK /\ OneCustodian /\ BusyForCustodian
=============================================================================

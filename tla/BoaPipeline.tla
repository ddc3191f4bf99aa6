---------------------------- MODULE BoaPipeline ----------------------------
(***************************************************************************)
(* The pipeline of hdl/boa32_cpu.sv: stages IF, ID, EX and MEM with their  *)
(* barrier registers, the write-back register, stalls, forwarding, branch  *)
(* prediction and correction, traps and interrupts.  One step is one       *)
(* rising edge of the clock; the unprimed variables are the registers      *)
(* during a cycle, and the operators over them are the wires.              *)
(*                                                                         *)
(* The environment chooses, cycle by cycle, whether the instruction at the *)
(* fetch address is in the fetch buffer and which one it is, how many wait *)
(* states a data access takes, and whether an interrupt is pending.        *)
(***************************************************************************)
EXTENDS BoaDefs, FiniteSets

CONSTANTS
  DivLatency,  \* Cycles the divider keeps EX waiting (parameter div_latency).
  Waits,       \* Possible numbers of wait states of a data access.
  FetchMiss,   \* May the fetch buffer lack the instruction?
  SkipHits,    \* On which of "trap" and "fence" may it hold the instruction
               \* that the event withholds from ID?
  Irqs,        \* May interrupts be pending?
  Bubbles      \* What the undefined instruction of an empty stage decodes as.

ASSUME InputAssumption ==
  /\ DivLatency \in Nat /\ Waits \subseteq Nat /\ Waits # {}
  /\ FetchMiss \in BOOLEAN /\ SkipHits \subseteq {"trap", "fence"} /\ Irqs \in BOOLEAN
  /\ Bubbles \subseteq Instr /\ Bubbles # {}

VARIABLES
  pc,     \* boa_stage_if.pc: address of the next instruction to fetch.
  id,     \* IF/ID barrier register.
  ex,     \* ID/EX barrier register, with the predicted direction.
  mem,    \* EX/MEM barrier register, with the access it started and the trap.
  wb,     \* MEM/WB register, the older source of forwarding.
  alt,    \* fw_branch_alt: where to go if the branch in EX was mispredicted.
  div,    \* Timer of boa_delay_comp: cycles EX still waits for the divider.
  wait,   \* Wait states left of the access in MEM.
  rcsr,   \* r_csr_re and r_csr_rdata.
  pmie,   \* mstatus.MIE in the last two cycles (p_mie).
  irq,    \* An enabled interrupt is pending (irq_ip).
  regs, dmem, csr,   \* Register file, data memory and CSRs.
  amem, acsr         \* History: dmem and csr after the last retired instruction.

stages == <<pc, id, ex, mem, wb, alt, div, wait, rcsr, pmie, irq>>
vars == <<pc, id, ex, mem, wb, alt, div, wait, rcsr, pmie, irq,
          regs, dmem, csr, amem, acsr>>

\* What an invalid stage holds out of reset.  IF gives ID, and reset gives ID
\* and EX, an undefined instruction, which some decoders look at all the same.
NoInstr == [op |-> "op", rd |-> 0, rs1 |-> 0, rs2 |-> 0, imm |-> 0,
            csr |-> "mscratch"]
IdEmpty == {[valid |-> FALSE, pc |-> 0, insn |-> i] : i \in Bubbles}
ExEmpty == [valid |-> FALSE, trap |-> FALSE, pc |-> 0, insn |-> NoInstr,
            v1 |-> 0, v2 |-> 0, pred |-> FALSE, post |-> CsrReset]
MemEmpty == [valid |-> FALSE, trap |-> FALSE, cause |-> "none", pc |-> 0,
             insn |-> NoInstr, v |-> 0, acc |-> "none", ld |-> 0,
             post |-> CsrReset]
WbEmpty == [valid |-> FALSE, rd |-> 0, val |-> 0]

Init ==
  /\ pc = Entry
  /\ id \in IdEmpty /\ ex \in {[ExEmpty EXCEPT !.insn = i] : i \in Bubbles}
  /\ mem = MemEmpty /\ wb = WbEmpty
  /\ alt = 0 /\ div = 0 /\ wait = 0
  /\ rcsr = [re |-> FALSE, val |-> 0]
  /\ pmie = <<FALSE, FALSE>>
  /\ irq = FALSE
  /\ regs = [r \in Reg |-> 0]
  /\ dmem = [a \in Addr |-> 0] /\ amem = dmem
  /\ csr = CsrReset /\ acsr = CsrReset

----------------------------------------------------------------------------
(* Exceptions and what they clear.                                         *)

\* An interrupt is taken on the instruction that is in MEM, once MIE has been
\* set for the last two cycles and still is.
IrqTaken == irq /\ pmie[1] /\ pmie[2] /\ csr.mie /\ mem.valid
Exception == IrqTaken \/ mem.trap

\* EX: the condition of the branch is not what ID predicted.
Mispredicted ==
  ex.valid /\ ex.insn.op = "br" /\ (ex.v1 = ex.v2) # ex.pred

\* Fault for the checks: a misprediction does not clear ID.
ClearIdTrapOnly == Exception
ClearId == Exception \/ Mispredicted

----------------------------------------------------------------------------
(* What each stage hands to the next one.                                  *)

Traps(i) == i.op \in {"ecall", "illegal"}
IdValid == id.valid /\ ~ClearId /\ ~Traps(id.insn)
IdTrap == id.valid /\ ~ClearId /\ Traps(id.insn)
ExWaits == div > 0
ExValid == ex.valid /\ ~Exception /\ ~ExWaits
ExTrap == ex.trap /\ ~Exception
MemWaits == mem.acc # "none" /\ wait > 0
WbValid == mem.valid /\ ~mem.trap /\ ~Exception

\* boa_stage_ex.out_mux: result, data address, or the value of rs1.
ExOut ==
  CASE ex.insn.op \in {"op", "div"} -> Alu(ex.v1, ex.v2)
    [] ex.insn.op \in {"jal", "jalr"} -> Link(ex.pc)
    [] OTHER -> ex.v1

\* boa_stage_mem.q_rd_val.
RdVal ==
  IF rcsr.re THEN rcsr.val
  ELSE IF mem.acc = "load" THEN mem.ld
  ELSE mem.v

----------------------------------------------------------------------------
(* Data hazards: forwarding and stalls.                                    *)

\* boa_stage_ex_fw, boa_stage_mem_fw and boa_branch_decoder: which register
\* values an instruction needs at the input of EX, of MEM and of the branch
\* target adder.
ExRs1(i) == i.op \in {"op", "div", "br", "load", "store"}
ExRs2(i) == i.op \in {"op", "div", "br"}
MemRs1(i) == i.op = "csr"
MemRs2(i) == i.op = "store"
TargetRs1(i) == i.op = "jalr"

\* Register r is written by the instruction in EX, in MEM, in WB.
InEx(r) == r # 0 /\ ExValid /\ UsesRd(ex.insn) /\ r = ex.insn.rd
InMem(r) == r # 0 /\ WbValid /\ UsesRd(mem.insn) /\ r = mem.insn.rd
InWb(r) == r # 0 /\ wb.valid /\ r = wb.rd

\* boa_stage_ex.fw_rd: the result of EX is final.
ExFinal ==
  \/ ex.insn.op \in {"op", "div"} /\ ex.valid
  \/ ex.insn.op \in {"jal", "jalr"}

\* A value ID passes on or uses, and one MEM receives from EX.  A register
\* that is neither forwarded nor stalled for comes from the register file.
Forwarded(r) ==
  IF InEx(r) /\ ExFinal THEN ExOut ELSE IF InMem(r) THEN RdVal ELSE regs[r]
ToEx(uses, r) == IF uses THEN Forwarded(r) ELSE regs[r]
ToMem(uses, r, v) ==
  IF uses /\ InMem(r) THEN RdVal ELSE IF uses /\ InWb(r) THEN wb.val ELSE v

\* A csr instruction that writes stands in EX, valid or not (csr_we does not
\* look), as may the mret in ID.
XretHazard == id.insn.op = "mret" /\ WritesCsr(ex.insn)
\* Fault for the checks: the branch target adder is not stalled for.
LoadHazardNoTarget ==
  /\ IdValid /\ ~ExFinal
  /\ \/ ExRs1(id.insn) /\ InEx(id.insn.rs1)
     \/ ExRs2(id.insn) /\ InEx(id.insn.rs2)

LoadHazard ==
  /\ IdValid /\ ~ExFinal
  /\ \/ ExRs1(id.insn) /\ InEx(id.insn.rs1)
     \/ ExRs2(id.insn) /\ InEx(id.insn.rs2)
     \/ TargetRs1(id.insn) /\ InEx(id.insn.rs1)
Fencing == id.valid /\ id.insn.op = "fencei"
\* Fault for the checks: a fence waits for itself.
FenceAlways == Fencing
FenceHazard == Fencing /\ (ExValid \/ WbValid)

StallMem == MemWaits /\ ~Exception
StallEx == (MemWaits \/ ExWaits) /\ ~Exception
StallId ==
  /\ MemWaits \/ ExWaits \/ XretHazard \/ LoadHazard \/ FenceHazard
  /\ ~Exception
StallIf == StallId

----------------------------------------------------------------------------
(* CSR accesses of the instruction that EX hands to MEM, and control       *)
(* transfers of the one in ID.                                             *)

CsrWrites == ExValid /\ ~StallEx /\ WritesCsr(ex.insn)
PmpLocking == CsrWrites /\ ex.insn.csr = "pmpcfg" /\ ~csr.lock
Ret == IdValid /\ ~StallId /\ id.insn.op = "mret"

\* Sign of the displacement: backward branches are predicted taken.
PredictTaken == id.insn.imm <= id.pc

Target ==
  IF id.insn.op = "jalr" THEN JalrTarget(ToEx(TRUE, id.insn.rs1)) ELSE id.insn.imm

\* Where ID sends IF; a bubble in ID has no address of its own, so that a
\* PMP lock sends IF anywhere.
Redirects ==
  CASE Ret -> {csr.mepc}
    [] IdValid /\ id.insn.op \in {"jal", "jalr"} -> {Target}
    [] IdValid /\ id.insn.op = "br" -> IF PredictTaken THEN {Target} ELSE {pc}
    [] PmpLocking /\ ~(IdValid /\ id.insn.op = "br") -> IF id.valid THEN {id.pc} ELSE PC
    [] OTHER -> {pc}

\* Fault for the checks: a misprediction goes before an exception.
FetchAddrsEx ==
  CASE StallIf -> {pc}
    [] Mispredicted /\ ~StallIf -> {alt}
    [] Exception /\ ~Mispredicted /\ ~StallIf -> {Tvec}
    [] OTHER -> Redirects

FetchAddrs ==
  CASE StallIf -> {pc}
    [] Exception /\ ~StallIf -> {Tvec}
    [] Mispredicted /\ ~Exception /\ ~StallIf -> {alt}
    [] OTHER -> Redirects

----------------------------------------------------------------------------
(* The clock edge, stage by stage.                                         *)

\* boa_stage_if: addr is fetched; it is in the fetch buffer (hit) or not.  A
\* fence or a PMP lock withholds the instruction but lets pc move on.
Fetch(addr, hit) ==
  /\ pc' = IF StallIf THEN pc ELSE IF hit THEN NextPC(addr) ELSE addr
  /\ IF StallId THEN UNCHANGED id
     ELSE IF ~hit \/ Exception \/ Fencing \/ PmpLocking THEN id' \in IdEmpty
     ELSE \E i \in Code[addr] : id' = [valid |-> TRUE, pc |-> addr, insn |-> i]

\* Fault for the checks: fw_branch_alt follows whatever stands in ID.
TakeAlternativeAlways == alt' = IF PredictTaken THEN pc ELSE Target

\* fw_branch_alt follows every branch that stands in ID, whatever EX does.  A
\* branch that is being cleared, or a bubble that decodes as a branch, leaves
\* it undefined; this matters only while a branch waits in EX.
TakeAlternative ==
  IF IdValid /\ id.insn.op = "br"
  THEN alt' = IF PredictTaken THEN pc ELSE Target
  ELSE IF id.insn.op = "br" /\ StallEx /\ ex.insn.op = "br"
  THEN alt' \in PC
  ELSE UNCHANGED alt

\* boa_stage_ex's barrier register and the delay of the divider.
Execute ==
  /\ IF StallEx THEN UNCHANGED ex
     ELSE ex' = [valid |-> IdValid /\ ~StallId, trap |-> IdTrap /\ ~StallId,
                 pc |-> id.pc, insn |-> id.insn,
                 v1 |-> ToEx(ExRs1(id.insn), id.insn.rs1),
                 v2 |-> ToEx(ExRs2(id.insn), id.insn.rs2),
                 pred |-> PredictTaken,
                 post |-> IF Ret THEN CsrRet(csr) ELSE CsrReset]
  /\ div' = IF IdValid /\ ~StallId /\ id.insn.op = "div" /\ div = 0 THEN DivLatency
            ELSE IF div > 0 THEN div - 1 ELSE 0

\* boa_stage_mem: the instruction EX hands over starts its access, and one
\* whose access is refused, to memory or to a CSR, raises a trap in the next
\* cycle instead.
Accesses == ExValid /\ ~StallEx /\ ex.insn.op \in {"load", "store"}
Faults ==
  \/ Accesses /\ ExOut \in BadAddrs
  \/ ExValid /\ ~StallEx /\ Refused(ex.insn)
FaultCause(i) == IF i.op = "csr" THEN "illegal" ELSE "access"
StoreVal == ToMem(TRUE, ex.insn.rs2, ex.v2)

Memory ==
  /\ IF StallMem
     THEN /\ mem' = [mem EXCEPT !.trap = FALSE]
          /\ wait' = wait - 1
          /\ UNCHANGED dmem
     ELSE /\ mem' = [valid |-> ExValid /\ ~StallEx,
                     trap |-> (ExTrap /\ ~StallEx) \/ Faults,
                     cause |-> IF ExTrap /\ ~StallEx THEN ex.insn.op
                               ELSE IF Faults THEN FaultCause(ex.insn) ELSE "none",
                     pc |-> ex.pc, insn |-> ex.insn,
                     v |-> ToMem(MemRs1(ex.insn), ex.insn.rs1, ExOut),
                     acc |-> IF Accesses /\ ~Faults THEN ex.insn.op ELSE "none",
                     ld |-> IF Accesses /\ ~Faults /\ ex.insn.op = "load"
                            THEN dmem[ExOut] ELSE 0,
                     post |-> IF CsrWrites THEN csr' ELSE ex.post]
          /\ wait' \in IF Accesses /\ ~Faults THEN Waits ELSE {0}
          /\ dmem' = IF Accesses /\ ~Faults /\ ex.insn.op = "store"
                     THEN [dmem EXCEPT ![ExOut] = StoreVal] ELSE dmem

\* r_csr_re and r_csr_rdata follow the instruction in EX in every cycle.
ReadCsr ==
  rcsr' = IF ex.insn.op = "csr"
          THEN [re |-> TRUE, val |-> CsrRead(csr, ex.insn.csr)]
          ELSE [re |-> FALSE, val |-> 0]

\* boa32_csrs: a trap goes before a return, a return before a write.
CsrFile ==
  csr' = IF IrqTaken THEN CsrTrap(csr, "irq", mem.pc)
         ELSE IF mem.trap THEN CsrTrap(csr, mem.cause, mem.pc)
         ELSE IF Ret THEN CsrRet(csr)
         ELSE IF CsrWrites
         THEN CsrWrite(csr, ex.insn.csr, ToMem(TRUE, ex.insn.rs1, ExOut))
         ELSE csr

\* Write-back: the register file and the write-back register.
WriteBack ==
  IF StallMem THEN UNCHANGED <<wb, regs>>
  ELSE /\ wb' = [valid |-> WbValid /\ UsesRd(mem.insn), rd |-> mem.insn.rd,
                 val |-> RdVal]
       /\ regs' = IF WbValid /\ UsesRd(mem.insn) /\ mem.insn.rd # 0
                  THEN [regs EXCEPT ![mem.insn.rd] = RdVal] ELSE regs

\* Interrupt lines and the delay of the interrupt enable.
IrqLatch ==
  /\ irq' \in IF Irqs THEN BOOLEAN ELSE {FALSE}
  /\ pmie' = <<csr.mie, pmie[1]>>

\* An instruction retires when it leaves MEM.
ChangesCsr(i) == WritesCsr(i) \/ i.op = "mret"
Retires == WbValid /\ ~StallMem
History ==
  /\ amem' = IF Retires \/ Exception THEN dmem ELSE amem
  /\ acsr' = IF Exception THEN csr'
             ELSE IF Retires /\ ChangesCsr(mem.insn) THEN mem.post
             ELSE acsr

Clock(hit) ==
  /\ CsrFile
  /\ \E addr \in FetchAddrs : Fetch(addr, hit)
  /\ TakeAlternative /\ Execute /\ Memory /\ ReadCsr /\ WriteBack /\ IrqLatch
  /\ History

\* The buffer misses the trap vector, and what follows a fence, unless SkipHits.
MustMiss ==
  \/ Exception /\ "trap" \notin SkipHits
  \/ Fencing /\ ~StallIf /\ "fence" \notin SkipHits
ClockHit == ~MustMiss /\ Clock(TRUE)
ClockMiss == (FetchMiss \/ MustMiss) /\ Clock(FALSE)

Next == ClockHit \/ ClockMiss
Spec == Init /\ [][Next]_vars

\* The clock does not stop, and the program memory answers again and again.
FairSpec == Spec /\ WF_vars(Next) /\ SF_vars(ClockHit)

----------------------------------------------------------------------------
(* Programs for which the pipeline keeps its promise.                      *)

\* What the fetch goes on with behind a branch.
Predicted(p, i) == IF i.imm <= p THEN i.imm ELSE NextPC(p)

\* Instructions that may be taken back while the next one is in EX.
Revocable(i) ==
  \/ i.op \in {"ecall", "illegal"} \/ Refused(i)
  \/ i.op \in {"load", "store"} /\ (BadAddrs # {} \/ (Irqs /\ Waits # {0}))

\* Branch j behind access i does not enter EX before a load it depends on has
\* ended; or nothing it goes on with, and no bubble, is a branch.
Spaced(i, j) ==
  i.op = "load" /\ i.rd # 0 /\ (i.rd = j.rs1 \/ i.rd = j.rs2)
Alone(p, j) ==
  \A k \in Bubbles \cup Code[Predicted(p, j)] : k.op # "br"

\* No PMP lock; no fence where a branch is predicted to go; no mret directly
\* behind an instruction that may be taken back; no store, and no write to a
\* CSR that a trap does not overwrite, where an interrupt may be taken on it;
\* behind an access that may wait no branch that waits with it while another
\* stands in ID, and behind a load no csr instruction, nor a bubble that looks
\* like one.  What the fetch buffer withholds it does not hold.
Conforming ==
  /\ SkipHits = {}
  /\ \A p \in PC : \A i \in Code[p] :
       /\ WritesCsr(i) => i.csr # "pmpcfg"
       /\ i.op = "br" => \A j \in Code[Predicted(p, i)] : j.op # "fencei"
       /\ Revocable(i) => \A j \in Code[NextPC(p)] : j.op # "mret"
       /\ Irqs => i.op # "store" /\ (WritesCsr(i) => i.csr # "mscratch")
       /\ Waits # {0} /\ i.op \in {"load", "store"} =>
            /\ \A j \in Code[NextPC(p)] :
                 j.op = "br" => Spaced(i, j) \/ Alone(NextPC(p), j)
            /\ i.op = "load" =>
                 \A j \in Code[NextPC(p)] \cup Bubbles : j.op # "csr"

----------------------------------------------------------------------------
(* Properties.                                                             *)

TypeOK ==
  /\ pc \in PC /\ alt \in PC
  /\ id \in [valid : BOOLEAN, pc : PC, insn : Instr]
  /\ ex \in [valid : BOOLEAN, trap : BOOLEAN, pc : PC, insn : Instr,
             v1 : Value, v2 : Value, pred : BOOLEAN, post : Csrs]
  /\ mem \in [valid : BOOLEAN, trap : BOOLEAN, pc : PC, insn : Instr, v : Value,
              cause : {"none", "ecall", "illegal", "access"},
              acc : {"none", "load", "store"}, ld : Value, post : Csrs]
  /\ wb \in [valid : BOOLEAN, rd : Reg, val : Value]
  /\ div \in 0 .. DivLatency /\ \E w \in Waits \cup {0} : wait \in 0 .. w
  /\ rcsr \in [re : BOOLEAN, val : Value]
  /\ pmie \in BOOLEAN \X BOOLEAN /\ irq \in BOOLEAN
  /\ regs \in [Reg -> Value] /\ dmem \in [Addr -> Value] /\ csr \in Csrs
  /\ amem \in [Addr -> Value] /\ acsr \in Csrs

\* The address of the oldest instruction that has not retired.
OldestPC ==
  IF mem.valid \/ mem.trap THEN mem.pc
  ELSE IF ex.valid \/ ex.trap THEN ex.pc
  ELSE IF id.valid THEN id.pc
  ELSE pc

ISA == INSTANCE BoaISA WITH pc <- OldestPC, mem <- amem, csr <- acsr

\* Instructions take effect one after the other, in program order and whole:
\* whatever stalls, is forwarded, is predicted or is cleared on the way, the
\* register file, the data memory and the CSRs change as in BoaISA.
ProgramOrder == ISA!Spec

\* When a branch in EX turns out mispredicted, fw_branch_alt holds the address
\* the program continues at: that of this branch, whichever other branches
\* have been in ID before it ("Branch correction address").  Another branch, or
\* what looks like one, in ID while this one waits in EX overwrites it.
CorrectionAddress ==
  Mispredicted => alt = IF ex.pred THEN NextPC(ex.pc) ELSE ex.insn.imm

\* What MEM hands to write-back for a load is the word it read, however long
\* the memory took ("Memory access").  A csr instruction in EX spoils it.
LoadResult ==
  mem.valid /\ mem.acc = "load" /\ ~MemWaits => RdVal = mem.ld

\* A trap or an interrupt makes the instruction at the trap vector the next
\* one of the program (mtvec, "direct exception vector").
TrapEntersVector == [][Exception => OldestPC' = Tvec]_vars

\* Some instruction retires or traps again and again: no combination of
\* stalls, fences and clears holds the pipeline for good.
Progress == []<>(Retires \/ Exception)
=============================================================================

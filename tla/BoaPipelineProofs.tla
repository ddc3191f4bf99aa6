------------------------- MODULE BoaPipelineProofs -------------------------
(***************************************************************************)
(* The pipeline of boa32_cpu implements its instruction set, for every     *)
(* size, every latency of the divider and every program that keeps clear   *)
(* of the cases in which it does not (predicate Conforming).               *)
(***************************************************************************)
EXTENDS BoaPipeline, TLAPS

----------------------------------------------------------------------------
(* The inductive invariant.                                                *)

\* The instruction in MEM that will retire, if there is one.
InMemory == mem.valid /\ ~mem.trap

\* The addresses of the oldest instructions that EX and ID still have to do.
DecodePC == IF id.valid THEN id.pc ELSE pc
ExecutePC == IF ex.valid \/ ex.trap THEN ex.pc ELSE DecodePC

\* Registers and CSRs after the instruction in MEM.
Writes(r) == InMemory /\ UsesRd(mem.insn) /\ r # 0 /\ r = mem.insn.rd
RegAfter(r) == IF Writes(r) THEN RdVal ELSE regs[r]
CsrAfter == IF InMemory /\ ChangesCsr(mem.insn) THEN mem.post ELSE acsr

Returning == ex.valid /\ ex.insn.op = "mret"
Sequential(i) == i.op \notin {"jal", "jalr", "br", "mret"}

\* Every stage holds an instruction of the program.
Instructions ==
  /\ IF id.valid THEN id.insn \in Code[id.pc] /\ pc = NextPC(id.pc)
                 ELSE id.insn \in Bubbles
  /\ ex.valid \/ ex.trap => ex.insn \in Code[ex.pc]
  /\ mem.valid \/ mem.trap => mem.insn \in Code[mem.pc]

\* What valid, trap, cause and the access say fits the instruction.
Kinds ==
  /\ ex.valid => ~Traps(ex.insn) /\ ~ex.trap
  /\ ex.trap => Traps(ex.insn)
  /\ mem.valid => ~Traps(mem.insn)
  /\ mem.trap =>
       \/ /\ mem.valid /\ mem.cause = "access" /\ mem.insn.op \in {"load", "store"}
          /\ regs[mem.insn.rs1] \in BadAddrs
       \/ mem.valid /\ mem.cause = "illegal" /\ Refused(mem.insn)
       \/ ~mem.valid /\ mem.cause = mem.insn.op /\ Traps(mem.insn)
  /\ mem.acc = IF InMemory /\ mem.insn.op \in {"load", "store"} THEN mem.insn.op ELSE "none"
  /\ wait > 0 => mem.acc # "none"

\* EX waits for the divider with a division, or everything is empty behind an
\* exception that cleared one.
Dividing ==
  div > 0 =>
    \/ ex.valid /\ ex.insn.op = "div"
    \/ ~(ex.valid \/ ex.trap \/ id.valid \/ mem.valid \/ mem.trap \/ wb.valid)

\* While a load waits in MEM no csr instruction is in EX, and while any access
\* does, no branch stands in ID behind a branch in EX.
Waiting ==
  wait > 0 =>
    /\ ex.valid /\ ex.insn.op = "br" => id.insn.op # "br"
    /\ mem.acc = "load" => ex.insn.op # "csr"

\* ID goes on where the instruction in EX leads, as far as that is known.
FollowsEx ==
  /\ ex.trap => DecodePC = NextPC(ex.pc)
  /\ ex.valid =>
       /\ Sequential(ex.insn) => DecodePC = NextPC(ex.pc)
       /\ ex.insn.op = "jal" => DecodePC = ex.insn.imm
       /\ ex.insn.op = "jalr" /\ ~mem.trap => DecodePC = JalrTarget(RegAfter(ex.insn.rs1))
       /\ ex.insn.op = "mret" => DecodePC = ex.post.mepc
       /\ ex.insn.op = "br" =>
            /\ ex.pred = (ex.insn.imm <= ex.pc)
            /\ DecodePC = Predicted(ex.pc, ex.insn)
            /\ alt = IF ex.pred THEN NextPC(ex.pc) ELSE ex.insn.imm

\* EX goes on where the instruction in MEM leads.
FollowsMem ==
  InMemory =>
    /\ Sequential(mem.insn) => ExecutePC = NextPC(mem.pc)
    /\ mem.insn.op = "jal" => ExecutePC = mem.insn.imm
    /\ mem.insn.op = "jalr" => ExecutePC = JalrTarget(regs[mem.insn.rs1])
    /\ mem.insn.op = "mret" => ExecutePC = acsr.mepc
    /\ mem.insn.op = "br" =>
         ExecutePC = IF regs[mem.insn.rs1] = regs[mem.insn.rs2]
                     THEN mem.insn.imm ELSE NextPC(mem.pc)

\* EX has the operands that its instruction reads: those of the ALU at once,
\* those of MEM unless MEM or the write-back register will still pass them on.
Fresh(r, v) == Writes(r) \/ (wb.valid /\ r # 0 /\ r = wb.rd) \/ v = regs[r]
Operands ==
  /\ wb.valid /\ wb.rd # 0 => regs[wb.rd] = wb.val
  /\ ex.valid /\ ~mem.trap =>
       /\ ExRs1(ex.insn) => ex.v1 = RegAfter(ex.insn.rs1)
       /\ ExRs2(ex.insn) => ex.v2 = RegAfter(ex.insn.rs2)
       /\ MemRs1(ex.insn) => Fresh(ex.insn.rs1, ex.v1)
       /\ MemRs2(ex.insn) => Fresh(ex.insn.rs2, ex.v2)

\* The instruction in MEM has its result and has had its effects.
Results ==
  /\ InMemory =>
       /\ UsesRd(mem.insn) => (rcsr.re <=> mem.insn.op = "csr")
       /\ mem.insn.op \in {"op", "div"} =>
            mem.v = Alu(regs[mem.insn.rs1], regs[mem.insn.rs2])
       /\ mem.insn.op \in {"jal", "jalr"} => mem.v = Link(mem.pc)
       /\ mem.insn.op \in {"load", "store"} => regs[mem.insn.rs1] \notin BadAddrs
       /\ mem.insn.op = "load" => mem.ld = amem[regs[mem.insn.rs1]]
       /\ mem.insn.op = "csr" =>
            /\ rcsr.val = CsrRead(acsr, mem.insn.csr) /\ ~Refused(mem.insn)
            /\ WritesCsr(mem.insn) =>
                 mem.post = CsrWrite(acsr, mem.insn.csr, regs[mem.insn.rs1])
       /\ mem.insn.op = "mret" => mem.post = CsrRet(acsr)
  /\ dmem = IF InMemory /\ mem.insn.op = "store"
            THEN [amem EXCEPT ![regs[mem.insn.rs1]] = regs[mem.insn.rs2]] ELSE amem

\* An mret takes effect on its way from ID to EX, other writes from EX to MEM.
CsrsAhead ==
  /\ csr = IF Returning THEN ex.post ELSE CsrAfter
  /\ Returning => ex.post = CsrRet(CsrAfter)
  /\ (mem.valid \/ mem.trap) /\ Revocable(mem.insn) => ~Returning

\* Where a CSR is ahead of what has retired, the delayed interrupt enable is
\* still that of before.
EnabledBefore ==
  /\ irq => Irqs
  /\ Irqs =>
    /\ mem.valid /\ mem.insn.op = "csr" => pmie[1] = acsr.mie
    /\ mem.valid /\ mem.insn.op = "mret" => pmie[2] = acsr.mie
    /\ Returning => pmie[1] = CsrAfter.mie

IInv ==
  /\ TypeOK /\ Instructions /\ Kinds /\ Dividing /\ Waiting
  /\ FollowsEx /\ FollowsMem /\ Operands /\ Results /\ CsrsAhead /\ EnabledBefore

----------------------------------------------------------------------------
(* Ranges of the operators.                                                *)

\* The remainder of a division is below the divisor.
LEMMA ModRange == \A a \in Nat, n \in Nat \ {0} : a % n \in 0 .. n - 1
  BY SMT

\* Results stay in their range.
LEMMA AluType == \A a, b \in Value : Alu(a, b) \in Value
  BY SizeAssumption, ModRange DEF Alu, Value

\* Addresses and links wrap around inside their ranges.
LEMMA AddressType ==
  /\ \A p \in PC : NextPC(p) \in PC /\ Link(p) \in Value
  /\ \A v \in Value : JalrTarget(v) \in PC
<1>1. \A p \in PC : NextPC(p) \in PC
  BY SizeAssumption, ModRange DEF NextPC, PC
<1>2. \A p \in PC : Link(p) \in Value
  BY <1>1, SizeAssumption, ModRange DEF Link, PC, Value
<1>3. \A v \in Value : JalrTarget(v) \in PC
  BY SizeAssumption, ModRange DEF JalrTarget, PC, Value
<1> QED BY <1>1, <1>2, <1>3

\* What the CSR operators read and return.
LEMMA CsrType ==
  ASSUME NEW c \in Csrs
  PROVE  /\ \A name \in CsrNames : CsrRead(c, name) \in Value
         /\ \A name \in CsrNames, v \in Value : CsrWrite(c, name, v) \in Csrs
         /\ \A cause \in {"none", "ecall", "illegal", "access", "irq"}, p \in PC :
              CsrTrap(c, cause, p) \in Csrs
         /\ CsrRet(c) \in Csrs
         /\ CsrReset \in Csrs
<1>1. /\ c.mepc % Vals \in Value /\ 1 % Vals \in Value /\ 0 \in Value /\ 0 \in PC
      /\ \A v \in Value : v % PCs \in PC
  <2>1. c.mepc \in Nat
    BY SizeAssumption DEF Csrs, PC
  <2> QED BY <2>1, SizeAssumption, ModRange DEF PC, Value
<1>2. \A name \in CsrNames : CsrRead(c, name) \in Value
  BY <1>1 DEF CsrRead, CsrNames, Csrs
<1>3. \A name \in CsrNames, v \in Value : CsrWrite(c, name, v) \in Csrs
  BY <1>1 DEF CsrWrite, CsrNames, Csrs
<1>4. \A cause \in {"none", "ecall", "illegal", "access", "irq"}, p \in PC :
        CsrTrap(c, cause, p) \in Csrs
  BY DEF CsrTrap, Csrs
<1>5. CsrRet(c) \in Csrs
  BY DEF CsrRet, Csrs
<1>6. CsrReset \in Csrs
  BY <1>1 DEF CsrReset, Csrs
<1> QED BY <1>2, <1>3, <1>4, <1>5, <1>6

----------------------------------------------------------------------------
(* Type correctness.                                                       *)

\* Only an instruction that traps in ID sets the trap flag of EX.
TrapsOnly == ex.trap => Traps(ex.insn)

\* What the wires between the stages carry has its type.
LEMMA WireTypes ==
  ASSUME TypeOK
  PROVE  /\ ExOut \in Value
         /\ RdVal \in Value
         /\ \A uses \in BOOLEAN, r \in Reg : ToEx(uses, r) \in Value
         /\ \A uses \in BOOLEAN, r \in Reg, v \in Value : ToMem(uses, r, v) \in Value
         /\ FetchAddrs \subseteq PC
         /\ Target \in PC
<1>1. ExOut \in Value
  BY AluType, AddressType DEF TypeOK, ExOut
<1>2. RdVal \in Value
  BY DEF TypeOK, RdVal
<1>3. \A uses \in BOOLEAN, r \in Reg : ToEx(uses, r) \in Value
  BY <1>1, <1>2 DEF TypeOK, ToEx, Forwarded
<1>4. \A uses \in BOOLEAN, r \in Reg, v \in Value : ToMem(uses, r, v) \in Value
  BY <1>2 DEF TypeOK, ToMem
<1>5. Target \in PC
  <2>1. id.insn.rs1 \in Reg /\ id.insn.imm \in PC
    BY DEF TypeOK, Instr
  <2>2. ToEx(TRUE, id.insn.rs1) \in Value
    BY <2>1, <1>3
  <2> QED BY <2>1, <2>2, AddressType DEF Target
<1>6. Redirects \subseteq PC
  <2>1. pc \in PC /\ id.pc \in PC /\ csr.mepc \in PC
    BY DEF TypeOK, Csrs
  <2> QED BY <2>1, <1>5 DEF Redirects
<1>7. FetchAddrs \subseteq PC
  <2>1. pc \in PC /\ alt \in PC /\ Tvec \in PC
    BY SizeAssumption DEF TypeOK, PC
  <2> QED BY <2>1, <1>6 DEF FetchAddrs
<1> QED BY <1>1, <1>2, <1>3, <1>4, <1>5, <1>7

\* An instruction of the program has the fields of an instruction.
LEMMA CodeType == \A p \in PC : \A i \in Code[p] : i \in Instr
  BY CodeAssumption

\* The fields of an instruction.
LEMMA InstrFields ==
  \A i \in Instr : /\ i.op \in Ops /\ i.rd \in Reg /\ i.rs1 \in Reg /\ i.rs2 \in Reg
                   /\ i.imm \in PC /\ i.csr \in CsrNames
  BY DEF Instr

\* What an empty stage holds has its type.
LEMMA EmptyType == NoInstr \in Instr /\ 0 \in PC /\ 0 \in Value /\ 0 \in Reg
  BY SizeAssumption DEF NoInstr, Instr, Ops, Reg, PC, Value, CsrNames

\* So has a bubble in ID.
LEMMA BubbleType ==
  \A d \in IdEmpty : /\ d \in [valid : BOOLEAN, pc : PC, insn : Instr]
                     /\ ~d.valid /\ d.insn \in Bubbles
<1> SUFFICES ASSUME NEW d \in IdEmpty
             PROVE  /\ d \in [valid : BOOLEAN, pc : PC, insn : Instr]
                    /\ ~d.valid /\ d.insn \in Bubbles
  OBVIOUS
<1>1. PICK i \in Bubbles : d = [valid |-> FALSE, pc |-> 0, insn |-> i]
  BY DEF IdEmpty
<1>2. i \in Instr
  BY InputAssumption
<1> QED BY <1>1, <1>2, EmptyType

\* The types hold out of reset.
LEMMA InitType == Init => TypeOK
<1> SUFFICES ASSUME Init PROVE TypeOK
  OBVIOUS
<1>1. Entry \in PC /\ CsrReset \in Csrs
  BY SizeAssumption, EmptyType DEF PC, CsrReset, Csrs
<1>2. div \in 0 .. DivLatency /\ \E w \in Waits \cup {0} : wait \in 0 .. w
  BY InputAssumption DEF Init
<1>3. id \in [valid : BOOLEAN, pc : PC, insn : Instr]
  BY BubbleType DEF Init
<1>4. ex \in [valid : BOOLEAN, trap : BOOLEAN, pc : PC, insn : Instr,
             v1 : Value, v2 : Value, pred : BOOLEAN, post : Csrs]
  <2>1. PICK i \in Bubbles : ex = [ExEmpty EXCEPT !.insn = i]
    BY DEF Init
  <2>2. i \in Instr
    BY InputAssumption
  <2> QED BY <2>1, <2>2, EmptyType, <1>1 DEF ExEmpty
<1>5. mem \in [valid : BOOLEAN, trap : BOOLEAN, pc : PC, insn : Instr, v : Value,
              cause : {"none", "ecall", "illegal", "access"},
              acc : {"none", "load", "store"}, ld : Value, post : Csrs]
  BY EmptyType, <1>1 DEF Init, MemEmpty
<1>6. wb \in [valid : BOOLEAN, rd : Reg, val : Value]
  BY EmptyType DEF Init, WbEmpty
<1>7. regs \in [Reg -> Value] /\ dmem \in [Addr -> Value] /\ amem \in [Addr -> Value]
  BY EmptyType DEF Init
<1> QED BY <1>1, <1>2, <1>3, <1>4, <1>5, <1>6, <1>7, EmptyType DEF Init, TypeOK

\* Every clock edge keeps the types, register by register: the CSRs.
LEMMA CsrFileType ==
  ASSUME TypeOK, CsrFile PROVE csr' \in Csrs
<1>1. /\ mem.pc \in PC /\ mem.cause \in {"none", "ecall", "illegal", "access"}
      /\ csr \in Csrs /\ ex.insn.csr \in CsrNames /\ ex.insn.rs1 \in Reg
  BY InstrFields DEF TypeOK
<1>2. ToMem(TRUE, ex.insn.rs1, ExOut) \in Value
  BY <1>1, WireTypes
<1>3. /\ CsrTrap(csr, "irq", mem.pc) \in Csrs
      /\ CsrTrap(csr, mem.cause, mem.pc) \in Csrs
      /\ CsrRet(csr) \in Csrs
      /\ CsrWrite(csr, ex.insn.csr, ToMem(TRUE, ex.insn.rs1, ExOut)) \in Csrs
  BY <1>1, <1>2, CsrType
<1> QED BY <1>1, <1>3 DEF CsrFile

\* The fetch stage: pc and the IF/ID register.
LEMMA FetchType ==
  ASSUME TypeOK, NEW hit \in BOOLEAN, NEW addr \in FetchAddrs, Fetch(addr, hit)
  PROVE  pc' \in PC /\ id' \in [valid : BOOLEAN, pc : PC, insn : Instr]
<1>1. addr \in PC /\ NextPC(addr) \in PC
  BY WireTypes, AddressType
<1>2. pc' \in PC
  BY <1>1 DEF TypeOK, Fetch
<1>3. id' \in [valid : BOOLEAN, pc : PC, insn : Instr]
  <2>1. CASE id' = id
    BY <2>1 DEF TypeOK
  <2>2. CASE id' \in IdEmpty
    BY <2>2, BubbleType
  <2>3. CASE \E i \in Code[addr] : id' = [valid |-> TRUE, pc |-> addr, insn |-> i]
    BY <2>3, <1>1, CodeType
  <2> QED BY <2>1, <2>2, <2>3 DEF Fetch
<1> QED BY <1>2, <1>3

\* The ID/EX register and the timer of the divider.
LEMMA ExecuteType ==
  ASSUME TypeOK, Execute
  PROVE  /\ ex' \in [valid : BOOLEAN, trap : BOOLEAN, pc : PC, insn : Instr,
                     v1 : Value, v2 : Value, pred : BOOLEAN, post : Csrs]
         /\ div' \in 0 .. DivLatency
<1>1. div' \in 0 .. DivLatency
  BY InputAssumption DEF TypeOK, Execute
<1>2. CASE StallEx
  BY <1>1, <1>2 DEF TypeOK, Execute
<1>3. CASE ~StallEx
  <2>1. /\ id.pc \in PC /\ id.insn \in Instr /\ id.insn.rs1 \in Reg /\ id.insn.rs2 \in Reg
        /\ csr \in Csrs
    BY InstrFields DEF TypeOK
  <2>2. /\ ToEx(ExRs1(id.insn), id.insn.rs1) \in Value
        /\ ToEx(ExRs2(id.insn), id.insn.rs2) \in Value
    <3>1. ExRs1(id.insn) \in BOOLEAN /\ ExRs2(id.insn) \in BOOLEAN
      BY DEF ExRs1, ExRs2
    <3> QED BY <2>1, <3>1, WireTypes
  <2>3. (IF Ret THEN CsrRet(csr) ELSE CsrReset) \in Csrs
    BY <2>1, CsrType
  <2>4. /\ (IdValid /\ ~StallId) \in BOOLEAN /\ (IdTrap /\ ~StallId) \in BOOLEAN
        /\ PredictTaken \in BOOLEAN
    BY DEF PredictTaken
  <2>5. ex' = [valid |-> IdValid /\ ~StallId, trap |-> IdTrap /\ ~StallId,
                 pc |-> id.pc, insn |-> id.insn,
                 v1 |-> ToEx(ExRs1(id.insn), id.insn.rs1),
                 v2 |-> ToEx(ExRs2(id.insn), id.insn.rs2),
                 pred |-> PredictTaken,
                 post |-> IF Ret THEN CsrRet(csr) ELSE CsrReset]
    BY <1>3 DEF Execute
  <2> QED BY <1>1, <2>1, <2>2, <2>3, <2>4, <2>5
<1> QED BY <1>2, <1>3

\* The EX/MEM register, the wait states and the data memory.
LEMMA MemoryType ==
  ASSUME TypeOK, TrapsOnly, csr' \in Csrs, Memory
  PROVE  /\ mem' \in [valid : BOOLEAN, trap : BOOLEAN, pc : PC, insn : Instr, v : Value,
                      cause : {"none", "ecall", "illegal", "access"},
                      acc : {"none", "load", "store"}, ld : Value, post : Csrs]
         /\ \E w \in Waits \cup {0} : wait' \in 0 .. w
         /\ dmem' \in [Addr -> Value]
<1>1. CASE StallMem
  <2>1. \E w \in Waits \cup {0} : wait' \in 0 .. w
    <3>1. wait > 0 /\ wait' = wait - 1
      BY <1>1 DEF StallMem, MemWaits, Memory
    <3> QED BY <3>1, InputAssumption DEF TypeOK
  <2>2. mem' = [mem EXCEPT !.trap = FALSE] /\ dmem' = dmem
    BY <1>1 DEF Memory
  <2> QED BY <2>1, <2>2 DEF TypeOK
<1>2. CASE ~StallMem
  <2>1. \E w \in Waits \cup {0} : wait' \in 0 .. w
    <3>1. wait' \in Waits \cup {0}
      BY <1>2 DEF Memory
    <3> QED BY <3>1, InputAssumption
  <2>2. /\ ex.pc \in PC /\ ex.insn \in Instr /\ ex.insn.rs1 \in Reg /\ ex.insn.rs2 \in Reg
        /\ ex.v2 \in Value /\ ex.post \in Csrs /\ ExOut \in Value
    BY InstrFields, WireTypes DEF TypeOK
  <2>3. ToMem(MemRs1(ex.insn), ex.insn.rs1, ExOut) \in Value /\ StoreVal \in Value
    BY <2>2, WireTypes DEF MemRs1, StoreVal
  <2>4. dmem' \in [Addr -> Value]
    BY <1>2, <2>3 DEF TypeOK, Memory
  <2> DEFINE Mem == [valid |-> ExValid /\ ~StallEx,
                     trap |-> (ExTrap /\ ~StallEx) \/ Faults,
                     cause |-> IF ExTrap /\ ~StallEx THEN ex.insn.op
                               ELSE IF Faults THEN FaultCause(ex.insn) ELSE "none",
                     pc |-> ex.pc, insn |-> ex.insn,
                     v |-> ToMem(MemRs1(ex.insn), ex.insn.rs1, ExOut),
                     acc |-> IF Accesses /\ ~Faults THEN ex.insn.op ELSE "none",
                     ld |-> IF Accesses /\ ~Faults /\ ex.insn.op = "load"
                            THEN dmem[ExOut] ELSE 0,
                     post |-> IF CsrWrites THEN csr' ELSE ex.post]
  <2>5. mem' = Mem
    BY <1>2 DEF Memory
  <2>6. Mem.cause \in {"none", "ecall", "illegal", "access"}
    BY DEF TrapsOnly, Traps, ExTrap, FaultCause
  <2>7. Mem.acc \in {"none", "load", "store"}
    BY DEF Accesses
  <2>8. Mem.ld \in Value
    BY <2>2, EmptyType DEF TypeOK, Addr
  <2>9. Mem.post \in Csrs
    BY <2>2
  <2>10. Mem.valid \in BOOLEAN /\ Mem.trap \in BOOLEAN
    BY DEF ExValid, Faults
  <2> HIDE DEF Mem
  <2>11. Mem = [valid |-> Mem.valid, trap |-> Mem.trap, cause |-> Mem.cause,
                pc |-> ex.pc, insn |-> ex.insn,
                v |-> ToMem(MemRs1(ex.insn), ex.insn.rs1, ExOut),
                acc |-> Mem.acc, ld |-> Mem.ld, post |-> Mem.post]
    BY DEF Mem
  <2> QED BY <2>1, <2>2, <2>3, <2>4, <2>5, <2>6, <2>7, <2>8, <2>9, <2>10, <2>11
<1> QED BY <1>1, <1>2

\* The write-back register and the register file.
LEMMA WriteBackType ==
  ASSUME TypeOK, WriteBack
  PROVE  wb' \in [valid : BOOLEAN, rd : Reg, val : Value] /\ regs' \in [Reg -> Value]
<1>1. RdVal \in Value /\ mem.insn.rd \in Reg
  BY WireTypes, InstrFields DEF TypeOK
<1>3. CASE StallMem
  BY <1>3 DEF TypeOK, WriteBack
<1>4. CASE ~StallMem
  <2>1. wb' \in [valid : BOOLEAN, rd : Reg, val : Value]
    <3> DEFINE written == WbValid /\ UsesRd(mem.insn)
    <3>1. wb' = [valid |-> written, rd |-> mem.insn.rd, val |-> RdVal]
      BY <1>4 DEF WriteBack
    <3>2. written \in BOOLEAN
      OBVIOUS
    <3> HIDE DEF written
    <3> QED BY <1>1, <3>1, <3>2
  <2>2. regs' = regs \/ regs' = [regs EXCEPT ![mem.insn.rd] = RdVal]
    BY <1>4 DEF WriteBack
  <2> QED BY <1>1, <2>1, <2>2 DEF TypeOK
<1> QED BY <1>3, <1>4

\* The correction address, the CSR read, the interrupt lines and history.
LEMMA OtherTypes ==
  ASSUME TypeOK, csr' \in Csrs, TakeAlternative, ReadCsr, IrqLatch, History
  PROVE  /\ alt' \in PC /\ rcsr' \in [re : BOOLEAN, val : Value]
         /\ pmie' \in BOOLEAN \X BOOLEAN /\ irq' \in BOOLEAN
         /\ amem' \in [Addr -> Value] /\ acsr' \in Csrs
<1>1. alt' \in PC
  BY WireTypes DEF TypeOK, TakeAlternative
<1>2. rcsr' \in [re : BOOLEAN, val : Value]
  <2>1. CsrRead(csr, ex.insn.csr) \in Value
    BY CsrType, InstrFields DEF TypeOK
  <2> QED BY <2>1, EmptyType DEF ReadCsr
<1>3. pmie' \in BOOLEAN \X BOOLEAN
  <2>1. csr.mie \in BOOLEAN /\ pmie[1] \in BOOLEAN
    BY DEF TypeOK, Csrs
  <2> QED BY <2>1 DEF IrqLatch
<1>4. irq' \in BOOLEAN
  BY DEF IrqLatch
<1>5. amem' \in [Addr -> Value]
  BY DEF TypeOK, History
<1>6. acsr' \in Csrs
  BY DEF TypeOK, History
<1> QED BY <1>1, <1>2, <1>3, <1>4, <1>5, <1>6

\* A clock edge keeps the types.
LEMMA NextType == TypeOK /\ TrapsOnly /\ [Next]_vars => TypeOK' /\ TrapsOnly'
<1> SUFFICES ASSUME TypeOK, TrapsOnly, [Next]_vars PROVE TypeOK' /\ TrapsOnly'
  OBVIOUS
<1>1. CASE UNCHANGED vars
  BY <1>1 DEF vars, TypeOK, TrapsOnly, Traps
<1>2. ASSUME NEW hit \in BOOLEAN, Clock(hit) PROVE TypeOK' /\ TrapsOnly'
  <2>1. csr' \in Csrs
    BY <1>2, CsrFileType DEF Clock
  <2>2. PICK addr \in FetchAddrs : Fetch(addr, hit)
    BY <1>2 DEF Clock
  <2>3. pc' \in PC /\ id' \in [valid : BOOLEAN, pc : PC, insn : Instr]
    BY <2>2, FetchType
  <2>4. TypeOK'
    BY <1>2, <2>1, <2>3, ExecuteType, MemoryType, WriteBackType, OtherTypes
    DEF Clock, TypeOK
  <2>5. TrapsOnly'
    <3>1. CASE StallEx
      BY <1>2, <3>1 DEF Clock, Execute, TrapsOnly, Traps
    <3>2. CASE ~StallEx
      <4>1. ex'.trap = (IdTrap /\ ~StallId) /\ ex'.insn = id.insn
        BY <1>2, <3>2 DEF Clock, Execute
      <4> QED BY <4>1 DEF TrapsOnly, IdTrap, Traps
    <3> QED BY <3>1, <3>2
  <2> QED BY <2>4, <2>5
<1> QED BY <1>1, <1>2 DEF Next, ClockHit, ClockMiss

\* The registers of the pipeline, the register file, the memory and the CSRs
\* hold values of their types, whatever the program and the environment do.
THEOREM PipelineTypes == Spec => []TypeOK
<1>1. Init => TypeOK /\ TrapsOnly
  BY InitType DEF Init, ExEmpty, TrapsOnly
<1> QED BY <1>1, NextType, PTL DEF Spec

----------------------------------------------------------------------------
(* What a clock edge does, in the four cases in which the stages move       *)
(* differently.                                                            *)

\* An access in MEM waits; the divider keeps EX; MEM and EX move on.
Held == ~Exception /\ MemWaits
Divides == ~Exception /\ ~MemWaits /\ ExWaits
Moves == ~Exception /\ ~MemWaits /\ ~ExWaits

\* These three and an exception are all the cases.
LEMMA FourCases == Exception \/ Held \/ Divides \/ Moves
  BY DEF Held, Divides, Moves

\* An exception empties every stage, and IF goes to the trap vector.
LEMMA ExceptionFacts ==
  ASSUME TypeOK, "trap" \notin SkipHits, Next, Exception
  PROVE  /\ id' \in IdEmpty /\ pc' = Tvec
         /\ ~ex'.valid /\ ~ex'.trap
         /\ ~mem'.valid /\ ~mem'.trap /\ mem'.acc = "none" /\ wait' = 0
         /\ ~wb'.valid
         /\ csr' = IF IrqTaken THEN CsrTrap(csr, "irq", mem.pc)
                   ELSE CsrTrap(csr, mem.cause, mem.pc)
         /\ acsr' = csr' /\ amem' = dmem /\ dmem' = dmem /\ regs' = regs
<1>1. Clock(FALSE)
  BY DEF Next, ClockHit, ClockMiss, MustMiss
<1>2. /\ ~StallMem /\ ~StallEx /\ ~StallId /\ ~StallIf
      /\ ~ExValid /\ ~ExTrap /\ ~WbValid /\ ~IdValid /\ ~IdTrap /\ ~Retires
  BY DEF StallMem, StallEx, StallId, StallIf, ExValid, ExTrap, WbValid, IdValid, IdTrap,
         ClearId, Retires
<1>3. ~Accesses /\ ~Faults
  BY <1>2 DEF Accesses, Faults
<1>4. id' \in IdEmpty /\ pc' = Tvec
  <2>1. FetchAddrs = {Tvec}
    BY <1>2 DEF FetchAddrs
  <2> QED BY <1>1, <1>2, <2>1 DEF Clock, Fetch
<1>5. ex'.valid = FALSE /\ ex'.trap = FALSE
  <2>1. ex'.valid = (IdValid /\ ~StallId) /\ ex'.trap = (IdTrap /\ ~StallId)
    BY <1>1, <1>2 DEF Clock, Execute
  <2> QED BY <1>2, <2>1
<1>6. mem'.valid = FALSE /\ mem'.trap = FALSE /\ mem'.acc = "none"
  <2>1. /\ mem'.valid = (ExValid /\ ~StallEx)
        /\ mem'.trap = ((ExTrap /\ ~StallEx) \/ Faults)
        /\ mem'.acc = IF Accesses /\ ~Faults THEN ex.insn.op ELSE "none"
    BY <1>1, <1>2 DEF Clock, Memory
  <2> QED BY <1>2, <1>3, <2>1
<1>7. wait' = 0 /\ dmem' = dmem
  BY <1>1, <1>2, <1>3 DEF Clock, Memory
<1>8. wb'.valid = FALSE /\ regs' = regs
  <2>1. wb'.valid = (WbValid /\ UsesRd(mem.insn))
    BY <1>1, <1>2 DEF Clock, WriteBack
  <2>2. regs' = regs
    BY <1>1, <1>2 DEF Clock, WriteBack
  <2> QED BY <1>2, <2>1, <2>2
<1>9. csr' = IF IrqTaken THEN CsrTrap(csr, "irq", mem.pc)
             ELSE CsrTrap(csr, mem.cause, mem.pc)
  BY <1>1 DEF Clock, CsrFile, Exception
<1>10. acsr' = csr' /\ amem' = dmem
  BY <1>1 DEF Clock, History
<1> QED BY <1>4, <1>5, <1>6, <1>7, <1>8, <1>9, <1>10

\* While an access waits, only its wait states, the divider and what looks at
\* EX alone go on.
LEMMA HeldFacts ==
  ASSUME TypeOK, Next, Held
  PROVE  /\ UNCHANGED <<pc, id, ex, wb, regs, dmem, csr, amem, acsr>>
         /\ mem' = mem /\ wait' = wait - 1
         /\ rcsr'.re = (ex.insn.op = "csr")
         /\ div' > 0 => div > 0
         /\ pmie' = <<csr.mie, pmie[1]>>
         /\ id.insn.op # "br" => alt' = alt
<1>1. PICK hit \in BOOLEAN : Clock(hit)
  BY DEF Next, ClockHit, ClockMiss
<1>2. /\ StallMem /\ StallEx /\ StallId /\ StallIf /\ ~Retires /\ ~Ret /\ ~CsrWrites
      /\ ~IrqTaken /\ ~mem.trap
  BY DEF Held, StallMem, StallEx, StallId, StallIf, Retires, Ret, CsrWrites, Exception
<1>3. pc' = pc /\ id' = id
  BY <1>1, <1>2 DEF Clock, Fetch
<1>4. ex' = ex
  BY <1>1, <1>2 DEF Clock, Execute
<1>5. wb' = wb /\ regs' = regs
  BY <1>1, <1>2 DEF Clock, WriteBack
<1>6. csr' = csr
  BY <1>1, <1>2 DEF Clock, CsrFile
<1>7. amem' = amem /\ acsr' = acsr
  BY <1>1, <1>2 DEF Clock, History, Held
<1>8. mem' = mem /\ wait' = wait - 1 /\ dmem' = dmem
  <2>1. mem' = [mem EXCEPT !.trap = FALSE] /\ wait' = wait - 1 /\ dmem' = dmem
    BY <1>1, <1>2 DEF Clock, Memory
  <2>2. mem.trap = FALSE
    BY <1>2 DEF TypeOK
  <2> QED BY <2>1, <2>2 DEF TypeOK
<1>9. rcsr'.re = (ex.insn.op = "csr")
  BY <1>1 DEF Clock, ReadCsr
<1>10. div' > 0 => div > 0
  <2>1. div' = IF div > 0 THEN div - 1 ELSE 0
    BY <1>1, <1>2 DEF Clock, Execute
  <2> QED BY <2>1
<1>11. pmie' = <<csr.mie, pmie[1]>>
  BY <1>1 DEF Clock, IrqLatch
<1>12. id.insn.op # "br" => alt' = alt
  BY <1>1 DEF Clock, TakeAlternative
<1> QED BY <1>3, <1>4, <1>5, <1>6, <1>7, <1>8, <1>9, <1>10, <1>11, <1>12

\* Where MEM does not wait, its instruction retires.
LEMMA RetireFacts ==
  ASSUME TypeOK, Next, ~Exception, ~MemWaits
  PROVE  /\ wb'.valid = (mem.valid /\ UsesRd(mem.insn))
         /\ wb'.rd = mem.insn.rd /\ wb'.val = RdVal
         /\ regs' = IF mem.valid /\ UsesRd(mem.insn) /\ mem.insn.rd # 0
                    THEN [regs EXCEPT ![mem.insn.rd] = RdVal] ELSE regs
         /\ amem' = IF mem.valid THEN dmem ELSE amem
         /\ acsr' = CsrAfter
<1>1. PICK hit \in BOOLEAN : Clock(hit)
  BY DEF Next, ClockHit, ClockMiss
<1>2. ~StallMem /\ ~mem.trap /\ (WbValid <=> mem.valid) /\ (Retires <=> mem.valid)
      /\ (InMemory <=> mem.valid)
  BY DEF StallMem, WbValid, Retires, Exception, InMemory
<1>3. /\ wb'.valid = (WbValid /\ UsesRd(mem.insn))
      /\ wb'.rd = mem.insn.rd /\ wb'.val = RdVal
      /\ regs' = IF WbValid /\ UsesRd(mem.insn) /\ mem.insn.rd # 0
                    THEN [regs EXCEPT ![mem.insn.rd] = RdVal] ELSE regs
  BY <1>1, <1>2 DEF Clock, WriteBack
<1>4. /\ amem' = IF Retires THEN dmem ELSE amem
      /\ acsr' = IF Retires /\ ChangesCsr(mem.insn) THEN mem.post ELSE acsr
  BY <1>1 DEF Clock, History
<1>5. wb'.valid = (mem.valid /\ UsesRd(mem.insn))
  BY <1>2, <1>3
<1>6. acsr' = CsrAfter
  BY <1>2, <1>4 DEF CsrAfter
<1> QED BY <1>2, <1>3, <1>4, <1>5, <1>6

\* While the divider works, nothing enters MEM.
LEMMA DividesFacts ==
  ASSUME TypeOK, Next, Divides
  PROVE  /\ UNCHANGED <<pc, id, ex, dmem, csr>>
         /\ ~mem'.valid /\ ~mem'.trap /\ mem'.acc = "none" /\ wait' = 0
<1>1. PICK hit \in BOOLEAN : Clock(hit)
  BY DEF Next, ClockHit, ClockMiss
<1>2. /\ ~StallMem /\ StallEx /\ StallId /\ StallIf /\ ~ExValid /\ ~Ret /\ ~CsrWrites
      /\ ~IrqTaken /\ ~mem.trap
  BY DEF Divides, StallMem, StallEx, StallId, StallIf, ExValid, Ret, CsrWrites, Exception
<1>3. ~Accesses /\ ~Faults
  BY <1>2 DEF Accesses, Faults
<1>4. pc' = pc /\ id' = id
  BY <1>1, <1>2 DEF Clock, Fetch
<1>5. ex' = ex
  BY <1>1, <1>2 DEF Clock, Execute
<1>6. csr' = csr
  BY <1>1, <1>2 DEF Clock, CsrFile
<1>7. mem'.valid = FALSE /\ mem'.trap = FALSE /\ mem'.acc = "none"
  <2>1. /\ mem'.valid = (ExValid /\ ~StallEx)
        /\ mem'.trap = ((ExTrap /\ ~StallEx) \/ Faults)
        /\ mem'.acc = IF Accesses /\ ~Faults THEN ex.insn.op ELSE "none"
    BY <1>1, <1>2 DEF Clock, Memory
  <2> QED BY <1>2, <1>3, <2>1
<1>8. wait' = 0 /\ dmem' = dmem
  BY <1>1, <1>2, <1>3 DEF Clock, Memory
<1> QED BY <1>4, <1>5, <1>6, <1>7, <1>8

\* Where EX moves on, the wires out of EX and the stalls of ID are these.
LEMMA MovesWires ==
  ASSUME Moves
  PROVE  /\ ~StallMem /\ ~StallEx /\ ~IrqTaken /\ ~mem.trap
         /\ (ExValid <=> ex.valid) /\ (ExTrap <=> ex.trap) /\ (WbValid <=> mem.valid)
         /\ (StallId <=> XretHazard \/ LoadHazard \/ FenceHazard)
         /\ (StallIf <=> StallId)
         /\ (CsrWrites <=> ex.valid /\ WritesCsr(ex.insn))
         /\ (Faults <=> (Accesses /\ ExOut \in BadAddrs) \/ (ex.valid /\ Refused(ex.insn)))
         /\ (Accesses <=> ex.valid /\ ex.insn.op \in {"load", "store"})
         /\ (IdValid <=> id.valid /\ ~Mispredicted /\ ~Traps(id.insn))
         /\ (IdTrap <=> id.valid /\ ~Mispredicted /\ Traps(id.insn))
  BY DEF Moves, Exception, StallMem, StallEx, ExValid, ExTrap, WbValid, StallId, StallIf,
         CsrWrites, Accesses, Faults, IdValid, IdTrap, ClearId

\* The instruction in EX enters MEM and starts its access.
LEMMA MovesToMem ==
  ASSUME TypeOK, Next, Moves
  PROVE  /\ mem'.valid = ex.valid
         /\ mem'.trap = (ex.trap \/ Faults)
         /\ mem'.cause = IF ex.trap THEN ex.insn.op
                         ELSE IF Faults THEN FaultCause(ex.insn) ELSE "none"
         /\ mem'.pc = ex.pc /\ mem'.insn = ex.insn
         /\ mem'.v = ToMem(MemRs1(ex.insn), ex.insn.rs1, ExOut)
         /\ mem'.acc = IF Accesses /\ ~Faults THEN ex.insn.op ELSE "none"
         /\ Accesses /\ ~Faults /\ ex.insn.op = "load" => mem'.ld = dmem[ExOut]
         /\ mem'.post = IF CsrWrites THEN csr' ELSE ex.post
         /\ wait' \in IF Accesses /\ ~Faults THEN Waits ELSE {0}
         /\ dmem' = IF Accesses /\ ~Faults /\ ex.insn.op = "store"
                    THEN [dmem EXCEPT ![ExOut] = StoreVal] ELSE dmem
<1>1. PICK hit \in BOOLEAN : Clock(hit)
  BY DEF Next, ClockHit, ClockMiss
<1>2. mem'.valid = ex.valid
  <2>1. mem'.valid = (ExValid /\ ~StallEx)
    BY <1>1, MovesWires DEF Clock, Memory
  <2>2. ex.valid \in BOOLEAN
    BY DEF TypeOK
  <2> QED BY <2>1, <2>2, MovesWires
<1>3. mem'.trap = (ex.trap \/ Faults)
  <2>1. mem'.trap = ((ExTrap /\ ~StallEx) \/ Faults)
    BY <1>1, MovesWires DEF Clock, Memory
  <2> QED BY <2>1, MovesWires
<1>4. mem'.cause = IF ex.trap THEN ex.insn.op
                   ELSE IF Faults THEN FaultCause(ex.insn) ELSE "none"
  <2>1. mem'.cause = IF ExTrap /\ ~StallEx THEN ex.insn.op
                     ELSE IF Faults THEN FaultCause(ex.insn) ELSE "none"
    BY <1>1, MovesWires DEF Clock, Memory
  <2> QED BY <2>1, MovesWires
<1>5. /\ mem'.pc = ex.pc /\ mem'.insn = ex.insn
      /\ mem'.v = ToMem(MemRs1(ex.insn), ex.insn.rs1, ExOut)
      /\ mem'.acc = IF Accesses /\ ~Faults THEN ex.insn.op ELSE "none"
      /\ Accesses /\ ~Faults /\ ex.insn.op = "load" => mem'.ld = dmem[ExOut]
      /\ mem'.post = IF CsrWrites THEN csr' ELSE ex.post
  BY <1>1, MovesWires DEF Clock, Memory
<1>6. /\ wait' \in IF Accesses /\ ~Faults THEN Waits ELSE {0}
      /\ dmem' = IF Accesses /\ ~Faults /\ ex.insn.op = "store"
                 THEN [dmem EXCEPT ![ExOut] = StoreVal] ELSE dmem
  BY <1>1, MovesWires DEF Clock, Memory
<1> QED BY <1>2, <1>3, <1>4, <1>5, <1>6

\* The instruction in ID enters EX, or a bubble does.
LEMMA MovesToEx ==
  ASSUME TypeOK, Next, Moves
  PROVE  /\ ex'.valid = (IdValid /\ ~StallId) /\ ex'.trap = (IdTrap /\ ~StallId)
         /\ ex'.pc = id.pc /\ ex'.insn = id.insn
         /\ ex'.v1 = ToEx(ExRs1(id.insn), id.insn.rs1)
         /\ ex'.v2 = ToEx(ExRs2(id.insn), id.insn.rs2)
         /\ ex'.pred = PredictTaken
         /\ Ret => ex'.post = CsrRet(csr)
         /\ div' > 0 => IdValid /\ ~StallId /\ id.insn.op = "div"
         /\ IdValid /\ id.insn.op = "br" => alt' = IF PredictTaken THEN pc ELSE Target
<1>1. PICK hit \in BOOLEAN : Clock(hit)
  BY DEF Next, ClockHit, ClockMiss
<1>2. ex' = [valid |-> IdValid /\ ~StallId, trap |-> IdTrap /\ ~StallId,
                 pc |-> id.pc, insn |-> id.insn,
                 v1 |-> ToEx(ExRs1(id.insn), id.insn.rs1),
                 v2 |-> ToEx(ExRs2(id.insn), id.insn.rs2),
                 pred |-> PredictTaken,
                 post |-> IF Ret THEN CsrRet(csr) ELSE CsrReset]
  BY <1>1, MovesWires DEF Clock, Execute
<1>3. div' > 0 => IdValid /\ ~StallId /\ id.insn.op = "div"
  <2>1. div = 0
    BY InputAssumption DEF Moves, ExWaits, TypeOK
  <2>2. div' = IF IdValid /\ ~StallId /\ id.insn.op = "div" /\ div = 0 THEN DivLatency
               ELSE IF div > 0 THEN div - 1 ELSE 0
    BY <1>1 DEF Clock, Execute
  <2> QED BY <2>1, <2>2
<1>4. IdValid /\ id.insn.op = "br" => alt' = IF PredictTaken THEN pc ELSE Target
  BY <1>1 DEF Clock, TakeAlternative
<1> QED BY <1>2, <1>3, <1>4

\* ID stays, or fetches one of FetchAddrs, or waits for it.
LEMMA MovesFetch ==
  ASSUME TypeOK, Next, Moves, SkipHits = {}, ~PmpLocking
  PROVE  /\ StallId => pc' = pc /\ id' = id
         /\ ~StallId => \E addr \in FetchAddrs :
              \/ pc' = addr /\ id' \in IdEmpty
              \/ /\ pc' = NextPC(addr) /\ id'.valid /\ id'.pc = addr
                 /\ id'.insn \in Code[addr]
<1>1. PICK hit \in BOOLEAN : Clock(hit) /\ (hit => ~MustMiss)
  BY DEF Next, ClockHit, ClockMiss
<1>2. PICK addr \in FetchAddrs : Fetch(addr, hit)
  BY <1>1 DEF Clock
<1>3. CASE StallId
  <2>1. FetchAddrs = {pc}
    BY <1>3, MovesWires DEF FetchAddrs
  <2> QED BY <1>2, <1>3, MovesWires DEF Fetch
<1>4. CASE ~StallId
  <2>1. hit => ~Fencing
    BY <1>1, <1>4, MovesWires DEF MustMiss
  <2>2. ~Exception
    BY DEF Moves
  <2>3. CASE hit
    BY <1>2, <1>4, <2>1, <2>2, <2>3, MovesWires DEF Fetch
  <2>4. CASE ~hit
    BY <1>2, <1>4, <2>4, MovesWires DEF Fetch
  <2> QED BY <1>4, <2>3, <2>4
<1> QED BY <1>3, <1>4

\* The CSRs: a return in ID goes before a write in EX.
LEMMA MovesCsr ==
  ASSUME TypeOK, Next, Moves
  PROVE  /\ csr' = IF Ret THEN CsrRet(csr)
                   ELSE IF ex.valid /\ WritesCsr(ex.insn)
                   THEN CsrWrite(csr, ex.insn.csr, ToMem(TRUE, ex.insn.rs1, ExOut))
                   ELSE csr
         /\ rcsr'.re = (ex.insn.op = "csr")
         /\ ex.insn.op = "csr" => rcsr'.val = CsrRead(csr, ex.insn.csr)
         /\ pmie' = <<csr.mie, pmie[1]>>
<1>1. PICK hit \in BOOLEAN : Clock(hit)
  BY DEF Next, ClockHit, ClockMiss
<1>2. csr' = IF Ret THEN CsrRet(csr)
             ELSE IF ex.valid /\ WritesCsr(ex.insn)
             THEN CsrWrite(csr, ex.insn.csr, ToMem(TRUE, ex.insn.rs1, ExOut))
             ELSE csr
  BY <1>1, MovesWires DEF Clock, CsrFile
<1> QED BY <1>1, <1>2 DEF Clock, ReadCsr, IrqLatch

----------------------------------------------------------------------------
(* Operands: what is forwarded is what the register file would hold.       *)

\* Without an exception, what is valid in MEM is not trapping.
LEMMA Retiring == ~Exception => (InMemory <=> mem.valid) /\ (WbValid <=> mem.valid) /\ ~mem.trap
  BY DEF InMemory, WbValid, Exception

\* The register file catches up with the instruction that leaves MEM.
LEMMA RegsAfter ==
  ASSUME TypeOK, Next, ~Exception, ~MemWaits
  PROVE  \A r \in Reg : regs'[r] = RegAfter(r)
<1> SUFFICES ASSUME NEW r \in Reg PROVE regs'[r] = RegAfter(r)
  OBVIOUS
<1>1. regs \in [Reg -> Value]
  BY DEF TypeOK
<1>2. regs' = IF mem.valid /\ UsesRd(mem.insn) /\ mem.insn.rd # 0
              THEN [regs EXCEPT ![mem.insn.rd] = RdVal] ELSE regs
  BY RetireFacts
<1>3. Writes(r) <=> mem.valid /\ UsesRd(mem.insn) /\ r # 0 /\ r = mem.insn.rd
  BY Retiring DEF Writes
<1> QED BY <1>1, <1>2, <1>3 DEF RegAfter

\* What MEM takes from EX: forwarding from MEM and from the write-back
\* register makes up for a value read too early.
LEMMA PassedToMem ==
  ASSUME TypeOK, Operands, ~Exception, NEW r \in Reg, NEW v, Fresh(r, v)
  PROVE  ToMem(TRUE, r, v) = RegAfter(r)
<1>1. InMem(r) <=> Writes(r)
  BY Retiring DEF InMem, Writes
<1>2. InWb(r) => wb.val = regs[r]
  BY DEF InWb, Operands
<1>3. CASE Writes(r)
  BY <1>1, <1>3 DEF ToMem, RegAfter
<1>4. CASE ~Writes(r)
  BY <1>1, <1>2, <1>4 DEF ToMem, RegAfter, Fresh, InWb
<1> QED BY <1>3, <1>4

\* What ID takes: the result of EX, if it is final, and that of MEM.
LEMMA ForwardedToEx ==
  ASSUME TypeOK, Next, Moves, NEW r \in Reg, ~(InEx(r) /\ ~ExFinal), ~mem'.trap
  PROVE  Forwarded(r) = RegAfter(r)'
<1>1. Writes(r)' <=> InEx(r)
  <2>1. Writes(r)' <=> mem'.valid /\ ~mem'.trap /\ UsesRd(mem'.insn) /\ r # 0 /\ r = mem'.insn.rd
    BY DEF Writes, InMemory, UsesRd
  <2>2. Writes(r)' <=> ex.valid /\ UsesRd(ex.insn) /\ r # 0 /\ r = ex.insn.rd
    BY <2>1, MovesToMem
  <2> QED BY <2>2, MovesWires DEF InEx
<1>2. CASE InEx(r)
  <2>1. ex.insn.op \in {"op", "div", "jal", "jalr"}
    BY <1>2 DEF ExFinal
  <2>2. rcsr'.re = FALSE /\ mem'.acc # "load" /\ mem'.v = ExOut
    <3>1. rcsr'.re = FALSE
      BY <2>1, MovesCsr
    <3>2. mem'.acc # "load"
      BY <2>1, MovesToMem
    <3>3. mem'.v = ExOut
      BY <2>1, MovesToMem DEF MemRs1, ToMem
    <3> QED BY <3>1, <3>2, <3>3
  <2>3. RdVal' = ExOut
    BY <2>2 DEF RdVal
  <2> QED BY <1>1, <1>2, <2>3 DEF Forwarded, RegAfter
<1>3. CASE ~InEx(r)
  <2>1. regs'[r] = RegAfter(r)
    BY RegsAfter DEF Moves
  <2>2. InMem(r) <=> Writes(r)
    BY Retiring DEF InMem, Writes, Moves
  <2>3. Forwarded(r) = RegAfter(r)
    BY <1>3, <2>2 DEF Forwarded, RegAfter
  <2> QED BY <1>1, <1>3, <2>1, <2>3 DEF RegAfter
<1> QED BY <1>2, <1>3

\* The ALU's operands, and the values MEM takes from EX, are the registers as
\* the instruction before left them.
LEMMA ExOperands ==
  ASSUME TypeOK, Operands, Next, Moves, ex.valid
  PROVE  /\ ExRs1(ex.insn) => ex.v1 = regs'[ex.insn.rs1]
         /\ ExRs2(ex.insn) => ex.v2 = regs'[ex.insn.rs2]
         /\ MemRs1(ex.insn) => ToMem(TRUE, ex.insn.rs1, ex.v1) = regs'[ex.insn.rs1]
         /\ MemRs2(ex.insn) => StoreVal = regs'[ex.insn.rs2]
<1>1. ex.insn.rs1 \in Reg /\ ex.insn.rs2 \in Reg
  BY InstrFields DEF TypeOK
<1>2. ~Exception /\ ~MemWaits /\ ~mem.trap
  BY MovesWires DEF Moves
<1>3. \A r \in Reg : regs'[r] = RegAfter(r)
  BY <1>2, RegsAfter
<1>4. MemRs1(ex.insn) => ToMem(TRUE, ex.insn.rs1, ex.v1) = RegAfter(ex.insn.rs1)
  BY <1>1, <1>2, PassedToMem DEF Operands
<1>5. MemRs2(ex.insn) => StoreVal = RegAfter(ex.insn.rs2)
  BY <1>1, <1>2, PassedToMem DEF Operands, StoreVal
<1> QED BY <1>1, <1>2, <1>3, <1>4, <1>5 DEF Operands

----------------------------------------------------------------------------
(* Addresses: where the stages go on.                                      *)

\* A conforming program never locks a PMP entry.
LEMMA NoLock ==
  ASSUME Conforming, TypeOK, Instructions PROVE ~PmpLocking
  BY DEF Conforming, TypeOK, Instructions, PmpLocking, CsrWrites, ExValid

\* A misprediction is acted upon at once: nothing stalls ID then.
LEMMA Correction ==
  ASSUME Conforming, IInv, Moves, Mispredicted
  PROVE  ~StallId /\ FetchAddrs = {alt} /\ ~IdValid /\ ~IdTrap
<1>1. ex.valid /\ ex.insn.op = "br" /\ ex.insn \in Code[ex.pc] /\ ex.pc \in PC
  BY DEF Mispredicted, IInv, Instructions, TypeOK
<1>2. ~Fencing
  <2>1. id.valid => id.pc = Predicted(ex.pc, ex.insn) /\ id.insn \in Code[id.pc]
    BY <1>1 DEF IInv, FollowsEx, DecodePC, Instructions
  <2> QED BY <1>1, <2>1 DEF Conforming, Fencing
<1>3. ~IdValid /\ ~IdTrap
  BY DEF IdValid, IdTrap, ClearId
<1>4. ~StallId
  BY <1>1, <1>2, <1>3, MovesWires DEF XretHazard, LoadHazard, FenceHazard, WritesCsr
<1> QED BY <1>3, <1>4, MovesWires DEF FetchAddrs, Moves

\* ID goes on at the address that was fetched, or stays.
LEMMA DecodeNext ==
  ASSUME Conforming, IInv, Next, Moves
  PROVE  /\ StallId => DecodePC' = DecodePC
         /\ ~StallId => DecodePC' \in FetchAddrs
         /\ IF id'.valid THEN id'.insn \in Code[id'.pc] /\ pc' = NextPC(id'.pc)
                         ELSE id'.insn \in Bubbles
<1>1. ~PmpLocking /\ SkipHits = {} /\ TypeOK
  BY NoLock DEF IInv, Conforming
<1>2. CASE StallId
  <2>1. pc' = pc /\ id' = id
    BY <1>1, <1>2, MovesFetch
  <2> QED BY <1>2, <2>1 DEF DecodePC, IInv, Instructions
<1>3. CASE ~StallId
  <2>1. PICK addr \in FetchAddrs :
              \/ pc' = addr /\ id' \in IdEmpty
              \/ /\ pc' = NextPC(addr) /\ id'.valid /\ id'.pc = addr
                 /\ id'.insn \in Code[addr]
    BY <1>1, <1>3, MovesFetch
  <2> QED BY <1>3, <2>1 DEF DecodePC, IdEmpty
<1> QED BY <1>2, <1>3

\* What EX goes on with when its instruction has left.
LEMMA ExecuteNext ==
  ASSUME Conforming, IInv, Next, Moves
  PROVE  ExecutePC' = IF Mispredicted THEN alt ELSE DecodePC
<1>1. TypeOK
  BY DEF IInv
<1>2. CASE Mispredicted
  <2>1. ~ex'.valid /\ ~ex'.trap
    BY <1>1, <1>2, Correction, MovesToEx
  <2>2. DecodePC' = alt
    BY <1>2, Correction, DecodeNext
  <2> QED BY <1>2, <2>1, <2>2 DEF ExecutePC
<1>3. CASE ~Mispredicted /\ StallId
  <2>1. ~ex'.valid /\ ~ex'.trap
    BY <1>1, <1>3, MovesToEx
  <2>2. DecodePC' = DecodePC
    BY <1>3, DecodeNext
  <2> QED BY <1>3, <2>1, <2>2 DEF ExecutePC
<1>4. CASE ~Mispredicted /\ ~StallId /\ id.valid
  <2>1. ex'.valid \/ ex'.trap
    BY <1>1, <1>4, MovesToEx, MovesWires
  <2>2. ex'.pc = id.pc
    BY <1>1, MovesToEx
  <2> QED BY <1>4, <2>1, <2>2 DEF ExecutePC, DecodePC
<1>5. CASE ~Mispredicted /\ ~StallId /\ ~id.valid
  <2>1. ~IdValid /\ ~IdTrap /\ ~Ret
    BY <1>5 DEF IdValid, IdTrap, Ret
  <2>2. ~ex'.valid /\ ~ex'.trap
    BY <1>1, <2>1, MovesToEx
  <2>3. FetchAddrs = {pc}
    BY <1>1, <1>5, <2>1, NoLock, MovesWires DEF FetchAddrs, Redirects, Moves, IInv
  <2>4. DecodePC' = pc
    BY <1>5, <2>3, DecodeNext
  <2> QED BY <1>5, <2>2, <2>4 DEF ExecutePC, DecodePC
<1> QED BY <1>2, <1>3, <1>4, <1>5

\* The next instruction to retire after the one in MEM is that of EX.
LEMMA OldestNext ==
  ASSUME Conforming, IInv, Next, ~Exception, ~MemWaits
  PROVE  OldestPC' = ExecutePC
<1>1. TypeOK
  BY DEF IInv
<1>2. OldestPC' = IF mem'.valid \/ mem'.trap THEN mem'.pc ELSE ExecutePC'
  BY DEF OldestPC, ExecutePC, DecodePC
<1>3. CASE ExWaits
  <2>1. /\ UNCHANGED <<pc, id, ex>> /\ ~mem'.valid /\ ~mem'.trap
    BY <1>1, <1>3, DividesFacts DEF Divides
  <2> QED BY <1>2, <2>1 DEF ExecutePC, DecodePC
<1>4. CASE ~ExWaits
  <2>1. Moves
    BY <1>4 DEF Moves
  <2>2. /\ mem'.valid = ex.valid /\ mem'.trap = (ex.trap \/ Faults) /\ mem'.pc = ex.pc
    BY <1>1, <2>1, MovesToMem
  <2>3. Faults => ex.valid
    BY <2>1, MovesWires DEF Faults
  <2>4. Mispredicted => ex.valid
    BY DEF Mispredicted
  <2>5. ExecutePC' = IF Mispredicted THEN alt ELSE DecodePC
    BY <2>1, ExecuteNext
  <2>6. CASE ex.valid \/ ex.trap
    <3>1. mem'.valid \/ mem'.trap
      BY <2>2, <2>6
    <3> QED BY <1>2, <2>2, <2>6, <3>1 DEF ExecutePC
  <2>7. CASE ~ex.valid /\ ~ex.trap
    <3>1. ~mem'.valid /\ ~mem'.trap /\ ~Mispredicted
      BY <2>2, <2>3, <2>4, <2>7
    <3> QED BY <1>2, <2>5, <2>7, <3>1 DEF ExecutePC
  <2> QED BY <2>6, <2>7
<1> QED BY <1>3, <1>4

----------------------------------------------------------------------------
(* The invariant holds out of reset and after an exception, when every      *)
(* stage is empty.                                                         *)

Emptied ==
  /\ ~id.valid /\ id.insn \in Bubbles /\ ~ex.valid /\ ~ex.trap
  /\ ~mem.valid /\ ~mem.trap /\ mem.acc = "none" /\ wait = 0 /\ ~wb.valid
  /\ csr = acsr /\ dmem = amem /\ (irq => Irqs)

\* With every stage empty, there is nothing to get wrong.
LEMMA EmptiedInv == TypeOK /\ Emptied => IInv
<1> SUFFICES ASSUME TypeOK, Emptied PROVE IInv
  OBVIOUS
<1>1. ~InMemory /\ ~Returning
  BY DEF Emptied, InMemory, Returning
<1>2. Instructions
  BY DEF Emptied, Instructions
<1>3. Kinds /\ Waiting
  BY <1>1 DEF Emptied, Kinds, Waiting
<1>4. Dividing
  BY DEF Emptied, Dividing
<1>5. FollowsEx /\ FollowsMem
  BY <1>1 DEF Emptied, FollowsEx, FollowsMem
<1>6. Operands
  BY DEF Emptied, Operands
<1>7. Results
  BY <1>1 DEF Emptied, Results
<1>8. CsrsAhead /\ EnabledBefore
  BY <1>1 DEF Emptied, CsrsAhead, EnabledBefore, CsrAfter
<1> QED BY <1>2, <1>3, <1>4, <1>5, <1>6, <1>7, <1>8 DEF IInv

\* The invariant holds out of reset.
LEMMA InitInv == Init => IInv
<1>1. Init => Emptied
  <2> SUFFICES ASSUME Init PROVE Emptied
    OBVIOUS
  <2>1. ~id.valid /\ id.insn \in Bubbles
    BY DEF Init, IdEmpty
  <2>2. ~ex.valid /\ ~ex.trap
    BY DEF Init, ExEmpty
  <2> QED BY <2>1, <2>2 DEF Init, Emptied, MemEmpty, WbEmpty
<1> QED BY <1>1, InitType, EmptiedInv

\* Interrupts are pending only where there are any.
LEMMA IrqNext == Next => (irq' => Irqs)
  BY DEF Next, ClockHit, ClockMiss, Clock, IrqLatch

\* The invariant holds after a trap or an interrupt.
LEMMA ExceptionInv ==
  ASSUME Conforming, TypeOK, TypeOK', Next, Exception PROVE IInv'
<1>1. Emptied'
  BY ExceptionFacts, IrqNext DEF Conforming, Emptied, IdEmpty
<1>2. (TypeOK /\ Emptied => IInv)'
  BY EmptiedInv, PTL
<1> QED BY <1>1, <1>2

----------------------------------------------------------------------------
(* The invariant is kept while an access or the divider waits.             *)

\* What looks at EX in every cycle (rcsr, fw_branch_alt, p_mie) moves on
\* while MEM waits, without harm.
LEMMA HeldInv ==
  ASSUME Conforming, IInv, TypeOK', Next, Held PROVE IInv'
<1>1. TypeOK
  BY DEF IInv
<1>2. /\ UNCHANGED <<pc, id, ex, mem, wb, regs, dmem, csr, amem, acsr>>
      /\ wait' = wait - 1
      /\ rcsr'.re = (ex.insn.op = "csr")
      /\ div' > 0 => div > 0
      /\ pmie' = <<csr.mie, pmie[1]>>
      /\ id.insn.op # "br" => alt' = alt
  BY <1>1, HeldFacts
<1>3. /\ mem.acc # "none" /\ wait > 0 /\ InMemory /\ mem.insn.op \in {"load", "store"}
      /\ mem.acc = mem.insn.op
  BY DEF Held, MemWaits, IInv, Kinds
<1>4. /\ InMemory' <=> InMemory
      /\ Returning' <=> Returning
      /\ DecodePC' = DecodePC /\ ExecutePC' = ExecutePC /\ CsrAfter' = CsrAfter
  BY <1>2 DEF InMemory, Returning, DecodePC, ExecutePC, CsrAfter
<1>5. mem.insn.op = "load" => rcsr.re = FALSE /\ rcsr'.re = FALSE
  <2>1. mem.insn.op = "load" => ex.insn.op # "csr"
    BY <1>3 DEF IInv, Waiting
  <2>2. mem.insn.op = "load" => UsesRd(mem.insn)
    BY DEF UsesRd
  <2>3. rcsr.re \in BOOLEAN
    BY <1>1 DEF TypeOK
  <2> QED BY <1>2, <1>3, <2>1, <2>2, <2>3 DEF IInv, Results
<1>6. \A r : (Writes(r)' <=> Writes(r)) /\ RegAfter(r)' = RegAfter(r)
  <2> TAKE r
  <2>1. Writes(r)' <=> Writes(r)
    BY <1>2, <1>4 DEF Writes, UsesRd
  <2>2. Writes(r) => mem.insn.op = "load"
    BY <1>3 DEF Writes, UsesRd
  <2>3. mem.insn.op = "load" => RdVal' = RdVal
    BY <1>2, <1>5 DEF RdVal
  <2> QED BY <1>2, <2>1, <2>2, <2>3 DEF RegAfter
<1>7. Instructions'
  BY <1>2 DEF IInv, Instructions
<1>8. Kinds'
  <2>1. wait' > 0 => mem'.acc # "none"
    BY <1>2, <1>3
  <2> QED BY <1>2, <1>4, <2>1 DEF IInv, Kinds, Traps
<1>9. Dividing'
  BY <1>2 DEF IInv, Dividing
<1>10. Waiting'
  BY <1>2, <1>3 DEF IInv, Waiting
<1>11. FollowsEx'
  <2>1. ex.valid /\ ex.insn.op = "br" => alt' = alt
    BY <1>2, <1>3 DEF IInv, Waiting
  <2> QED BY <1>2, <1>4, <1>6, <2>1 DEF IInv, FollowsEx, Sequential
<1>12. FollowsMem'
  BY <1>2, <1>4 DEF IInv, FollowsMem, Sequential
<1>13. Operands'
  <2>1. \A r, v : Fresh(r, v)' <=> Fresh(r, v)
    BY <1>2, <1>6 DEF Fresh
  <2> QED BY <1>2, <1>6, <2>1 DEF IInv, Operands, ExRs1, ExRs2, MemRs1, MemRs2
<1>14. Results'
  <2>1. UsesRd(mem.insn) => mem.insn.op = "load"
    BY <1>3 DEF UsesRd
  <2> QED BY <1>2, <1>3, <1>4, <1>5, <2>1 DEF IInv, Results, UsesRd
<1>15. CsrsAhead'
  BY <1>2, <1>4 DEF IInv, CsrsAhead, Revocable
<1>16. EnabledBefore'
  <2>1. Waits # {0}
    BY <1>1, <1>3 DEF TypeOK
  <2>2. Irqs => ~Returning
    BY <1>3, <2>1 DEF IInv, CsrsAhead, Revocable, InMemory
  <2> QED BY <1>2, <1>3, <1>4, <2>2, IrqNext DEF EnabledBefore
<1> QED BY <1>7, <1>8, <1>9, <1>10, <1>11, <1>12, <1>13, <1>14, <1>15, <1>16 DEF IInv

\* While the divider works, MEM drains behind the division.
LEMMA DividesInv ==
  ASSUME Conforming, IInv, TypeOK', Next, Divides PROVE IInv'
<1>1. TypeOK /\ ~Exception /\ ~MemWaits /\ ~mem.trap /\ (InMemory <=> mem.valid)
  BY Retiring DEF IInv, Divides
<1>2. /\ UNCHANGED <<pc, id, ex, dmem, csr>>
      /\ ~mem'.valid /\ ~mem'.trap /\ mem'.acc = "none" /\ wait' = 0
  BY <1>1, DividesFacts
<1>3. /\ wb'.valid = (mem.valid /\ UsesRd(mem.insn))
      /\ wb'.rd = mem.insn.rd /\ wb'.val = RdVal
      /\ amem' = IF mem.valid THEN dmem ELSE amem
      /\ acsr' = CsrAfter
      /\ \A r \in Reg : regs'[r] = RegAfter(r)
  BY <1>1, RetireFacts, RegsAfter
<1>4. div > 0
  BY DEF Divides, ExWaits
<1>5. ex.valid => ex.insn.op = "div"
  BY <1>4 DEF IInv, Dividing
<1>6. ~ex.trap
  BY <1>4 DEF IInv, Dividing, Kinds
<1>7. /\ ~InMemory' /\ ~Returning /\ ~Returning' /\ DecodePC' = DecodePC
      /\ CsrAfter' = CsrAfter
      /\ \A r \in Reg : RegAfter(r)' = RegAfter(r)
  BY <1>2, <1>3, <1>5 DEF InMemory, Returning, DecodePC, CsrAfter, RegAfter, Writes
<1>8. Instructions'
  BY <1>2 DEF IInv, Instructions
<1>9. Kinds'
  BY <1>2, <1>7 DEF IInv, Kinds, Traps
<1>10. Dividing'
  <2>1. CASE ex.valid /\ ex.insn.op = "div"
    BY <1>2, <2>1 DEF Dividing
  <2>2. CASE ~(ex.valid \/ ex.trap \/ id.valid \/ mem.valid \/ mem.trap \/ wb.valid)
    BY <1>2, <1>3, <2>2 DEF Dividing
  <2> QED BY <1>4, <2>1, <2>2 DEF IInv, Dividing
<1>11. Waiting'
  BY <1>2 DEF Waiting
<1>12. FollowsEx'
  BY <1>2, <1>5, <1>6, <1>7 DEF IInv, FollowsEx, Sequential
<1>13. FollowsMem'
  BY <1>7 DEF FollowsMem
<1>14. Operands'
  <2>1. wb'.valid /\ wb'.rd # 0 => regs'[wb'.rd] = wb'.val
    <3>1. mem.insn.rd \in Reg
      BY <1>1, InstrFields DEF TypeOK
    <3> QED BY <1>1, <1>3, <3>1 DEF RegAfter, Writes
  <2>2. ex.insn.rs1 \in Reg /\ ex.insn.rs2 \in Reg
    BY <1>1, InstrFields DEF TypeOK
  <2> QED BY <1>1, <1>2, <1>5, <1>7, <2>1, <2>2
      DEF IInv, Operands, ExRs1, ExRs2, MemRs1, MemRs2
<1>15. Results'
  BY <1>1, <1>2, <1>3, <1>7 DEF IInv, Results
<1>16. CsrsAhead'
  BY <1>2, <1>3, <1>7 DEF IInv, CsrsAhead, CsrAfter
<1>17. EnabledBefore'
  BY <1>2, <1>7, IrqNext DEF EnabledBefore
<1> QED BY <1>8, <1>9, <1>10, <1>11, <1>12, <1>13, <1>14, <1>15, <1>16, <1>17 DEF IInv

----------------------------------------------------------------------------
(* The invariant is kept when the stages move on, one conjunct at a time.   *)

\* Where ID's instruction enters EX, it follows the one that leaves EX.
LEMMA DecodedNext ==
  ASSUME Conforming, IInv, id.valid, ~Mispredicted, ex.valid \/ ex.trap,
         ex.trap \/ Sequential(ex.insn)
  PROVE  /\ id.pc = NextPC(ex.pc) /\ id.insn \in Code[NextPC(ex.pc)]
         /\ ex.pc \in PC /\ ex.insn \in Code[ex.pc]
  BY DEF IInv, FollowsEx, DecodePC, Instructions, TypeOK

\* Every stage still holds an instruction of the program.
LEMMA MovesInstructions ==
  ASSUME Conforming, IInv, Next, Moves PROVE Instructions'
<1>1. TypeOK
  BY DEF IInv
<1>2. ex'.valid \/ ex'.trap => id.valid
  BY <1>1, MovesToEx DEF IdValid, IdTrap
<1>3. ex'.valid \/ ex'.trap => ex'.insn \in Code[ex'.pc]
  BY <1>1, <1>2, MovesToEx DEF IInv, Instructions
<1>4. mem'.valid \/ mem'.trap => ex.valid \/ ex.trap
  BY <1>1, MovesToMem, MovesWires DEF Faults
<1>5. mem'.valid \/ mem'.trap => mem'.insn \in Code[mem'.pc]
  BY <1>1, <1>4, MovesToMem DEF IInv, Instructions
<1> QED BY <1>3, <1>5, DecodeNext DEF Instructions

\* valid, trap, cause and access still fit the instruction.
LEMMA MovesKinds ==
  ASSUME Conforming, IInv, Next, Moves PROVE Kinds'
<1>1. TypeOK
  BY DEF IInv
<1>2. ex'.valid => ~Traps(ex'.insn) /\ ~ex'.trap
  BY <1>1, MovesToEx, MovesWires
<1>3. ex'.trap => Traps(ex'.insn)
  BY <1>1, MovesToEx, MovesWires
<1>4. mem'.valid => ~Traps(mem'.insn)
  BY <1>1, MovesToMem DEF IInv, Kinds
<1>5. Faults /\ ~Refused(ex.insn) =>
         /\ ex.valid /\ ~ex.trap /\ ex.insn.op \in {"load", "store"}
         /\ regs'[ex.insn.rs1] \in BadAddrs
  <2> SUFFICES ASSUME Faults, ~Refused(ex.insn)
               PROVE  /\ ex.valid /\ ~ex.trap /\ ex.insn.op \in {"load", "store"}
                      /\ regs'[ex.insn.rs1] \in BadAddrs
    OBVIOUS
  <2>1. ex.valid /\ ex.insn.op \in {"load", "store"} /\ ExOut \in BadAddrs
    BY MovesWires
  <2>2. ExOut = ex.v1
    BY <2>1 DEF ExOut
  <2>3. ex.v1 = regs'[ex.insn.rs1]
    BY <1>1, <2>1, ExOperands DEF IInv, ExRs1
  <2> QED BY <2>1, <2>2, <2>3 DEF IInv, Kinds
<1>6. mem'.trap =>
       \/ /\ mem'.valid /\ mem'.cause = "access" /\ mem'.insn.op \in {"load", "store"}
          /\ regs'[mem'.insn.rs1] \in BadAddrs
       \/ mem'.valid /\ mem'.cause = "illegal" /\ Refused(mem'.insn)
       \/ ~mem'.valid /\ mem'.cause = mem'.insn.op /\ Traps(mem'.insn)
  <2>1. CASE Faults /\ ~Refused(ex.insn)
    BY <1>1, <1>5, <2>1, MovesToMem DEF FaultCause
  <2>3. CASE Faults /\ Refused(ex.insn)
    <3>1. ex.valid /\ ex.insn.op = "csr"
      BY <2>3, MovesWires DEF Refused
    <3>2. ~ex.trap
      BY <3>1 DEF IInv, Kinds
    <3> QED BY <1>1, <2>3, <3>1, <3>2, MovesToMem DEF FaultCause
  <2>2. CASE ~Faults
    BY <1>1, <2>2, MovesToMem DEF IInv, Kinds
  <2> QED BY <2>1, <2>2, <2>3
<1>7. mem'.acc = IF InMemory' /\ mem'.insn.op \in {"load", "store"}
                 THEN mem'.insn.op ELSE "none"
  <2>1. InMemory' <=> ex.valid /\ ~Faults
    BY <1>1, MovesToMem DEF InMemory, IInv, Kinds
  <2> QED BY <1>1, <2>1, MovesToMem, MovesWires
<1>8. wait' > 0 => mem'.acc # "none"
  <2>1. Accesses /\ ~Faults => mem'.acc # "none"
    BY <1>1, MovesToMem DEF Accesses
  <2>2. ~(Accesses /\ ~Faults) => wait' = 0
    BY <1>1, MovesToMem
  <2> QED BY <2>1, <2>2
<1> QED BY <1>2, <1>3, <1>4, <1>6, <1>7, <1>8 DEF Kinds, Traps

\* Only a division makes EX wait.
LEMMA MovesDividing ==
  ASSUME Conforming, IInv, Next, Moves PROVE Dividing'
  BY MovesToEx DEF IInv, Dividing

\* ID goes on where the instruction that enters EX leads.
LEMMA MovesFollowsEx ==
  ASSUME Conforming, IInv, Next, Moves PROVE FollowsEx'
<1>1. TypeOK
  BY DEF IInv
<1>2. id.insn.rs1 \in Reg
  BY <1>1, InstrFields DEF TypeOK
<1>3. ASSUME ex'.valid \/ ex'.trap
      PROVE  /\ id.valid /\ ~StallId /\ ~Mispredicted /\ pc = NextPC(id.pc)
             /\ FetchAddrs = Redirects /\ DecodePC' \in Redirects
  <2>1. id.valid /\ ~StallId /\ ~Mispredicted
    BY <1>1, <1>3, MovesToEx, MovesWires
  <2>2. FetchAddrs = Redirects
    BY <2>1, MovesWires DEF FetchAddrs, Moves
  <2> QED BY <2>1, <2>2, DecodeNext DEF IInv, Instructions
<1>4. ex'.pc = id.pc /\ ex'.insn = id.insn /\ ~PmpLocking
  BY <1>1, MovesToEx, NoLock DEF IInv
<1>5. ASSUME ex'.trap PROVE DecodePC' = NextPC(ex'.pc)
  <2>1. ~IdValid /\ ~Ret
    BY <1>1, <1>5, MovesToEx DEF IdTrap, IdValid, Ret
  <2> QED BY <1>3, <1>4, <1>5, <2>1 DEF Redirects
<1>6. ASSUME ex'.valid
      PROVE  /\ Sequential(ex'.insn) => DecodePC' = NextPC(ex'.pc)
             /\ ex'.insn.op = "jal" => DecodePC' = ex'.insn.imm
             /\ ex'.insn.op = "jalr" /\ ~mem'.trap =>
                  DecodePC' = JalrTarget(RegAfter(ex.insn.rs1)')
             /\ ex'.insn.op = "mret" => DecodePC' = ex'.post.mepc
             /\ ex'.insn.op = "br" =>
                  /\ ex'.pred = (ex'.insn.imm <= ex'.pc)
                  /\ DecodePC' = Predicted(ex'.pc, ex'.insn)
                  /\ alt' = IF ex'.pred THEN NextPC(ex'.pc) ELSE ex'.insn.imm
  <2>1. IdValid /\ ~StallId
    BY <1>1, <1>6, MovesToEx
  <2>2. Sequential(ex'.insn) => DecodePC' = NextPC(ex'.pc)
    BY <1>3, <1>4, <1>6, <2>1 DEF Redirects, Sequential, Ret
  <2>3. ex'.insn.op = "jal" => DecodePC' = ex'.insn.imm
    BY <1>3, <1>4, <1>6, <2>1 DEF Redirects, Ret, Target
  <2>4. ex'.insn.op = "jalr" /\ ~mem'.trap => DecodePC' = JalrTarget(RegAfter(ex.insn.rs1)')
    <3> SUFFICES ASSUME ex'.insn.op = "jalr", ~mem'.trap, NEW r \in Reg, r = id.insn.rs1
                 PROVE  DecodePC' = JalrTarget(RegAfter(r)')
      BY <1>2, <1>4 DEF RegAfter, Writes
    <3>1. DecodePC' = JalrTarget(Forwarded(r))
      BY <1>3, <1>4, <1>6, <2>1 DEF Redirects, Ret, Target, ToEx
    <3>2. ~(InEx(r) /\ ~ExFinal)
      BY <1>4, <2>1, MovesWires DEF LoadHazard, TargetRs1
    <3> QED BY <1>1, <1>2, <3>1, <3>2, ForwardedToEx
  <2>5. ex'.insn.op = "mret" => DecodePC' = ex'.post.mepc
    <3> SUFFICES ASSUME ex'.insn.op = "mret" PROVE DecodePC' = ex'.post.mepc
      OBVIOUS
    <3>1. Ret
      BY <1>4, <2>1 DEF Ret
    <3>2. ex'.post = CsrRet(csr) /\ DecodePC' = csr.mepc
      BY <1>1, <1>3, <1>4, <1>6, <3>1, MovesToEx DEF Redirects, Ret
    <3>3. CsrRet(csr).mepc = csr.mepc
      BY <1>1 DEF CsrRet, TypeOK, Csrs
    <3> QED BY <3>2, <3>3
  <2>6. ex'.insn.op = "br" =>
          /\ ex'.pred = (ex'.insn.imm <= ex'.pc)
          /\ DecodePC' = Predicted(ex'.pc, ex'.insn)
          /\ alt' = IF ex'.pred THEN NextPC(ex'.pc) ELSE ex'.insn.imm
    <3> SUFFICES ASSUME ex'.insn.op = "br"
                 PROVE  /\ ex'.pred = (id.insn.imm <= id.pc)
                        /\ DecodePC' = Predicted(id.pc, id.insn)
                        /\ alt' = IF ex'.pred THEN NextPC(id.pc) ELSE id.insn.imm
      BY <1>4
    <3>1. id.insn.op = "br" /\ Target = id.insn.imm
      BY <1>4 DEF Target
    <3>2. ex'.pred = PredictTaken /\ alt' = IF PredictTaken THEN pc ELSE Target
      BY <1>1, <2>1, <3>1, MovesToEx
    <3>3. DecodePC' = IF PredictTaken THEN Target ELSE pc
      BY <1>3, <1>6, <2>1, <3>1 DEF Redirects, Ret
    <3>4. ex'.pred = (id.insn.imm <= id.pc)
      BY <3>2 DEF PredictTaken
    <3>5. CASE id.insn.imm <= id.pc
      BY <1>3, <1>6, <3>1, <3>2, <3>3, <3>4, <3>5 DEF Predicted, PredictTaken
    <3>6. CASE ~(id.insn.imm <= id.pc)
      BY <1>3, <1>6, <3>1, <3>2, <3>3, <3>4, <3>6 DEF Predicted, PredictTaken
    <3> QED BY <3>5, <3>6
  <2> QED BY <2>2, <2>3, <2>4, <2>5, <2>6
<1> QED BY <1>5, <1>6 DEF FollowsEx, Sequential

\* What enters EX behind an access that waits is no branch with another behind
\* it and, behind a load, no csr instruction.
LEMMA MovesWaiting ==
  ASSUME Conforming, IInv, Next, Moves PROVE Waiting'
<1> SUFFICES ASSUME wait' > 0
             PROVE  /\ ex'.valid /\ ex'.insn.op = "br" => id'.insn.op # "br"
                    /\ mem'.acc = "load" => ex'.insn.op # "csr"
  BY DEF Waiting
<1>1. TypeOK
  BY DEF IInv
<1>2. wait' \in Waits /\ Accesses /\ ~Faults
  BY <1>1, MovesToMem
<1>3. Waits # {0}
  BY <1>2
<1>4. ex.valid /\ ex.insn.op \in {"load", "store"} /\ Sequential(ex.insn) /\ ~Mispredicted
  BY <1>2, MovesWires DEF Sequential, Mispredicted
<1>5. ex'.insn = id.insn /\ mem'.acc = ex.insn.op
  BY <1>1, <1>2, MovesToEx, MovesToMem
<1>6. id.valid => /\ id.insn.op = "br" => \/ Spaced(ex.insn, id.insn)
                                           \/ Alone(id.pc, id.insn)
                  /\ ex.insn.op = "load" => id.insn.op # "csr"
  <2> SUFFICES ASSUME id.valid
               PROVE  /\ id.insn.op = "br" => \/ Spaced(ex.insn, id.insn)
                                              \/ Alone(id.pc, id.insn)
                      /\ ex.insn.op = "load" => id.insn.op # "csr"
    OBVIOUS
  <2>1. /\ id.pc = NextPC(ex.pc) /\ id.insn \in Code[NextPC(ex.pc)]
        /\ ex.pc \in PC /\ ex.insn \in Code[ex.pc]
    BY <1>4, DecodedNext
  <2> QED BY <1>3, <1>4, <2>1 DEF Conforming
<1>7. ~id.valid /\ ex.insn.op = "load" => id.insn.op # "csr"
  <2>1. ex.pc \in PC /\ ex.insn \in Code[ex.pc]
    BY <1>1, <1>4 DEF IInv, Instructions, TypeOK
  <2>2. ~id.valid => id.insn \in Bubbles
    BY DEF IInv, Instructions
  <2> QED BY <1>3, <2>1, <2>2 DEF Conforming
<1>8. ASSUME ex'.valid, ex'.insn.op = "br" PROVE id'.insn.op # "br"
  <2>1. IdValid /\ ~StallId /\ id.valid
    BY <1>1, <1>8, MovesToEx DEF IdValid
  <2>2. Alone(id.pc, id.insn)
    <3> SUFFICES ASSUME Spaced(ex.insn, id.insn) PROVE FALSE
      BY <1>5, <1>6, <1>8, <2>1
    <3>1. ~ExFinal
      BY <1>4 DEF ExFinal
    <3>2. InEx(id.insn.rs1) \/ InEx(id.insn.rs2)
      BY <1>4, MovesWires DEF Spaced, InEx, UsesRd
    <3>3. LoadHazard
      BY <1>5, <1>8, <2>1, <3>1, <3>2 DEF LoadHazard, ExRs1, ExRs2
    <3> QED BY <2>1, <3>3, MovesWires
  <2>3. DecodePC' = Predicted(id.pc, id.insn)
    <3>1. ex'.pc = id.pc
      BY <1>1, MovesToEx
    <3> QED BY <1>5, <1>8, <3>1, MovesFollowsEx DEF FollowsEx
  <2>4. id'.insn \in Bubbles \cup Code[DecodePC']
    BY DecodeNext DEF DecodePC
  <2> QED BY <2>2, <2>3, <2>4 DEF Alone
<1> QED BY <1>5, <1>6, <1>7, <1>8

\* EX goes on where the instruction that enters MEM leads: a misprediction
\* is corrected in the same cycle.
LEMMA MovesFollowsMem ==
  ASSUME Conforming, IInv, Next, Moves PROVE FollowsMem'
<1>1. TypeOK /\ ~mem.trap
  BY MovesWires DEF IInv
<1>2. SUFFICES ASSUME InMemory'
      PROVE  /\ Sequential(ex.insn) => ExecutePC' = NextPC(ex.pc)
             /\ ex.insn.op = "jal" => ExecutePC' = ex.insn.imm
             /\ ex.insn.op = "jalr" => ExecutePC' = JalrTarget(regs'[ex.insn.rs1])
             /\ ex.insn.op = "mret" => ExecutePC' = acsr'.mepc
             /\ ex.insn.op = "br" =>
                  ExecutePC' = IF regs'[ex.insn.rs1] = regs'[ex.insn.rs2]
                               THEN ex.insn.imm ELSE NextPC(ex.pc)
  BY <1>1, MovesToMem DEF FollowsMem, Sequential
<1>3. ex.valid
  BY <1>1, <1>2, MovesToMem DEF InMemory
<1>4. ExecutePC' = IF Mispredicted THEN alt ELSE DecodePC
  BY ExecuteNext
<1>5. ex.insn.op # "br" => ExecutePC' = DecodePC
  BY <1>4 DEF Mispredicted
<1>6. Sequential(ex.insn) => ExecutePC' = NextPC(ex.pc)
  BY <1>3, <1>5 DEF IInv, FollowsEx, Sequential
<1>7. ex.insn.op = "jal" => ExecutePC' = ex.insn.imm
  BY <1>3, <1>5 DEF IInv, FollowsEx
<1>8. ex.insn.op = "jalr" => ExecutePC' = JalrTarget(regs'[ex.insn.rs1])
  <2>1. ex.insn.rs1 \in Reg
    BY <1>1, InstrFields DEF TypeOK
  <2>2. regs'[ex.insn.rs1] = RegAfter(ex.insn.rs1)
    BY <1>1, <2>1, RegsAfter DEF Moves
  <2> QED BY <1>1, <1>3, <1>5, <2>2 DEF IInv, FollowsEx
<1>9. ex.insn.op = "mret" => ExecutePC' = acsr'.mepc
  <2> SUFFICES ASSUME ex.insn.op = "mret" PROVE ExecutePC' = acsr'.mepc
    OBVIOUS
  <2>1. ExecutePC' = ex.post.mepc
    BY <1>3, <1>5 DEF IInv, FollowsEx
  <2>2. ex.post = CsrRet(CsrAfter)
    BY <1>3 DEF IInv, CsrsAhead, Returning
  <2>3. CsrRet(CsrAfter).mepc = CsrAfter.mepc
    <3>1. CsrAfter \in Csrs
      BY <1>1 DEF TypeOK, CsrAfter
    <3> QED BY <3>1 DEF CsrRet, Csrs
  <2>4. acsr' = CsrAfter
    BY <1>1, RetireFacts DEF Moves
  <2> QED BY <2>1, <2>2, <2>3, <2>4
<1>10. ex.insn.op = "br" =>
         ExecutePC' = IF regs'[ex.insn.rs1] = regs'[ex.insn.rs2]
                      THEN ex.insn.imm ELSE NextPC(ex.pc)
  <2> SUFFICES ASSUME ex.insn.op = "br"
               PROVE  ExecutePC' = IF regs'[ex.insn.rs1] = regs'[ex.insn.rs2]
                                   THEN ex.insn.imm ELSE NextPC(ex.pc)
    OBVIOUS
  <2>1. ex.v1 = regs'[ex.insn.rs1] /\ ex.v2 = regs'[ex.insn.rs2]
    BY <1>1, <1>3, ExOperands DEF IInv, ExRs1, ExRs2
  <2>2. /\ ex.pred = (ex.insn.imm <= ex.pc)
        /\ DecodePC = IF ex.pred THEN ex.insn.imm ELSE NextPC(ex.pc)
        /\ alt = IF ex.pred THEN NextPC(ex.pc) ELSE ex.insn.imm
    BY <1>3 DEF IInv, FollowsEx, Predicted
  <2>3. Mispredicted <=> (ex.v1 = ex.v2) # ex.pred
    BY <1>3 DEF Mispredicted
  <2>4. ex.pred \in BOOLEAN
    BY <1>1 DEF TypeOK
  <2>5. CASE ex.v1 = ex.v2
    BY <1>4, <2>1, <2>2, <2>3, <2>4, <2>5
  <2>6. CASE ex.v1 # ex.v2
    BY <1>4, <2>1, <2>2, <2>3, <2>4, <2>6
  <2> QED BY <2>5, <2>6
<1> QED BY <1>6, <1>7, <1>8, <1>9, <1>10

\* Forwarding and stalls give EX the operands it needs.
LEMMA MovesOperands ==
  ASSUME Conforming, IInv, Next, Moves PROVE Operands'
<1>1. TypeOK /\ ~Exception /\ ~MemWaits /\ ~mem.trap
  BY MovesWires DEF IInv, Moves
<1>2. wb'.valid /\ wb'.rd # 0 => regs'[wb'.rd] = wb'.val
  <2>1. mem.insn.rd \in Reg /\ regs \in [Reg -> Value]
    BY <1>1, InstrFields DEF TypeOK
  <2> QED BY <1>1, <2>1, RetireFacts
<1>3. ASSUME ex'.valid, ~mem'.trap
      PROVE  /\ ExRs1(ex'.insn) => ex'.v1 = RegAfter(ex.insn.rs1)'
             /\ ExRs2(ex'.insn) => ex'.v2 = RegAfter(ex.insn.rs2)'
             /\ MemRs1(ex'.insn) => Fresh(ex.insn.rs1, ex.v1)'
             /\ MemRs2(ex'.insn) => Fresh(ex.insn.rs2, ex.v2)'
  <2>1. IdValid /\ ~StallId /\ ~LoadHazard /\ ex'.insn = id.insn
    BY <1>1, <1>3, MovesToEx, MovesWires
  <2>2. id.insn.rs1 \in Reg /\ id.insn.rs2 \in Reg
    BY <1>1, InstrFields DEF TypeOK
  <2>3. \A r \in Reg : ~(InEx(r) /\ ~ExFinal) => Forwarded(r) = RegAfter(r)'
    BY <1>1, <1>3, ForwardedToEx
  <2>4. \A r \in Reg : Fresh(r, regs[r])'
    <3> SUFFICES ASSUME NEW r \in Reg PROVE Fresh(r, regs[r])'
      OBVIOUS
    <3> QED BY DEF Fresh
  <2>5. \A r \in Reg : regs[r] = regs'[r] \/ (wb'.valid /\ r # 0 /\ r = wb'.rd)
    <3>1. regs \in [Reg -> Value]
      BY <1>1 DEF TypeOK
    <3> QED BY <1>1, <3>1, RetireFacts
  <2>6. ExRs1(ex'.insn) => ex'.v1 = RegAfter(ex.insn.rs1)'
    <3> SUFFICES ASSUME ExRs1(id.insn), NEW r \in Reg, r = id.insn.rs1
                 PROVE  ex'.v1 = RegAfter(r)'
      BY <2>1, <2>2 DEF ExRs1, RegAfter, Writes
    <3>1. ~(InEx(r) /\ ~ExFinal)
      BY <2>1 DEF LoadHazard
    <3>2. ex'.v1 = Forwarded(r)
      BY <1>1, MovesToEx DEF ToEx
    <3> QED BY <2>3, <3>1, <3>2
  <2>7. ExRs2(ex'.insn) => ex'.v2 = RegAfter(ex.insn.rs2)'
    <3> SUFFICES ASSUME ExRs2(id.insn), NEW r \in Reg, r = id.insn.rs2
                 PROVE  ex'.v2 = RegAfter(r)'
      BY <2>1, <2>2 DEF ExRs2, RegAfter, Writes
    <3>1. ~(InEx(r) /\ ~ExFinal)
      BY <2>1 DEF LoadHazard
    <3>2. ex'.v2 = Forwarded(r)
      BY <1>1, MovesToEx DEF ToEx
    <3> QED BY <2>3, <3>1, <3>2
  <2>8. MemRs1(ex'.insn) => Fresh(ex.insn.rs1, ex.v1)'
    <3> SUFFICES ASSUME MemRs1(id.insn) PROVE Fresh(ex.insn.rs1, ex.v1)'
      BY <2>1 DEF MemRs1
    <3>1. ex'.v1 = regs[id.insn.rs1]
      BY <1>1, MovesToEx DEF ToEx, MemRs1, ExRs1
    <3> QED BY <2>1, <2>2, <2>5, <3>1 DEF Fresh
  <2>9. MemRs2(ex'.insn) => Fresh(ex.insn.rs2, ex.v2)'
    <3> SUFFICES ASSUME MemRs2(id.insn) PROVE Fresh(ex.insn.rs2, ex.v2)'
      BY <2>1 DEF MemRs2
    <3>1. ex'.v2 = regs[id.insn.rs2]
      BY <1>1, MovesToEx DEF ToEx, MemRs2, ExRs2
    <3> QED BY <2>1, <2>2, <2>5, <3>1 DEF Fresh
  <2> QED BY <2>6, <2>7, <2>8, <2>9
<1> QED BY <1>2, <1>3 DEF Operands, ExRs1, ExRs2, MemRs1, MemRs2

\* The instruction that enters MEM has its result.
LEMMA MovesResults ==
  ASSUME Conforming, IInv, Next, Moves PROVE Results'
<1>1. TypeOK /\ ~Exception /\ ~MemWaits /\ ~mem.trap
  BY MovesWires DEF IInv, Moves
<1>2. amem' = dmem
  BY <1>1, RetireFacts DEF IInv, Results, InMemory
<1>3. acsr' = CsrAfter
  BY <1>1, RetireFacts
<1>4. InMemory' <=> ex.valid /\ ~Faults
  BY <1>1, MovesToMem DEF InMemory, IInv, Kinds
<1>5. dmem' = IF InMemory' /\ mem'.insn.op = "store"
              THEN [amem' EXCEPT ![regs'[mem'.insn.rs1]] = regs'[mem'.insn.rs2]]
              ELSE amem'
  <2>1. mem'.insn = ex.insn
    BY <1>1, MovesToMem
  <2>2. CASE InMemory' /\ ex.insn.op = "store"
    <3>1. Accesses /\ ~Faults
      BY <1>4, <2>2, MovesWires
    <3>2. ExOut = regs'[ex.insn.rs1] /\ StoreVal = regs'[ex.insn.rs2]
      BY <1>1, <1>4, <2>2, ExOperands DEF IInv, ExOut, ExRs1, MemRs2
    <3> QED BY <1>1, <1>2, <2>1, <2>2, <3>1, <3>2, MovesToMem
  <2>3. CASE ~(InMemory' /\ ex.insn.op = "store")
    BY <1>1, <1>2, <1>4, <2>1, <2>3, MovesToMem, MovesWires
  <2> QED BY <2>1, <2>2, <2>3
<1>6. ASSUME InMemory'
      PROVE  /\ UsesRd(ex.insn) => (rcsr'.re <=> ex.insn.op = "csr")
             /\ ex.insn.op \in {"op", "div"} =>
                  mem'.v = Alu(regs'[ex.insn.rs1], regs'[ex.insn.rs2])
             /\ ex.insn.op \in {"jal", "jalr"} => mem'.v = Link(ex.pc)
             /\ ex.insn.op \in {"load", "store"} => regs'[ex.insn.rs1] \notin BadAddrs
             /\ ex.insn.op = "load" => mem'.ld = amem'[regs'[ex.insn.rs1]]
             /\ ex.insn.op = "csr" =>
                  /\ rcsr'.val = CsrRead(acsr', ex.insn.csr) /\ ~Refused(ex.insn)
                  /\ WritesCsr(ex.insn) =>
                       mem'.post = CsrWrite(acsr', ex.insn.csr, regs'[ex.insn.rs1])
             /\ ex.insn.op = "mret" => mem'.post = CsrRet(acsr')
  <2>1. ex.valid /\ ~Faults
    BY <1>4, <1>6
  <2>2. /\ ExRs1(ex.insn) => ex.v1 = regs'[ex.insn.rs1]
        /\ ExRs2(ex.insn) => ex.v2 = regs'[ex.insn.rs2]
        /\ MemRs1(ex.insn) => ToMem(TRUE, ex.insn.rs1, ex.v1) = regs'[ex.insn.rs1]
    BY <1>1, <2>1, ExOperands DEF IInv
  <2>3. ~MemRs1(ex.insn) => mem'.v = ExOut
    BY <1>1, MovesToMem DEF ToMem
  <2>4. rcsr'.re <=> ex.insn.op = "csr"
    BY <1>1, MovesCsr
  <2>5. ex.insn.op \in {"op", "div"} =>
          mem'.v = Alu(regs'[ex.insn.rs1], regs'[ex.insn.rs2])
    BY <2>2, <2>3 DEF ExOut, ExRs1, ExRs2, MemRs1
  <2>6. ex.insn.op \in {"jal", "jalr"} => mem'.v = Link(ex.pc)
    BY <2>3 DEF ExOut, MemRs1
  <2>7. ex.insn.op \in {"load", "store"} => ExOut = regs'[ex.insn.rs1]
    BY <2>2 DEF ExOut, ExRs1
  <2>8. ex.insn.op \in {"load", "store"} => Accesses
    BY <2>1, MovesWires
  <2>9. ex.insn.op \in {"load", "store"} => regs'[ex.insn.rs1] \notin BadAddrs
    BY <2>1, <2>7, <2>8, MovesWires
  <2>10. ex.insn.op = "load" => mem'.ld = amem'[regs'[ex.insn.rs1]]
    BY <1>1, <1>2, <2>1, <2>7, <2>8, MovesToMem
  <2>13. ex.insn.op = "csr" =>
           rcsr'.val = CsrRead(acsr', ex.insn.csr) /\ ~Refused(ex.insn)
    <3>1. ex.insn.op = "csr" => csr = acsr'
      BY <1>3 DEF IInv, CsrsAhead, Returning
    <3> QED BY <1>1, <2>1, <3>1, MovesCsr, MovesWires
  <2>11. WritesCsr(ex.insn) =>
           mem'.post = CsrWrite(acsr', ex.insn.csr, regs'[ex.insn.rs1])
    <3> SUFFICES ASSUME WritesCsr(ex.insn), ex.insn.op = "csr"
                 PROVE  mem'.post = CsrWrite(acsr', ex.insn.csr, regs'[ex.insn.rs1])
      BY DEF WritesCsr
    <3>1. csr = acsr'
      BY <1>3 DEF IInv, CsrsAhead, Returning
    <3>2. CsrWrites /\ ~Ret
      BY <2>1, MovesWires DEF Ret, XretHazard
    <3>3. ToMem(TRUE, ex.insn.rs1, ExOut) = regs'[ex.insn.rs1]
      BY <2>2 DEF ExOut, MemRs1
    <3>4. csr' = CsrWrite(csr, ex.insn.csr, ToMem(TRUE, ex.insn.rs1, ExOut))
      BY <1>1, <2>1, <3>2, MovesCsr
    <3>5. mem'.post = csr'
      BY <1>1, <3>2, MovesToMem
    <3> QED BY <3>1, <3>3, <3>4, <3>5
  <2>12. ex.insn.op = "mret" => mem'.post = CsrRet(acsr')
    <3> SUFFICES ASSUME ex.insn.op = "mret" PROVE mem'.post = CsrRet(acsr')
      OBVIOUS
    <3>1. mem'.post = ex.post
      BY <1>1, MovesToMem, MovesWires DEF WritesCsr
    <3> QED BY <1>3, <2>1, <3>1 DEF IInv, CsrsAhead, Returning
  <2> QED BY <2>4, <2>5, <2>6, <2>9, <2>10, <2>11, <2>12, <2>13
<1>7. mem'.insn = ex.insn /\ mem'.pc = ex.pc
  BY <1>1, MovesToMem
<1> QED BY <1>5, <1>6, <1>7 DEF Results, UsesRd, WritesCsr, Refused

\* The CSRs are ahead by the csr instruction or mret that moved on.
LEMMA MovesCsrsAhead ==
  ASSUME Conforming, IInv, Next, Moves
  PROVE  CsrsAhead' /\ (Returning' => CsrAfter' = csr)
<1>1. TypeOK /\ ~Exception /\ ~MemWaits /\ ~mem.trap
  BY MovesWires DEF IInv, Moves
<1>2. acsr' = CsrAfter
  BY <1>1, RetireFacts
<1>3. InMemory' <=> ex.valid /\ ~Faults
  BY <1>1, MovesToMem DEF InMemory, IInv, Kinds
<1>4. Faults => ex.insn.op \in {"load", "store"} \/ Refused(ex.insn)
  BY DEF Faults, Accesses
<1>5. Returning' <=> Ret
  BY <1>1, MovesToEx DEF Returning, Ret
<1>6. mem'.insn = ex.insn /\ (CsrWrites <=> ex.valid /\ WritesCsr(ex.insn))
  BY <1>1, MovesToMem, MovesWires
<1>15. /\ Refused(ex.insn) => ex.insn.op = "csr"
       /\ Refused(ex.insn) /\ ex.valid => Faults
       /\ \A v : Refused(ex.insn) => CsrWrite(csr, ex.insn.csr, v) = csr
  BY MovesWires DEF Refused, CsrWrite
<1>7. CsrAfter' = IF ex.valid /\ ~Faults /\ ChangesCsr(ex.insn) THEN mem'.post ELSE acsr'
  BY <1>3, <1>6 DEF CsrAfter, ChangesCsr, WritesCsr
<1>8. Ret => ~WritesCsr(ex.insn)
  BY MovesWires DEF Ret, XretHazard
<1>9. ex.valid /\ ex.insn.op = "mret" => CsrAfter' = csr
  BY <1>1, <1>4, <1>6, <1>7, <1>15, MovesToMem
  DEF IInv, CsrsAhead, Returning, ChangesCsr, WritesCsr
<1>10. ~(ex.valid /\ ChangesCsr(ex.insn)) => CsrAfter' = csr
  BY <1>2, <1>7 DEF IInv, CsrsAhead, Returning, ChangesCsr
<1>11. ex.valid /\ WritesCsr(ex.insn) => CsrAfter' = csr'
  <2> SUFFICES ASSUME ex.valid, WritesCsr(ex.insn) PROVE CsrAfter' = csr'
    OBVIOUS
  <2>1. ex.insn.op = "csr" /\ CsrWrites /\ ~Ret
    BY <1>6, <1>8 DEF WritesCsr
  <2>2. CASE Faults
    <3>1. csr' = csr
      BY <1>1, <1>4, <1>15, <2>1, <2>2, MovesCsr
    <3>2. CsrAfter' = csr
      BY <1>2, <1>7, <2>1, <2>2 DEF IInv, CsrsAhead, Returning
    <3> QED BY <3>1, <3>2
  <2>3. CASE ~Faults
    BY <1>1, <1>7, <2>1, <2>3, MovesToMem DEF ChangesCsr
  <2> QED BY <2>2, <2>3
<1>12. Returning' => csr' = ex'.post /\ ex'.post = CsrRet(CsrAfter') /\ CsrAfter' = csr
  BY <1>1, <1>5, <1>8, <1>9, <1>10, MovesCsr, MovesToEx DEF ChangesCsr
<1>13. ~Returning' => csr' = CsrAfter'
  BY <1>1, <1>5, <1>9, <1>10, <1>11, MovesCsr DEF ChangesCsr, WritesCsr
<1>14. (mem'.valid \/ mem'.trap) /\ Revocable(mem'.insn) => ~Returning'
  <2> SUFFICES ASSUME mem'.valid \/ mem'.trap, Revocable(ex.insn), Ret PROVE FALSE
    BY <1>5, <1>6 DEF Revocable, Refused, WritesCsr
  <2>1. ex.valid \/ ex.trap
    BY <1>1, MovesToMem, MovesWires DEF Faults
  <2>2. id.valid /\ id.insn.op = "mret" /\ ~Mispredicted
    BY MovesWires DEF Ret
  <2>3. Sequential(ex.insn)
    BY DEF Revocable, Sequential, Refused
  <2>4. /\ id.insn \in Code[NextPC(ex.pc)] /\ ex.pc \in PC /\ ex.insn \in Code[ex.pc]
    BY <2>1, <2>2, <2>3, DecodedNext
  <2> QED BY <2>2, <2>4 DEF Conforming
<1> QED BY <1>12, <1>13, <1>14 DEF CsrsAhead, Revocable, Refused, WritesCsr

\* The delayed interrupt enable is still that of before.
LEMMA MovesEnabledBefore ==
  ASSUME Conforming, IInv, Next, Moves PROVE EnabledBefore'
<1>1. TypeOK /\ ~Exception /\ ~MemWaits /\ ~mem.trap
  BY MovesWires DEF IInv, Moves
<1>2. pmie'[1] = csr.mie /\ pmie'[2] = pmie[1]
  BY <1>1, MovesCsr
<1>3. acsr' = CsrAfter /\ mem'.valid = ex.valid /\ mem'.insn = ex.insn
  BY <1>1, RetireFacts, MovesToMem
<1>4. ex.valid /\ ex.insn.op = "csr" => csr = CsrAfter
  BY DEF IInv, CsrsAhead, Returning
<1>5. Irqs /\ ex.valid /\ ex.insn.op = "mret" => pmie[1] = CsrAfter.mie
  BY DEF IInv, EnabledBefore, Returning
<1>6. Returning' => CsrAfter' = csr
  BY MovesCsrsAhead
<1> QED BY <1>2, <1>3, <1>4, <1>5, <1>6, IrqNext DEF EnabledBefore

\* The invariant is kept when the stages move on.
LEMMA MovesInv ==
  ASSUME Conforming, IInv, TypeOK', Next, Moves PROVE IInv'
  BY MovesInstructions, MovesKinds, MovesDividing, MovesWaiting, MovesFollowsEx,
     MovesFollowsMem, MovesOperands, MovesResults, MovesCsrsAhead, MovesEnabledBefore
  DEF IInv

\* The invariant is inductive.
LEMMA NextInv == Conforming /\ IInv /\ [Next]_vars => IInv'
<1> SUFFICES ASSUME Conforming, IInv, [Next]_vars PROVE IInv'
  OBVIOUS
<1>1. TypeOK'
  BY NextType DEF IInv, Kinds, TrapsOnly
<1>2. CASE Next
  BY <1>1, <1>2, FourCases, ExceptionInv, HeldInv, DividesInv, MovesInv DEF IInv
<1>3. CASE UNCHANGED vars
  BY <1>3 DEF vars, IInv, TypeOK, Instructions, Kinds, Dividing, Waiting, FollowsEx,
     FollowsMem, Operands, Results, CsrsAhead, EnabledBefore, Traps, InMemory, DecodePC,
     ExecutePC, Writes, RegAfter, RdVal, CsrAfter, Returning, Sequential, Fresh,
     ExRs1, ExRs2, MemRs1, MemRs2, UsesRd, Revocable, Refused, WritesCsr, ChangesCsr
<1> QED BY <1>2, <1>3

\* In every reachable state of a conforming program the stages follow each
\* other, EX has its operands, MEM has its result, and the data memory and the
\* CSRs are ahead of the retired program by just the instructions in MEM and EX.
THEOREM PipelineInvariant == Conforming => (Spec => []IInv)
<1> SUFFICES ASSUME Conforming PROVE Spec => []IInv
  OBVIOUS
<1> QED BY InitInv, NextInv, PTL DEF Spec

\* When a branch in EX turns out mispredicted, fw_branch_alt holds the address
\* the program continues at, however long an access in MEM has kept the branch
\* waiting in EX: it is enough that neither the instruction fetched behind such
\* a branch nor a bubble decodes as a branch.
THEOREM PipelineCorrectionAddress == Conforming => (Spec => []CorrectionAddress)
<1> SUFFICES ASSUME Conforming PROVE Spec => []CorrectionAddress
  OBVIOUS
<1>1. IInv => CorrectionAddress
  BY DEF IInv, FollowsEx, CorrectionAddress, Mispredicted
<1> QED BY <1>1, PipelineInvariant, PTL

\* A trap or an interrupt makes the instruction at the trap vector the next
\* one, whatever the program, if the fetch buffer does not have it at once.
THEOREM PipelineTrapEntersVector ==
  "trap" \notin SkipHits => (Spec => TrapEntersVector)
<1> SUFFICES ASSUME "trap" \notin SkipHits PROVE Spec => TrapEntersVector
  OBVIOUS
<1>1. TypeOK /\ [Next]_vars => [Exception => OldestPC' = Tvec]_vars
  <2> SUFFICES ASSUME TypeOK, Next, Exception PROVE OldestPC' = Tvec
    OBVIOUS
  <2> QED BY ExceptionFacts DEF OldestPC, IdEmpty
<1> QED BY <1>1, PipelineTypes, PTL DEF Spec, TrapEntersVector

----------------------------------------------------------------------------
(* The pipeline implements the instruction set.                            *)

\* The reset state is that of the instruction set.
LEMMA InitImplements == Init => ISA!Init
  BY DEF Init, ISA!Init, OldestPC, IdEmpty, ExEmpty, MemEmpty, CsrReset, ISA!CsrReset,
         Reg, ISA!Reg, Addr, ISA!Addr, Value, ISA!Value

\* A trap overwrites what an mret, or a write to mepc or mie, changed before.
LEMMA TrapOverwrites ==
  ASSUME NEW c \in Csrs, NEW d \in Csrs, NEW p \in PC,
         c.mie = d.mie, c.mscratch = d.mscratch, c.lock = d.lock
  PROVE  CsrTrap(c, "irq", p) = CsrTrap(d, "irq", p)
<1>1. CsrTrap(c, "irq", p) \in Csrs /\ CsrTrap(d, "irq", p) \in Csrs
  BY CsrType
<1>2. ASSUME NEW e \in Csrs
      PROVE  /\ CsrTrap(e, "irq", p).mscratch = e.mscratch
             /\ CsrTrap(e, "irq", p).mepc = p
             /\ CsrTrap(e, "irq", p).mie = FALSE
             /\ CsrTrap(e, "irq", p).mpie = e.mie
             /\ CsrTrap(e, "irq", p).mcause = "irq"
             /\ CsrTrap(e, "irq", p).lock = e.lock
  BY DEF CsrTrap, Csrs
<1>3. \A e \in Csrs : e = [mscratch |-> e.mscratch, mepc |-> e.mepc, mie |-> e.mie,
                           mpie |-> e.mpie, mcause |-> e.mcause, lock |-> e.lock]
  BY DEF Csrs
<1> DEFINE x == CsrTrap(c, "irq", p)
           y == CsrTrap(d, "irq", p)
<1>4. /\ x.mscratch = y.mscratch /\ x.mepc = y.mepc /\ x.mie = y.mie
      /\ x.mpie = y.mpie /\ x.mcause = y.mcause /\ x.lock = y.lock
  BY <1>2
<1> HIDE DEF x, y
<1>5. x = y
  BY <1>1, <1>3, <1>4 DEF x, y
<1> QED BY <1>5 DEF x, y

\* An mret and writes to mepc and mie, or to what cannot be written, leave what
\* a trap does not overwrite.
LEMMA OverwrittenKeeps ==
  ASSUME NEW c \in Csrs
  PROVE  /\ CsrRet(c) \in Csrs /\ CsrRet(c).mscratch = c.mscratch /\ CsrRet(c).lock = c.lock
         /\ \A name \in CsrNames \ {"mscratch", "pmpcfg"} : \A v \in Value :
              /\ CsrWrite(c, name, v) \in Csrs
              /\ CsrWrite(c, name, v).mscratch = c.mscratch
              /\ CsrWrite(c, name, v).lock = c.lock
<1>1. CsrRet(c).mscratch = c.mscratch /\ CsrRet(c).lock = c.lock
  BY DEF CsrRet, Csrs
<1>2. \A name \in CsrNames \ {"mscratch", "pmpcfg"} : \A v :
              /\ CsrWrite(c, name, v).mscratch = c.mscratch
              /\ CsrWrite(c, name, v).lock = c.lock
  BY DEF CsrWrite, Csrs, CsrNames
<1> QED BY <1>1, <1>2, CsrType DEF CsrNames

\* An interrupt is taken where the CSRs of the retired program allow it, and
\* finds in them what a trap keeps.
LEMMA InterruptEnabled ==
  ASSUME Conforming, IInv, IrqTaken
  PROVE  /\ acsr.mie /\ dmem = amem
         /\ CsrTrap(csr, "irq", mem.pc) = CsrTrap(acsr, "irq", mem.pc)
<1>1. TypeOK /\ Irqs /\ mem.valid /\ pmie[1] /\ pmie[2] /\ csr.mie
  BY DEF IInv, EnabledBefore, IrqTaken
<1>2. mem.insn \in Code[mem.pc] /\ mem.pc \in PC /\ mem.insn.rs1 \in Reg
  BY <1>1, InstrFields DEF IInv, Instructions, TypeOK
<1>3. /\ mem.insn.op # "store"
      /\ WritesCsr(mem.insn) => mem.insn.csr \in CsrNames \ {"mscratch", "pmpcfg"}
  BY <1>1, <1>2, InstrFields DEF Conforming, TypeOK
<1>4. dmem = amem
  BY <1>3 DEF IInv, Results
<1>5. csr \in Csrs /\ acsr \in Csrs /\ regs[mem.insn.rs1] \in Value
  BY <1>1, <1>2 DEF TypeOK
<1>6. /\ CsrAfter \in Csrs
      /\ CsrAfter.mscratch = acsr.mscratch /\ CsrAfter.lock = acsr.lock
  <2>1. CASE InMemory /\ WritesCsr(mem.insn)
    BY <1>3, <1>5, <2>1, OverwrittenKeeps
    DEF IInv, Results, CsrAfter, ChangesCsr, WritesCsr
  <2>2. CASE InMemory /\ mem.insn.op = "mret"
    BY <1>5, <2>2, OverwrittenKeeps DEF IInv, Results, CsrAfter, ChangesCsr
  <2>3. CASE ~(InMemory /\ ChangesCsr(mem.insn))
    BY <1>5, <2>3 DEF CsrAfter
  <2> QED BY <2>1, <2>2, <2>3 DEF ChangesCsr
<1>7. csr.mscratch = acsr.mscratch /\ csr.lock = acsr.lock
  <2>1. CASE Returning
    BY <1>6, <2>1, OverwrittenKeeps DEF IInv, CsrsAhead
  <2>2. CASE ~Returning
    BY <1>6, <2>2 DEF IInv, CsrsAhead
  <2> QED BY <2>1, <2>2
<1>8. acsr.mie
  <2>1. CASE mem.insn.op = "csr"
    BY <1>1, <2>1 DEF IInv, EnabledBefore
  <2>2. CASE mem.insn.op = "mret"
    BY <1>1, <2>2 DEF IInv, EnabledBefore
  <2>3. CASE mem.insn.op \notin {"csr", "mret"}
    <3>1. CsrAfter = acsr
      BY <2>3 DEF CsrAfter, ChangesCsr, WritesCsr
    <3>2. CASE Returning
      BY <1>1, <3>1, <3>2 DEF IInv, EnabledBefore
    <3>3. CASE ~Returning
      BY <1>1, <3>1, <3>3 DEF IInv, CsrsAhead
    <3> QED BY <3>2, <3>3
  <2> QED BY <2>1, <2>2, <2>3
<1>9. csr.mie = acsr.mie
  <2>1. csr.mie \in BOOLEAN /\ acsr.mie \in BOOLEAN
    BY <1>5 DEF Csrs
  <2> QED BY <1>1, <1>8, <2>1
<1> QED BY <1>2, <1>4, <1>5, <1>7, <1>8, <1>9, TrapOverwrites

\* An exception is a trap of the instruction in MEM or an interrupt before it.
LEMMA ExceptionImplements ==
  ASSUME Conforming, IInv, Next, Exception PROVE ISA!Next
<1>1. TypeOK
  BY DEF IInv
<1>2. OldestPC' = Tvec /\ OldestPC = mem.pc
  BY <1>1, ExceptionFacts DEF Conforming, OldestPC, IdEmpty, Exception, IrqTaken
<1>3. /\ csr' = IF IrqTaken THEN CsrTrap(csr, "irq", mem.pc)
                ELSE CsrTrap(csr, mem.cause, mem.pc)
      /\ acsr' = csr' /\ amem' = dmem /\ regs' = regs
  BY <1>1, ExceptionFacts DEF Conforming
<1>4. mem.insn \in Code[mem.pc] /\ mem.pc \in PC
  BY <1>1 DEF IInv, Instructions, Exception, IrqTaken, TypeOK
<1>5. CASE IrqTaken
  <2>1. ISA!TrapTo("irq")
    BY <1>2, <1>3, <1>5, InterruptEnabled DEF ISA!TrapTo, CsrTrap, ISA!CsrTrap
  <2>2. ISA!Interrupt
    BY <1>5, <2>1, InterruptEnabled DEF ISA!Interrupt
  <2> QED BY <2>2 DEF ISA!Next
<1>6. CASE ~IrqTaken
  <2>1. mem.trap /\ ~InMemory
    BY <1>6 DEF Exception, InMemory
  <2>2. dmem = amem
    BY <2>1 DEF IInv, Results
  <2>3. Revocable(mem.insn)
    BY <2>1 DEF IInv, Kinds, Revocable, Traps
  <2>4. csr = acsr
    BY <2>1, <2>3 DEF IInv, CsrsAhead, CsrAfter
  <2>5. ISA!TrapTo(mem.cause)
    BY <1>2, <1>3, <1>6, <2>2, <2>4 DEF ISA!TrapTo, CsrTrap, ISA!CsrTrap
  <2>6. ISA!Trap(mem.insn)
    BY <2>1, <2>5 DEF IInv, Kinds, Traps, ISA!Trap, Refused, WritesCsr, ISA!Refused,
                      ISA!WritesCsr
  <2> QED BY <1>2, <1>4, <2>6 DEF ISA!Next, ISA!Step
<1> QED BY <1>5, <1>6

\* While an access waits, nothing retires.
LEMMA HeldImplements ==
  ASSUME IInv, Next, Held PROVE UNCHANGED ISA!vars
<1>1. UNCHANGED <<pc, id, ex, mem, regs, amem, acsr>>
  BY HeldFacts DEF IInv
<1> QED BY <1>1 DEF ISA!vars, OldestPC

\* What leaves MEM takes effect as the instruction set says.
LEMMA RetireImplements ==
  ASSUME Conforming, IInv, Next, ~Exception, ~MemWaits, mem.valid PROVE ISA!Next
<1> DEFINE i == mem.insn
<1>1. TypeOK /\ InMemory /\ i \in Code[mem.pc]
  BY Retiring DEF IInv, Instructions
<1>2. OldestPC = mem.pc /\ OldestPC' = ExecutePC
  BY OldestNext DEF OldestPC
<1>3. /\ regs' = IF UsesRd(i) /\ i.rd # 0 THEN [regs EXCEPT ![i.rd] = RdVal] ELSE regs
      /\ amem' = dmem /\ acsr' = CsrAfter
  BY <1>1, RetireFacts
<1>4. i.op \notin {"csr", "mret"} => acsr' = acsr
  BY <1>3 DEF CsrAfter, ChangesCsr, WritesCsr
<1>5. i.op # "store" => amem' = amem
  BY <1>3 DEF IInv, Results
<1>6. Sequential(i) => ExecutePC = ISA!NextPC(mem.pc)
  BY <1>1 DEF IInv, FollowsMem, NextPC, ISA!NextPC
<1>7. UsesRd(i) /\ i.op # "csr" => ~rcsr.re
  BY <1>1 DEF IInv, Results
<1>8. mem.acc = "load" <=> i.op = "load"
  BY <1>1 DEF IInv, Kinds
<1>9. i.op \in Ops
  BY <1>1, InstrFields DEF TypeOK
<1> HIDE DEF i
<1>10. CASE i.op \in {"op", "div"}
  <2>1. RdVal = ISA!Alu(regs[i.rs1], regs[i.rs2])
    BY <1>1, <1>7, <1>8, <1>10 DEF RdVal, UsesRd, IInv, Results, Alu, ISA!Alu, i
  <2>2. ISA!Op(i)
    BY <1>2, <1>3, <1>4, <1>5, <1>6, <1>10, <2>1 DEF ISA!Op, ISA!SetRd, UsesRd, Sequential
  <2> QED BY <1>1, <1>2, <2>2 DEF ISA!Next, ISA!Step
<1>11. CASE i.op = "load"
  <2>1. RdVal = amem[regs[i.rs1]] /\ regs[i.rs1] \notin BadAddrs
    BY <1>1, <1>7, <1>8, <1>11 DEF RdVal, UsesRd, IInv, Results, i
  <2>2. ISA!Load(i)
    BY <1>2, <1>3, <1>4, <1>5, <1>6, <1>11, <2>1 DEF ISA!Load, ISA!SetRd, UsesRd, Sequential
  <2> QED BY <1>1, <1>2, <2>2 DEF ISA!Next, ISA!Step
<1>12. CASE i.op = "store"
  <2>1. /\ amem' = [amem EXCEPT ![regs[i.rs1]] = regs[i.rs2]]
        /\ regs[i.rs1] \notin BadAddrs
    BY <1>1, <1>3, <1>12 DEF IInv, Results, i
  <2>2. ISA!Store(i)
    BY <1>2, <1>3, <1>4, <1>6, <1>12, <2>1 DEF ISA!Store, UsesRd, Sequential
  <2> QED BY <1>1, <1>2, <2>2 DEF ISA!Next, ISA!Step
<1>13. CASE i.op \in {"jal", "jalr"}
  <2>1. RdVal = ISA!Link(mem.pc)
    BY <1>1, <1>7, <1>8, <1>13
    DEF RdVal, UsesRd, IInv, Results, Link, ISA!Link, NextPC, ISA!NextPC, i
  <2>2. ExecutePC = IF i.op = "jal" THEN i.imm ELSE ISA!JalrTarget(regs[i.rs1])
    BY <1>1, <1>13 DEF IInv, FollowsMem, JalrTarget, ISA!JalrTarget, i
  <2>3. ISA!Jump(i)
    BY <1>2, <1>3, <1>4, <1>5, <1>13, <2>1, <2>2 DEF ISA!Jump, ISA!SetRd, UsesRd
  <2> QED BY <1>1, <1>2, <2>3 DEF ISA!Next, ISA!Step
<1>14. CASE i.op = "br"
  <2>1. ExecutePC = IF regs[i.rs1] = regs[i.rs2] THEN i.imm ELSE ISA!NextPC(mem.pc)
    BY <1>1, <1>14 DEF IInv, FollowsMem, NextPC, ISA!NextPC, i
  <2>2. ISA!Branch(i)
    BY <1>2, <1>3, <1>4, <1>5, <1>14, <2>1 DEF ISA!Branch, UsesRd
  <2> QED BY <1>1, <1>2, <2>2 DEF ISA!Next, ISA!Step
<1>15. CASE i.op = "csr"
  <2>1. /\ RdVal = ISA!CsrRead(acsr, i.csr) /\ ~ISA!Refused(i)
        /\ acsr' = IF ISA!WritesCsr(i) THEN ISA!CsrWrite(acsr, i.csr, regs[i.rs1]) ELSE acsr
    <3>1. rcsr.re /\ rcsr.val = CsrRead(acsr, i.csr) /\ ~Refused(i)
      BY <1>1, <1>15 DEF IInv, Results, UsesRd, i
    <3>2. acsr' = IF WritesCsr(i) THEN CsrWrite(acsr, i.csr, regs[i.rs1]) ELSE acsr
      BY <1>1, <1>3, <1>15 DEF IInv, Results, CsrAfter, ChangesCsr, i
    <3> QED BY <3>1, <3>2
        DEF RdVal, CsrRead, ISA!CsrRead, CsrWrite, ISA!CsrWrite, Refused, ISA!Refused,
            WritesCsr, ISA!WritesCsr
  <2>2. ISA!Csr(i)
    BY <1>2, <1>3, <1>5, <1>6, <1>15, <2>1 DEF ISA!Csr, ISA!SetRd, UsesRd, Sequential
  <2> QED BY <1>1, <1>2, <2>2 DEF ISA!Next, ISA!Step
<1>16. CASE i.op = "mret"
  <2>1. acsr' = ISA!CsrRet(acsr) /\ ExecutePC = acsr.mepc
    BY <1>1, <1>3, <1>16
    DEF IInv, Results, FollowsMem, CsrAfter, ChangesCsr, CsrRet, ISA!CsrRet, i
  <2>2. ISA!Mret(i)
    BY <1>2, <1>3, <1>5, <1>16, <2>1 DEF ISA!Mret, UsesRd
  <2> QED BY <1>1, <1>2, <2>2 DEF ISA!Next, ISA!Step
<1>17. CASE i.op = "fencei"
  <2>1. ISA!Fencei(i)
    BY <1>2, <1>3, <1>4, <1>5, <1>6, <1>17 DEF ISA!Fencei, UsesRd, Sequential
  <2> QED BY <1>1, <1>2, <2>1 DEF ISA!Next, ISA!Step
<1>18. i.op \notin {"ecall", "illegal"}
  BY DEF IInv, Kinds, Traps, i
<1> QED
  BY <1>9, <1>10, <1>11, <1>12, <1>13, <1>14, <1>15, <1>16, <1>17, <1>18 DEF Ops

\* A bubble that leaves MEM changes nothing.
LEMMA BubbleImplements ==
  ASSUME Conforming, IInv, Next, ~Exception, ~MemWaits, ~mem.valid
  PROVE  UNCHANGED ISA!vars
<1>1. TypeOK /\ ~InMemory /\ ~mem.trap
  BY Retiring DEF IInv
<1>2. OldestPC = ExecutePC /\ OldestPC' = ExecutePC
  BY <1>1, OldestNext DEF OldestPC, ExecutePC, DecodePC
<1>3. regs' = regs /\ amem' = amem /\ acsr' = acsr
  BY <1>1, RetireFacts DEF CsrAfter
<1> QED BY <1>2, <1>3 DEF ISA!vars

\* Every clock edge is a step of the instruction set or changes nothing it
\* speaks of.
LEMMA StepImplements == Conforming /\ IInv /\ [Next]_vars => [ISA!Next]_(ISA!vars)
<1> SUFFICES ASSUME Conforming, IInv, [Next]_vars PROVE ISA!Next \/ UNCHANGED ISA!vars
  OBVIOUS
<1>1. CASE Next
  <2>1. CASE Exception
    BY <1>1, <2>1, ExceptionImplements
  <2>2. CASE Held
    BY <1>1, <2>2, HeldImplements
  <2>3. CASE ~Exception /\ ~MemWaits
    BY <1>1, <2>3, RetireImplements, BubbleImplements
  <2> QED BY <2>1, <2>2, <2>3 DEF Held
<1>2. CASE UNCHANGED vars
  BY <1>2 DEF vars, ISA!vars, OldestPC
<1> QED BY <1>1, <1>2

\* Whatever stalls, is forwarded, is predicted or is cleared on the way, the
\* register file, the data memory and the CSRs change as the instructions of
\* the program say, one after the other and each of them whole.
THEOREM PipelineProgramOrder == Conforming => (Spec => ProgramOrder)
<1> SUFFICES ASSUME Conforming PROVE Spec => ProgramOrder
  OBVIOUS
<1> QED BY InitImplements, StepImplements, PipelineInvariant, PTL
        DEF Spec, ProgramOrder, ISA!Spec
=============================================================================

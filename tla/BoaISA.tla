------------------------------- MODULE BoaISA -------------------------------
(***************************************************************************)
(* What the core promises to software: instructions take effect one after  *)
(* the other, in program order, each with all of its effects or, when it   *)
(* traps, with none of them; an interrupt comes between two instructions.  *)
(* The pipeline (module BoaPipeline) implements this specification.        *)
(***************************************************************************)
EXTENDS BoaDefs

VARIABLES
  pc,     \* Address of the next instruction.
  regs,   \* The register file.
  mem,    \* The data memory.
  csr     \* The control and status registers.

vars == <<pc, regs, mem, csr>>

Init ==
  /\ pc = Entry
  /\ regs = [r \in Reg |-> 0]
  /\ mem = [a \in Addr |-> 0]
  /\ csr = CsrReset

\* Write v to register rd; x0 stays zero.
SetRd(i, v) == regs' = IF i.rd = 0 THEN regs ELSE [regs EXCEPT ![i.rd] = v]

Op(i) ==
  /\ i.op \in {"op", "div"}
  /\ SetRd(i, Alu(regs[i.rs1], regs[i.rs2]))
  /\ pc' = NextPC(pc)
  /\ UNCHANGED <<mem, csr>>

Load(i) ==
  /\ i.op = "load" /\ regs[i.rs1] \notin BadAddrs
  /\ SetRd(i, mem[regs[i.rs1]])
  /\ pc' = NextPC(pc)
  /\ UNCHANGED <<mem, csr>>

Store(i) ==
  /\ i.op = "store" /\ regs[i.rs1] \notin BadAddrs
  /\ mem' = [mem EXCEPT ![regs[i.rs1]] = regs[i.rs2]]
  /\ pc' = NextPC(pc)
  /\ UNCHANGED <<regs, csr>>

Jump(i) ==
  /\ i.op \in {"jal", "jalr"}
  /\ SetRd(i, Link(pc))
  /\ pc' = IF i.op = "jal" THEN i.imm ELSE JalrTarget(regs[i.rs1])
  /\ UNCHANGED <<mem, csr>>

Branch(i) ==
  /\ i.op = "br"
  /\ pc' = IF regs[i.rs1] = regs[i.rs2] THEN i.imm ELSE NextPC(pc)
  /\ UNCHANGED <<regs, mem, csr>>

Csr(i) ==
  /\ i.op = "csr" /\ ~Refused(i)
  /\ SetRd(i, CsrRead(csr, i.csr))
  /\ csr' = IF WritesCsr(i) THEN CsrWrite(csr, i.csr, regs[i.rs1]) ELSE csr
  /\ pc' = NextPC(pc)
  /\ UNCHANGED mem

Mret(i) ==
  /\ i.op = "mret"
  /\ csr' = CsrRet(csr)
  /\ pc' = csr.mepc
  /\ UNCHANGED <<regs, mem>>

Fencei(i) ==
  /\ i.op = "fencei"
  /\ pc' = NextPC(pc)
  /\ UNCHANGED <<regs, mem, csr>>

TrapTo(cause) ==
  /\ csr' = CsrTrap(csr, cause, pc)
  /\ pc' = Tvec
  /\ UNCHANGED <<regs, mem>>

Trap(i) ==
  \/ i.op \in {"ecall", "illegal"} /\ TrapTo(i.op)
  \/ i.op \in {"load", "store"} /\ regs[i.rs1] \in BadAddrs /\ TrapTo("access")
  \/ Refused(i) /\ TrapTo("illegal")

Interrupt == csr.mie /\ TrapTo("irq")

Step(i) ==
  \/ Op(i) \/ Load(i) \/ Store(i) \/ Jump(i) \/ Branch(i)
  \/ Csr(i) \/ Mret(i) \/ Fencei(i) \/ Trap(i)

Next == (\E i \in Code[pc] : Step(i)) \/ Interrupt

Spec == Init /\ [][Next]_vars
=============================================================================

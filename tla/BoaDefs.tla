------------------------------ MODULE BoaDefs ------------------------------
(***************************************************************************)
(* What the instruction set model and the pipeline model of Boa32 share:   *)
(* the instructions, their operands and their results.                     *)
(*                                                                         *)
(* An instruction is the record its decoder produces: an operation, the    *)
(* registers it names and an immediate.  Addresses of instructions are     *)
(* 0 .. PCs-1 and count instructions, values are 0 .. Vals-1; both wrap    *)
(* around, as the 32-bit adders of the core do.                            *)
(***************************************************************************)
EXTENDS Integers

CONSTANTS
  PCs,       \* Number of instruction addresses.
  Vals,      \* Number of register values, which are data addresses as well.
  NRegs,     \* Number of registers, x0 included.
  Code,      \* Code[p]: the instructions that may stand at address p.
  Entry,     \* The address of the first instruction.
  Tvec,      \* The trap vector (CSR mtvec).
  BadAddrs   \* Data addresses the access checks refuse (alignment, PMP).

ASSUME SizeAssumption ==
  /\ PCs \in Nat \ {0} /\ Vals \in Nat \ {0} /\ NRegs \in Nat \ {0}
  /\ Entry \in 0 .. PCs - 1 /\ Tvec \in 0 .. PCs - 1
  /\ BadAddrs \subseteq 0 .. Vals - 1

PC == 0 .. PCs - 1
Value == 0 .. Vals - 1
Reg == 0 .. NRegs - 1
Addr == Value

Ops == {"op", "div", "load", "store", "jal", "jalr", "br", "csr", "mret",
        "ecall", "illegal", "fencei"}

\* The CSRs a csr instruction names.  "pmpcfg" stands for a write that sets
\* the lock bit of a PMP entry, "mhartid" for those that can only be read and
\* "unknown" for those that do not exist.
CsrNames == {"mscratch", "mepc", "mie", "pmpcfg", "mhartid", "unknown"}

Instr == [op : Ops, rd : Reg, rs1 : Reg, rs2 : Reg, imm : PC, csr : CsrNames]

ASSUME CodeAssumption == Code \in [PC -> SUBSET Instr]

Csrs == [mscratch : Value, mepc : PC, mie : BOOLEAN, mpie : BOOLEAN,
         mcause : {"none", "ecall", "illegal", "access", "irq"}, lock : BOOLEAN]

CsrReset == [mscratch |-> 0, mepc |-> 0, mie |-> FALSE, mpie |-> FALSE,
             mcause |-> "none", lock |-> FALSE]

\* A csr instruction whose operand is x0 does not write, and one that names a
\* CSR it may not access is refused.
WritesCsr(i) == i.op = "csr" /\ i.rs1 # 0
Refused(i) ==
  i.op = "csr" /\ (i.csr = "unknown" \/ (i.csr = "mhartid" /\ WritesCsr(i)))

\* boa_reg_decoder: does the instruction store to a register.
UsesRd(i) == i.op \in {"op", "div", "load", "jal", "jalr", "csr"}

\* The adder stands for every ALU operation: it tells its operands apart.
Alu(a, b) == (a + b + 1) % Vals
NextPC(p) == (p + 1) % PCs
Link(p) == NextPC(p) % Vals
JalrTarget(v) == v % PCs

\* The value a csr instruction reads, and the CSRs after it wrote v.
CsrRead(c, name) ==
  CASE name = "mscratch" -> c.mscratch
    [] name = "mepc" -> c.mepc % Vals
    [] name = "mie" -> IF c.mie THEN 1 % Vals ELSE 0
    [] name = "pmpcfg" -> IF c.lock THEN 1 % Vals ELSE 0
    [] OTHER -> 0

CsrWrite(c, name, v) ==
  CASE name = "mscratch" -> [c EXCEPT !.mscratch = v]
    [] name = "mepc" -> [c EXCEPT !.mepc = v % PCs]
    [] name = "mie" -> [c EXCEPT !.mie = (v # 0)]
    [] name = "pmpcfg" -> [c EXCEPT !.lock = TRUE]
    [] OTHER -> c

\* The CSRs after a trap or an interrupt at p, and after an mret.
CsrTrap(c, cause, p) ==
  [c EXCEPT !.mpie = c.mie, !.mie = FALSE, !.mepc = p, !.mcause = cause]
CsrRet(c) == [c EXCEPT !.mie = c.mpie]
=============================================================================

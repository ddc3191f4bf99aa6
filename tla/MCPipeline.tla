----------------------------- MODULE MCPipeline -----------------------------
(***************************************************************************)
(* Programs for the model checking of BoaPipeline.  Four instruction       *)
(* addresses, two or three values, and two registers beside x0.            *)
(***************************************************************************)
EXTENDS BoaPipeline

I(op, rd, rs1, rs2, imm, name) ==
  [op |-> op, rd |-> rd, rs1 |-> rs1, rs2 |-> rs2, imm |-> imm, csr |-> name]
Op2(rd, rs1, rs2) == I("op", rd, rs1, rs2, 0, "mscratch")
Div2(rd, rs1, rs2) == I("div", rd, rs1, rs2, 0, "mscratch")
Ld(rd, rs1) == I("load", rd, rs1, 0, 0, "mscratch")
St(rs1, rs2) == I("store", 0, rs1, rs2, 0, "mscratch")
Jal(rd, to) == I("jal", rd, 0, 0, to, "mscratch")
Jalr(rd, rs1) == I("jalr", rd, rs1, 0, 0, "mscratch")
Br(rs1, rs2, to) == I("br", 0, rs1, rs2, to, "mscratch")
CsrRw(rd, name, rs1) == I("csr", rd, rs1, 0, 0, name)
Plain(op) == I(op, 0, 0, 0, 0, "mscratch")

\* Data hazards and everything that stalls: what the last three instructions
\* produced is read while accesses, divisions, fences and returns wait.  The
\* branches are at address 1 alone, so that none follows another directly, and
\* no csr instruction follows a load (see CodeAlt and CodeLoadCsr for those).
CodeData == [p \in 0 .. 3 |->
  IF p = 0 THEN {Ld(1, 2), Op2(2, 1, 2), Div2(1, 2, 0), Plain("mret")}
  ELSE IF p = 1 THEN {Br(1, 2, 0), Br(1, 0, 3), Div2(2, 1, 2), St(1, 2), Jalr(2, 1)}
  ELSE IF p = 2 THEN {Op2(1, 1, 0), St(2, 1), Br(2, 0, 0)}
  ELSE {CsrRw(2, "mepc", 1), Ld(2, 1), Plain("fencei")}]

\* Control transfers, one after the other, and interrupts anywhere between:
\* branches, jumps, traps, the CSRs they use, the way back, and fences.  No
\* fence stands where a branch is predicted to go (see CodeFence), no return
\* directly behind what may trap, and no store or csr instruction that cannot be
\* started again, since an interrupt may be taken on it.
CodeControl == [p \in 0 .. 3 |->
  IF p = 0 THEN {Op2(1, 1, 0), CsrRw(1, "mie", 1), Br(1, 2, 2)}
  ELSE IF p = 1 THEN {Plain("illegal"), Ld(2, 1), Br(1, 0, 3), Jalr(2, 1),
                      CsrRw(1, "mhartid", 2)}
  ELSE IF p = 2 THEN {Op2(2, 1, 2), Br(1, 2, 0), Jal(1, 0), CsrRw(2, "mie", 0)}
  ELSE {CsrRw(1, "mepc", 2), Plain("fencei"), Plain("mret"), Plain("ecall")}]

\* What a bubble decodes as: behind loads and branches that wait, no csr
\* instruction and no branch.
BubblesData == {Plain("mret")}
BubblesControl == {Plain("mret"), CsrRw(1, "mie", 1), Br(1, 2, 2)}

\* The programs of the passing runs are among those the proofs are about.
ASSUME ProgramAssumption == Code \in {CodeData, CodeControl} => Conforming

\* Branches one after the other, behind stores that keep EX waiting.
CodeAlt == [p \in 0 .. 3 |->
  {Op2(1, 1, 0), St(1, 2), Br(1, 2, 0), Br(1, 0, 3)}]

\* CSR instructions directly behind loads.
CodeLoadCsr == [p \in 0 .. 3 |->
  {Op2(1, 1, 0), Ld(1, 2), CsrRw(2, "mscratch", 1)}]

\* Traps alone.
CodeTraps == [p \in 0 .. 3 |-> {Op2(1, 1, 0), Plain("ecall")}]

\* Fences directly behind branches.
CodeFence == [p \in 0 .. 3 |->
  {Op2(1, 1, 0), Br(1, 2, 0), Br(1, 0, 3), Plain("fencei")}]
=============================================================================

------------------------------- MODULE MCPmp --------------------------------
(***************************************************************************)
(* The ranges that pmpaddr and pmpcfg stand for, calculated from what      *)
(* programs read in these CSRs, as a reference for BoaPmp's masks.         *)
(***************************************************************************)
EXTENDS BoaPmp, FiniteSetsExt

Byte(l, m, p) == [lock |-> l, match |-> m, rights |-> p]
MCInputs ==
  {Byte(FALSE, "tor", {"x"}), Byte(TRUE, "tor", {}),
   Byte(FALSE, "na4", {"x"}), Byte(TRUE, "napot", {"x"})}

Num(s) == MapThenSumSet(LAMBDA b : 2^b, s)
Grains(n) == n \div 2^Grain

\* The length of an area encoded by n: it doubles with each one at the end.
Ones(n) == CHOOSE k \in 0 .. Width : n % 2^k = 2^k - 1 /\ (k = Width \/ (n \div 2^k) % 2 = 0)

\* The word addresses that entry i covers.
Covered(i) ==
  LET top == Num(AddrRead(i))
      base == IF i = 0 THEN 0 ELSE Num(AddrRead(i - 1))
      area == 2^(Ones(top) + 1)
      Number == 0 .. 2^Width - 1
  IN CASE cfg[i].match = "off" -> {}
       [] cfg[i].match = "tor" ->
            {n \in Number : Grains(base) <= Grains(n) /\ Grains(n) < Grains(top)}
       [] cfg[i].match = "na4" -> {top}
       [] cfg[i].match = "napot" -> {n \in Number : n \div area = top \div area}

\* Every entry covers the words that its CSRs, as programs read them, stand for:
\* an area of a power of two at a multiple of its size, or the words from the
\* entry below up to this one ("Checks if an address is within the range
\* specified by a PMP").
CoversAsRead ==
  \A i \in Entries, w \in Words : Contains(i, w) <=> Num(w) \in Covered(i)
=============================================================================

------------------------------- MODULE BoaPmp -------------------------------
(***************************************************************************)
(* Physical memory protection, hdl/modules/boa_pmp.sv: the entries that    *)
(* programs write through CSRs, the lock bits that end this, and the       *)
(* checker that decides an access by the first entry that applies to it.   *)
(*                                                                         *)
(* A word address, and what a pmpaddr register stores, is the set of its   *)
(* bits that are one, so that the masks of the code are unions.  One step  *)
(* is a clock edge that writes a CSR or resets.                            *)
(***************************************************************************)
EXTENDS Integers

CONSTANTS
  Depth,   \* Number of entries (parameter depth).
  Group,   \* Entries that one pmpcfg CSR configures (4 in the code).
  Width,   \* Bits of a word address (alen - 2).
  Grain,   \* Low bits that pmpaddr does not store (grain - 2).
  Inputs   \* The configurations that programs write.

Entries == 0 .. Depth - 1
Groups == 0 .. (Depth - 1) \div Group
Members(g) == {i \in Entries : i \div Group = g}
Words == SUBSET (0 .. Width - 1)
Kept == Grain .. Width - 1
Rights == {"r", "w", "x"}
Matchings == {"off", "tor", "na4", "napot"}
Configs == [match : Matchings, rights : SUBSET Rights]

ASSUME PmpAssumption ==
  /\ Depth \in Nat \ {0} /\ Group \in Nat \ {0}
  /\ Width \in Nat /\ Grain \in Nat
  /\ Inputs \subseteq [lock : BOOLEAN, match : Matchings, rights : SUBSET Rights]

VARIABLES
  lock,     \* pmplock.
  cfg,      \* pmpcfg.
  addr,     \* pmpaddr.
  locking   \* The output of this name, in the cycle that the edge ended.

vars == <<lock, cfg, addr, locking>>

Off == [match |-> "off", rights |-> {}]

\* The lock bits power up as zero.
Init ==
  /\ lock = [i \in Entries |-> FALSE]
  /\ cfg = [i \in Entries |-> Off]
  /\ addr = [i \in Entries |-> {}]
  /\ locking = FALSE

----------------------------------------------------------------------------
(* The CSRs.                                                               *)

\* The entry above is locked, and its range begins where this entry says.
Shields(i) == i + 1 \in Entries /\ lock[i + 1] /\ cfg[i + 1].match = "tor"

\* Fault for the checks: only the own lock bit is looked at.
WriteableUnlocked(i) == ~lock[i]
Writeable(i) == ~lock[i] /\ ~Shields(i)

\* With a grain above one word, four bytes are not an area of their own.
Stored(c) ==
  [match |-> IF Grain > 0 /\ c.match = "na4" THEN "napot" ELSE c.match,
   rights |-> c.rights]

\* Fault for the checks: only the lowest entry of the CSR is looked at.
LocksLowest(new, g) == Writeable(g * Group) /\ new[g * Group].lock
Locks(new, g) == \E i \in Members(g) : Writeable(i) /\ new[i].lock

\* One write to a pmpcfg CSR.  The lock bit is taken even where the rest of
\* the byte is not.
WriteCfg(g) ==
  \E new \in [Members(g) -> Inputs] :
    /\ lock' = [i \in Entries |-> lock[i] \/ (i \in Members(g) /\ new[i].lock)]
    /\ cfg' = [i \in Entries |->
                 IF i \in Members(g) /\ Writeable(i) THEN Stored(new[i]) ELSE cfg[i]]
    /\ locking' = Locks(new, g)
    /\ UNCHANGED addr

\* One write to a pmpaddr CSR.
WriteAddr(i) ==
  \E w \in Words :
    /\ addr' = IF Writeable(i) THEN [addr EXCEPT ![i] = w \cap Kept] ELSE addr
    /\ locking' = FALSE
    /\ UNCHANGED <<lock, cfg>>

\* What a read of a pmpaddr CSR returns.
AddrRead(i) ==
  addr[i] \cup (IF cfg[i].match = "napot" THEN {b \in 0 .. Width - 1 : b < Grain} ELSE {})

\* A reset leaves the lock bits as they are.
Reset ==
  /\ cfg' = [i \in Entries |-> Off]
  /\ addr' = [i \in Entries |-> {}]
  /\ locking' = FALSE
  /\ UNCHANGED lock

Next ==
  \/ \E g \in Groups : WriteCfg(g)
  \/ \E i \in Entries : WriteAddr(i)
  \/ Reset

Spec == Init /\ [][Next]_vars

----------------------------------------------------------------------------
(* The checker.                                                            *)

\* The number with the bits s is smaller than the one with the bits t.
Below(s, t) == \E b \in t \ s : \A c \in Kept : c > b => (c \in s <=> c \in t)

\* napot_mask, the ones at the lower end, and napot_bit, the zero above them.
NapotMask(p) == {b \in Kept : \A c \in Kept : c <= b => c \in p}
NapotBit(p) == {b \in Kept \ p : \A c \in Kept : c < b => c \in p}

\* boa_pmp_contains: does entry i cover word w.
Base(i) == IF i = 0 THEN {} ELSE addr[i - 1]

\* Fault for the checks: the zero above the ones counts as part of the base.
ContainsNoBit(i, w) ==
  LET a == w \cap Kept
      p == addr[i]
  IN \/ cfg[i].match = "tor" /\ ~Below(a, Base(i)) /\ Below(a, p)
     \/ cfg[i].match = "na4" /\ Grain = 0 /\ a = p
     \/ cfg[i].match = "napot" /\ a \cup NapotMask(p) = p

Contains(i, w) ==
  LET a == w \cap Kept
      p == addr[i]
  IN \/ cfg[i].match = "tor" /\ ~Below(a, Base(i)) /\ Below(a, p)
     \/ cfg[i].match = "na4" /\ Grain = 0 /\ a = p
     \/ /\ cfg[i].match = "napot"
        /\ a \cup NapotMask(p) \cup NapotBit(p) = p \cup NapotBit(p)

\* pmp_filter and pmp_active: the first entry that applies in the mode.
Applies(i, w, machine) == Contains(i, w) /\ (machine => lock[i])
Decides(i, w, machine) ==
  /\ Applies(i, w, machine)
  /\ \A j \in Entries : j < i => ~Applies(j, w, machine)

\* boa_pmp_checker: what an access to w may do.
Allowed(w, machine) ==
  IF machine /\ ~\E i \in Entries : Applies(i, w, machine) THEN Rights
  ELSE UNION {cfg[i].rights : i \in {j \in Entries : Decides(j, w, machine)}}

----------------------------------------------------------------------------
(* Properties.                                                             *)

\* What a locked entry says, its range included, stays as it is until a reset:
\* whatever is written to its CSRs, to those of the entry below, at which its
\* range may begin, or to both at once ("Effective writeability of PMPs").
LockHolds ==
  [][~Reset => \A i \in Entries : lock[i] =>
       /\ lock'[i] /\ cfg'[i] = cfg[i]
       /\ \A w \in Words : Contains(i, w)' = Contains(i, w)]_vars

\* What machine mode may do only changes in a cycle in which the instructions
\* behind are told to have their permissions checked again ("One of the PMPs is
\* being locked").  An entry that is locked while the one above it shields it
\* is left out.
ChangesAreTold ==
  [][~Reset /\ ~(\E i \in Entries : Shields(i) /\ lock'[i] # lock[i]) =>
       \/ locking'
       \/ \A w \in Words : Allowed(w, TRUE)' = Allowed(w, TRUE)]_vars

\* A lock bit that goes up is told to the pipeline ("One of the PMPs is being
\* locked", boa_pmp.sv:62).  In the code the lock bit of a shielded entry goes
\* up (lines 140 to 143), and the detection asks for a writeable one (86 to 89).
LocksAreTold == [][~Reset /\ lock' # lock => locking']_vars
=============================================================================

--------------------------- MODULE BoaUnitProofs ---------------------------
(***************************************************************************)
(* Three units of hdl/modules/ that stand for themselves beside the        *)
(* pipeline.                                                               *)
(*                                                                         *)
(* Physical memory protection, for any number of entries, any grain and    *)
(* any inputs: a lock holds until a reset, and what machine mode may do    *)
(* only changes where it is told.                                          *)
(*                                                                         *)
(* The machine timer: the handshake of boa_mtime between the two clock     *)
(* domains, for every width of a word, every set of registers that are     *)
(* written and every order of the two clocks, as long as no write that     *)
(* waits is withdrawn (Aborts = FALSE).                                    *)
(*                                                                         *)
(* The memory demultiplexer with its round-robin arbiter, for every number *)
(* of ports, every set of addresses and every bound on the wait states.    *)
(***************************************************************************)
EXTENDS BoaPmp, BoaMtime, BoaMemDemux, TLAPS

----------------------------------------------------------------------------
(* Physical memory protection.                                             *)

TypeOK ==
  /\ lock \in [Entries -> BOOLEAN]
  /\ cfg \in [Entries -> Configs]
  /\ addr \in [Entries -> SUBSET Kept]
  /\ locking \in BOOLEAN

\* A configuration that was written is one that can be stored.
LEMMA StoredType == \A c \in Inputs : Stored(c) \in Configs
  BY PmpAssumption DEF Stored, Configs, Matchings

\* The registers keep their types: the matching of an entry is one of the
\* four, its address is made of the bits that are kept.
THEOREM PmpTypeOK == Spec => []TypeOK
<1>1. Init => TypeOK
  <2> SUFFICES ASSUME Init PROVE TypeOK
    OBVIOUS
  <2>1. Off \in Configs
    BY DEF Off, Configs, Matchings
  <2>2. lock \in [Entries -> BOOLEAN] /\ locking \in BOOLEAN
    BY DEF Init
  <2>3. cfg \in [Entries -> Configs]
    BY <2>1 DEF Init
  <2>4. addr \in [Entries -> SUBSET Kept]
    BY DEF Init
  <2> QED
    BY <2>2, <2>3, <2>4 DEF TypeOK
<1>2. TypeOK /\ [Next]_vars => TypeOK'
  <2> SUFFICES ASSUME TypeOK, [Next]_vars PROVE TypeOK'
    OBVIOUS
  <2>1. ASSUME NEW g \in Groups, WriteCfg(g) PROVE TypeOK'
    <3>1. PICK new \in [Members(g) -> Inputs] :
            /\ lock' = [i \in Entries |-> lock[i] \/ (i \in Members(g) /\ new[i].lock)]
            /\ cfg' = [i \in Entries |->
                 IF i \in Members(g) /\ Writeable(i) THEN Stored(new[i]) ELSE cfg[i]]
            /\ locking' = Locks(new, g)
            /\ UNCHANGED addr
      BY <2>1 DEF WriteCfg
    <3>2. lock' \in [Entries -> BOOLEAN]
      BY <3>1
    <3>3. cfg' \in [Entries -> Configs]
      BY <3>1, StoredType DEF TypeOK
    <3>4. locking' \in BOOLEAN
      BY <3>1 DEF Locks
    <3> QED
      BY <3>1, <3>2, <3>3, <3>4 DEF TypeOK
  <2>2. ASSUME NEW i \in Entries, WriteAddr(i) PROVE TypeOK'
    BY <2>2 DEF WriteAddr, TypeOK
  <2>3. ASSUME Reset PROVE TypeOK'
    BY <2>3 DEF Reset, TypeOK, Off, Configs, Matchings
  <2>4. ASSUME UNCHANGED vars PROVE TypeOK'
    BY <2>4 DEF vars, TypeOK
  <2> QED
    BY <2>1, <2>2, <2>3, <2>4 DEF Next
<1> QED
  BY <1>1, <1>2, PTL DEF Spec

\* No edge clears a lock bit, a reset included.
LEMMA LockStays ==
  ASSUME TypeOK, Next, NEW i \in Entries, lock[i]
  PROVE lock'[i]
<1>1. ASSUME NEW g \in Groups, WriteCfg(g) PROVE lock'[i]
  BY <1>1 DEF WriteCfg, TypeOK
<1>2. ASSUME NEW j \in Entries, WriteAddr(j) PROVE lock'[i]
  BY <1>2 DEF WriteAddr
<1>3. ASSUME Reset PROVE lock'[i]
  BY <1>3 DEF Reset
<1> QED
  BY <1>1, <1>2, <1>3 DEF Next

\* What cannot be written keeps its configuration and its address.
LEMMA ShutStays ==
  ASSUME TypeOK, Next, ~Reset, NEW i \in Entries, ~Writeable(i)
  PROVE cfg'[i] = cfg[i] /\ addr'[i] = addr[i]
<1>1. ASSUME NEW g \in Groups, WriteCfg(g) PROVE cfg'[i] = cfg[i] /\ addr'[i] = addr[i]
  BY <1>1 DEF WriteCfg, TypeOK
<1>2. ASSUME NEW j \in Entries, WriteAddr(j) PROVE cfg'[i] = cfg[i] /\ addr'[i] = addr[i]
  BY <1>2 DEF WriteAddr, TypeOK
<1> QED
  BY <1>1, <1>2 DEF Next

\* A locked entry keeps its configuration, and its range: one that begins at
\* the entry below shields it.
LEMMA LockedKeeps ==
  ASSUME TypeOK, Next, ~Reset, NEW i \in Entries, lock[i]
  PROVE /\ cfg'[i] = cfg[i]
        /\ \A w \in Words : Contains(i, w)' = Contains(i, w)
<1>1. ~Writeable(i)
  BY DEF Writeable
<1>2. cfg'[i] = cfg[i] /\ addr'[i] = addr[i]
  BY <1>1, ShutStays
<1>3. cfg[i].match = "tor" => Base(i)' = Base(i)
  <2> SUFFICES ASSUME cfg[i].match = "tor", i # 0 PROVE addr'[i - 1] = addr[i - 1]
    BY DEF Base
  <2>1. i - 1 \in Entries /\ (i - 1) + 1 = i
    BY PmpAssumption DEF Entries
  <2>2. ~Writeable(i - 1)
    BY <2>1 DEF Writeable, Shields
  <2> QED
    BY <2>1, <2>2, ShutStays
<1> QED
  <2> SUFFICES ASSUME NEW w \in Words PROVE Contains(i, w)' = Contains(i, w)
    BY <1>2
  <2>1. CASE cfg[i].match = "tor"
    BY <1>2, <1>3, <2>1 DEF Contains
  <2>2. CASE cfg[i].match # "tor"
    BY <1>2, <2>2 DEF Contains
  <2> QED
    BY <2>1, <2>2

\* boa_pmp.sv, "Effective writeability of PMPs": what a locked entry says stays
\* as it is until a reset.  The induction needs no more than the types: one
\* edge that finds the lock bit set cannot change the entry.
THEOREM LocksHold == Spec => LockHolds
<1>1. ASSUME TypeOK, Next, ~Reset, NEW i \in Entries, lock[i]
      PROVE  /\ lock'[i] /\ cfg'[i] = cfg[i]
             /\ \A w \in Words : Contains(i, w)' = Contains(i, w)
  BY <1>1, LockStays, LockedKeeps
<1>2. TypeOK /\ [Next]_vars =>
        [~Reset => \A i \in Entries : lock[i] =>
           /\ lock'[i] /\ cfg'[i] = cfg[i]
           /\ \A w \in Words : Contains(i, w)' = Contains(i, w)]_vars
  BY <1>1
<1> QED
  BY <1>2, PmpTypeOK, PTL DEF Spec, LockHolds

\* Without a signal, and with no lock taken behind a shield, no lock is taken.
LEMMA LockBitsAreTold ==
  ASSUME TypeOK, Next, ~locking', NEW i \in Entries, lock'[i] # lock[i]
  PROVE  Shields(i)
<1>1. PICK g \in Groups : WriteCfg(g)
  BY DEF Next, WriteAddr, Reset
<1>2. PICK new \in [Members(g) -> Inputs] :
        /\ lock' = [j \in Entries |-> lock[j] \/ (j \in Members(g) /\ new[j].lock)]
        /\ locking' = Locks(new, g)
  BY <1>1 DEF WriteCfg
<1>3. i \in Members(g) /\ new[i].lock /\ ~lock[i]
  BY <1>2 DEF TypeOK
<1>4. ~Writeable(i)
  BY <1>2, <1>3 DEF Locks
<1> QED
  BY <1>3, <1>4 DEF Writeable

\* boa_pmp.sv, "One of the PMPs is being locked": machine mode is bound by the
\* locked entries alone, these stay as they are, and a new one is signalled.
THEOREM MachineChangesAreTold == Spec => ChangesAreTold
<1>1. ASSUME TypeOK, Next, ~Reset, ~locking', NEW w \in Words,
             ~\E i \in Entries : Shields(i) /\ lock'[i] # lock[i]
      PROVE  Allowed(w, TRUE)' = Allowed(w, TRUE)
  <2>1. \A i \in Entries : lock'[i] = lock[i]
    BY <1>1, LockBitsAreTold
  <2>2. \A i \in Entries : lock[i] => cfg'[i] = cfg[i] /\ Contains(i, w)' = Contains(i, w)
    BY <1>1, LockedKeeps
  <2>3. \A i \in Entries : Applies(i, w, TRUE)' = Applies(i, w, TRUE)
    BY <2>1, <2>2 DEF Applies
  <2>4. \A i \in Entries : Decides(i, w, TRUE)' = Decides(i, w, TRUE)
    BY <2>3 DEF Decides, Entries
  <2>5. {j \in Entries : Decides(j, w, TRUE)}' = {j \in Entries : Decides(j, w, TRUE)}
    BY <2>4
  <2>6. \A i \in {j \in Entries : Decides(j, w, TRUE)} : cfg'[i] = cfg[i]
    BY <2>2 DEF Decides, Applies
  <2>7. (UNION {cfg[i].rights : i \in {j \in Entries : Decides(j, w, TRUE)}})'
          = UNION {cfg[i].rights : i \in {j \in Entries : Decides(j, w, TRUE)}}
    BY <2>5, <2>6
  <2> QED
    BY <2>3, <2>7 DEF Allowed
<1>2. TypeOK /\ [Next]_vars =>
        [~Reset /\ ~(\E i \in Entries : Shields(i) /\ lock'[i] # lock[i]) =>
           \/ locking'
           \/ \A w \in Words : Allowed(w, TRUE)' = Allowed(w, TRUE)]_vars
  BY <1>1
<1> QED
  BY <1>2, PmpTypeOK, PTL DEF Spec, ChangesAreTold

----------------------------------------------------------------------------
(* The machine timer.                                                      *)

\* Trigger and acknowledgement, on both sides, are for the half on the bus.
OfTheBus ==
  /\ cpuWe \subseteq {bus.reg} /\ rtcWe \subseteq {bus.reg}
  /\ rtcAck \subseteq {bus.reg} /\ cpuAck \subseteq {bus.reg}
  /\ bus.reg \in {"lo", "hi"} \/ cpuWe \cup rtcWe \cup rtcAck \cup cpuAck = {}

\* The four phases: the trigger travels to the timer and comes back as the
\* acknowledgement, and then so does its absence.
FourPhases ==
  IF cpuWe # {} THEN cpuAck \subseteq rtcAck /\ rtcAck \subseteq rtcWe
                ELSE rtcWe \subseteq rtcAck /\ rtcAck \subseteq cpuAck

\* When the bus is ready, no trigger or acknowledgement is left on the way.
ReadyAtRest == ready => cpuWe \cup rtcWe \cup rtcAck \cup cpuAck = {}

TimerBusType == bus \in Requests /\ ready \in BOOLEAN

Clean == TimerBusType /\ OfTheBus /\ FourPhases /\ ReadyAtRest

\* The handshake is clean until a write is withdrawn, and again once all its
\* lines have come down.
Handshake == TimerBusType /\ (torn \/ Clean)

LEMMA HandshakeInit == TimerInit => Handshake
BY DEF TimerInit, Handshake, Clean, TimerBusType, OfTheBus, FourPhases, ReadyAtRest

\* What the timer's side of the handshake does at its clock edge.
LEMMA RtcHandshake ==
  ASSUME OfTheBus, RtcEdge
  PROVE  rtcWe' = cpuWe /\ rtcAck' = rtcWe
<1>1. rtcWe \subseteq {"lo", "hi"} /\ rtcWe \subseteq {bus.reg}
  BY DEF OfTheBus
<1>2. rtcAck' = rtcWe
  <2>1. CASE "lo" \in rtcWe
    BY <1>1, <2>1 DEF RtcEdge
  <2>2. CASE "lo" \notin rtcWe /\ "hi" \in rtcWe
    BY <1>1, <2>2 DEF RtcEdge
  <2>3. CASE rtcWe = {}
    BY <2>3 DEF RtcEdge
  <2>4. QED
    BY <1>1, <2>1, <2>2, <2>3
<1>3. QED
  BY <1>2 DEF RtcEdge

\* What the CPU's side does: it triggers, holds the trigger until the
\* acknowledgement, and is ready when both are gone.
LEMMA CpuHandshake ==
  ASSUME Clean, CpuEdge, ~Withdrawn
  PROVE  /\ cpuAck' = rtcAck /\ bus' \in Requests /\ ready' \in BOOLEAN
         /\ bus' = bus \/ ready'
         /\ \/ /\ ~ready' /\ ready /\ bus.reg \in {"lo", "hi"}
               /\ cpuWe' = {bus.reg}
            \/ /\ ~ready /\ bus.reg \in {"lo", "hi"}
               /\ cpuWe' = cpuWe \ cpuAck
               /\ ready' = (cpuWe = {} /\ cpuAck = {})
            \/ /\ cpuWe \cup rtcWe \cup rtcAck \cup cpuAck = {}
               /\ ready' /\ cpuWe' = cpuWe
<1>1. /\ cpuAck' = rtcAck
      /\ bus' = bus \/ (ready' /\ bus' \in Requests)
  BY DEF CpuEdge
<1>2. CASE bus.reg = "none"
  <2>1. cpuWe \cup rtcWe \cup rtcAck \cup cpuAck = {}
    BY <1>2 DEF Clean, OfTheBus
  <2>2. QED
    BY <1>1, <1>2, <2>1 DEF CpuEdge, Clean, TimerBusType
<1>3. CASE bus.reg # "none" /\ ~ready
  <2>1. cpuWe' = cpuWe \ cpuAck /\ ready' = (cpuWe = {} /\ cpuAck = {})
    BY <1>3 DEF CpuEdge, Wait
  <2>2. CASE bus.reg \in {"lo", "hi"}
    BY <1>1, <1>3, <2>1, <2>2 DEF Clean, TimerBusType
  <2>3. CASE cpuWe \cup rtcWe \cup rtcAck \cup cpuAck = {}
    BY <1>1, <1>3, <2>1, <2>3 DEF Clean, TimerBusType
  <2>4. QED
    BY <2>2, <2>3 DEF Clean, OfTheBus
<1>4. CASE bus.reg # "none" /\ ready
  <2>1. cpuWe \cup rtcWe \cup rtcAck \cup cpuAck = {}
    BY <1>4 DEF Clean, ReadyAtRest
  <2>2. CASE bus.reg \in {"lo", "hi"}
    <3>1. cpuWe' = {bus.reg} /\ ready' = FALSE
      BY <1>4, <2>1, <2>2 DEF CpuEdge, Accept
    <3>2. QED
      BY <1>1, <1>4, <2>2, <3>1 DEF Clean, TimerBusType
  <2>3. CASE bus.reg \notin {"lo", "hi"}
    <3>1. cpuWe' = cpuWe /\ ready' = TRUE
      BY <1>4, <2>3 DEF CpuEdge, Accept
    <3>2. QED
      BY <1>1, <2>1, <3>1 DEF Clean, TimerBusType
  <2>4. QED
    BY <2>2, <2>3
<1>5. QED
  BY <1>2, <1>3, <1>4 DEF Clean, TimerBusType

LEMMA RtcOnlyStep == ASSUME Clean, RtcOnly PROVE Clean'
<1>1. rtcWe' = cpuWe /\ rtcAck' = rtcWe /\ UNCHANGED <<cpuWe, cpuAck, ready, bus>>
  BY RtcHandshake DEF RtcOnly, cpuVars, Clean
<1>2. TimerBusType'
  BY <1>1 DEF Clean, TimerBusType
<1>3. OfTheBus' /\ FourPhases' /\ ReadyAtRest'
  BY <1>1 DEF Clean, OfTheBus, FourPhases, ReadyAtRest
<1>4. QED
  BY <1>2, <1>3 DEF Clean

\* The CPU's edge keeps the invariant, with the timer's edge or without it.
LEMMA CpuStep ==
  ASSUME Clean, CpuEdge, ~Withdrawn,
         \/ UNCHANGED <<rtcWe, rtcAck>>
         \/ rtcWe' = cpuWe /\ rtcAck' = rtcWe
  PROVE  Clean'
<1>1. TimerBusType'
  BY CpuHandshake DEF TimerBusType
<1>2. cpuAck' = rtcAck /\ (bus' = bus \/ ready')
  BY CpuHandshake
<1>3. CASE ~ready' /\ ready /\ bus.reg \in {"lo", "hi"} /\ cpuWe' = {bus.reg}
  <2>1. rtcWe' = {} /\ rtcAck' = {} /\ cpuAck' = {} /\ bus' = bus
    BY <1>2, <1>3 DEF Clean, ReadyAtRest
  <2>2. QED
    BY <1>1, <1>3, <2>1 DEF Clean, OfTheBus, FourPhases, ReadyAtRest
<1>4. CASE /\ ~ready /\ bus.reg \in {"lo", "hi"} /\ cpuWe' = cpuWe \ cpuAck
           /\ ready' = (cpuWe = {} /\ cpuAck = {})
  <2>1. CASE ready'
    <3>1. cpuWe = {} /\ cpuAck = {} /\ rtcWe = {} /\ rtcAck = {}
      BY <1>4, <2>1 DEF Clean, FourPhases
    <3>2. cpuWe' = {} /\ cpuAck' = {} /\ rtcWe' = {} /\ rtcAck' = {}
      BY <1>2, <1>4, <3>1
    <3>3. QED
      BY <1>1, <3>2 DEF Clean, OfTheBus, FourPhases, ReadyAtRest
  <2>2. CASE ~ready'
    <3>1. bus' = bus
      BY <1>2, <2>2
    <3>2. OfTheBus'
      BY <1>2, <1>4, <3>1 DEF Clean, OfTheBus
    <3>3. FourPhases'
      BY <1>2, <1>4, <3>1 DEF Clean, OfTheBus, FourPhases
    <3>4. QED
      BY <1>1, <2>2, <3>2, <3>3 DEF Clean, ReadyAtRest
  <2>3. QED
    BY <2>1, <2>2
<1>5. CASE cpuWe \cup rtcWe \cup rtcAck \cup cpuAck = {} /\ ready' /\ cpuWe' = cpuWe
  <2>1. cpuWe' = {} /\ cpuAck' = {} /\ rtcWe' = {} /\ rtcAck' = {}
    BY <1>2, <1>5
  <2>2. QED
    BY <1>1, <2>1 DEF Clean, OfTheBus, FourPhases, ReadyAtRest
<1>6. QED
  BY <1>3, <1>4, <1>5, CpuHandshake

\* The bus carries a request after every step, withdrawn or not.
LEMMA BusTypeStep ==
  ASSUME TimerBusType, [TimerNext]_timerVars
  PROVE  TimerBusType'
<1>1. CASE CpuEdge
  <2>1. ready' = (cpuWe = {} /\ cpuAck = {}) \/ ready' = TRUE \/ ready' = FALSE
    BY <1>1, Zenon DEF CpuEdge, Wait, Accept
  <2>2. bus' \in Requests
    BY <1>1 DEF CpuEdge, TimerBusType
  <2>3. ready' \in BOOLEAN
    BY <2>1
  <2>4. QED
    BY <2>2, <2>3 DEF TimerBusType
<1>2. CASE UNCHANGED cpuVars
  BY <1>2 DEF cpuVars, TimerBusType
<1>3. QED
  BY <1>1, <1>2 DEF TimerNext, CpuOnly, RtcOnly, Both, timerVars

LEMMA HandshakeStep == ASSUME Handshake, [TimerNext]_timerVars PROVE Handshake'
<1>1. TimerBusType'
  BY BusTypeStep DEF Handshake
<1>2. CASE torn'
  BY <1>1, <1>2 DEF Handshake
<1>3. CASE Lines' = {}
  <2>1. cpuWe' = {} /\ rtcWe' = {} /\ rtcAck' = {} /\ cpuAck' = {}
    BY <1>3 DEF Lines
  <2>2. Clean'
    BY <1>1, <2>1 DEF Clean, OfTheBus, FourPhases, ReadyAtRest
  <2>3. QED
    BY <1>1, <2>2 DEF Handshake
<1>4. CASE ~torn' /\ Lines' # {}
  <2>1. CASE CpuOnly
    <3>1. ~torn /\ ~Withdrawn
      BY <1>4, <2>1 DEF CpuOnly
    <3>2. Clean'
      BY <2>1, <3>1, CpuStep DEF CpuOnly, rtcVars, Handshake
    <3>3. QED
      BY <1>1, <3>2 DEF Handshake
  <2>2. CASE RtcOnly
    <3>1. ~torn
      BY <1>4, <2>2 DEF RtcOnly
    <3>2. Clean'
      BY <2>2, <3>1, RtcOnlyStep DEF Handshake
    <3>3. QED
      BY <1>1, <3>2 DEF Handshake
  <2>3. CASE Both
    <3>1. ~torn /\ ~Withdrawn
      BY <1>4, <2>3 DEF Both
    <3>2. Clean'
      BY <2>3, <3>1, CpuStep, RtcHandshake DEF Both, Handshake, Clean
    <3>3. QED
      BY <1>1, <3>2 DEF Handshake
  <2>4. CASE UNCHANGED timerVars
    <3>1. ~torn
      BY <1>4, <2>4 DEF timerVars
    <3>2. Clean'
      BY <2>4, <3>1 DEF timerVars, rtcVars, cpuVars, Handshake, Clean, TimerBusType,
         OfTheBus, FourPhases, ReadyAtRest
    <3>3. QED
      BY <1>1, <3>2 DEF Handshake
  <2>5. QED
    BY <2>1, <2>2, <2>3, <2>4 DEF TimerNext
<1>5. QED
  BY <1>2, <1>3, <1>4

\* Trigger and acknowledgement of boa_mtime are a four-phase handshake for
\* the write that is on the bus, until an exception withdraws a write and
\* again as soon as all lines have come down after that.
THEOREM HandshakeInvariant == TimerSpec => []Handshake
<1>1. Handshake /\ [TimerNext]_timerVars => Handshake'
  BY HandshakeStep
<1>2. QED
  BY <1>1, HandshakeInit, PTL DEF TimerSpec

\* rtc_clk's domain takes data off the bus only for the write that triggered
\* it: the CPU's domain releases the bus after the acknowledgement is gone.
\* Writes that an exception withdraws are part of the specification; what they
\* break ends when the lines have come down.
THEOREM WritesOwnDataCorrect == TimerSpec => WritesOwnData
<1>1. Handshake =>
        [RtcEdge /\ ~torn => \A half \in rtcWe : bus.reg = half]_<<rtcVars, rtcAck>>
  BY DEF Handshake, Clean, OfTheBus
<1>2. QED
  BY <1>1, HandshakeInvariant, PTL DEF WritesOwnData

----------------------------------------------------------------------------
(* The memory demultiplexer.                                               *)

USE DEF Ports

\* The types of what one cycle computes.
LEMMA PresentedType ==
  ASSUME NEW b \in Presented
  PROVE  /\ b \in [Ports -> Addrs \cup {NoReq}]
         /\ slave = "busy" => \A x \in Ports : Waiting(x) => b[x] = pend[x]
         /\ Requesting(b) \subseteq Ports
BY DEF Presented, Requesting

\* The scan of boa_arbiter_rr stops at one requester at most: of two ports it
\* would choose, the one nearer to the custodian hides the other.
LEMMA RROne ==
  ASSUME NEW x \in Ports, cur = {x}, NEW req \in SUBSET Ports,
         NEW i \in NextRR(req), NEW j \in NextRR(req), ~hold
  PROVE  i = j
<1>1. i \in req /\ i \in Ports /\ j \in req /\ j \in Ports
  BY DEF NextRR, AfterCur
<1>2. PICK d \in 1 .. N : /\ Before(i, d) = x
                          /\ \A e \in 1 .. d - 1 : Before(i, e) \notin req
  BY DEF NextRR, AfterCur
<1>3. PICK f \in 1 .. N : /\ Before(j, f) = x
                          /\ \A e \in 1 .. f - 1 : Before(j, e) \notin req
  BY DEF NextRR, AfterCur
<1>4. N \in Nat /\ N >= 2
  BY NAssumption
<1>5. CASE d = f
  BY <1>1, <1>2, <1>3, <1>4, <1>5 DEF Before
<1>6. CASE d < f
  <2>1. f - d \in 1 .. f - 1 /\ Before(j, f - d) = i
    BY <1>1, <1>2, <1>3, <1>4, <1>6 DEF Before
  <2>2. QED
    BY <2>1, <1>1, <1>3
<1>7. CASE f < d
  <2>1. d - f \in 1 .. d - 1 /\ Before(i, d - f) = j
    BY <1>1, <1>2, <1>3, <1>4, <1>7 DEF Before
  <2>2. QED
    BY <2>1, <1>1, <1>2
<1>8. QED
  BY <1>4, <1>5, <1>6, <1>7

\* The next custodian is one port or none; none only if the current one does
\* not request.
LEMMA NextCpuOne ==
  ASSUME Arbiter = "rr", NEW x \in Ports, cur = {x}, hold \in BOOLEAN,
         NEW req \in SUBSET Ports
  PROVE  /\ NextCpu(req) = {} \/ \E y \in Ports : NextCpu(req) = {y}
         /\ x \in req => NextCpu(req) = {x}
<1>1. CASE x \in req \/ hold
  BY <1>1 DEF NextCpu, NextArb, NextRR
<1>2. CASE x \notin req /\ ~hold
  <2>1. NextCpu(req) = NextRR(req)
    BY <1>2 DEF NextCpu, NextArb
  <2>2. NextRR(req) \subseteq Ports
    BY <1>2 DEF NextRR, AfterCur
  <2>3. \A i, j \in NextRR(req) : i = j
    BY <1>2, RROne
  <2>4. QED
    BY <1>2, <2>1, <2>2, <2>3
<1>3. QED
  BY <1>1, <1>2

LEMMA DemuxInitInv == DemuxInit => DemuxInv
<1> SUFFICES ASSUME DemuxInit PROVE DemuxInv
  OBVIOUS
<1> USE NAssumption, MaxWaitAssumption DEF DemuxInit
<1>1. DemuxTypeOK
  <2>1. hold \in BOOLEAN
    BY Zenon
  <2>2. QED
    BY <2>1 DEF DemuxTypeOK
<1>2. OneCustodian
  BY DEF OneCustodian
<1>3. BusyForCustodian
  BY DEF BusyForCustodian
<1>4. QED
  BY <1>1, <1>2, <1>3 DEF DemuxInv

LEMMA LatchStep ==
  ASSUME Arbiter = "rr", DemuxInv, NEW b \in Presented, Arbitrate(b), Latch(b),
         slave' = slave
  PROVE  DemuxInv'
<1> DEFINE req == Requesting(b)
           served == NextCpu(req)
           active == served \cap req
<1> USE DEF DemuxInv
<1>1. PICK x \in Ports : cur = {x}
  BY DEF OneCustodian
<1>2. hold \in BOOLEAN /\ req \in SUBSET Ports
  BY PresentedType DEF DemuxTypeOK
<1>3. /\ served = {} \/ \E y \in Ports : served = {y}
      /\ x \in req => served = {x}
  BY <1>1, <1>2, NextCpuOne
<1>4. PICK y \in Ports : cur' = {y} /\ (served = {} \/ served = {y})
  BY <1>1, <1>3 DEF Arbitrate
<1>5. lat' \in IF active = {} THEN {{}}
              ELSE {{b[z] : z \in active} \cup {idle[z] : z \in served \ active} :
                      idle \in [served \ active -> Addrs]}
  BY DEF Latch, OnBus
<1>6. b \in [Ports -> Addrs \cup {NoReq}] /\ pend' = b
  BY PresentedType DEF Arbitrate
<1>7. CASE y \in active
  <2>1. served = {y} /\ active = {y} /\ b[y] \in Addrs
    BY <1>4, <1>6, <1>7 DEF Requesting
  <2>2. lat' = {b[y]}
    <3>1. PICK idle \in [served \ active -> Addrs] :
            lat' = {b[z] : z \in active} \cup {idle[z] : z \in served \ active}
      BY <1>5, <2>1
    <3>2. QED
      BY <2>1, <3>1
  <2>3. wait' \in 0 .. MaxWait
    BY <2>2, MaxWaitAssumption DEF Latch, MemReady, DemuxTypeOK
  <2>4. DemuxTypeOK'
    BY <1>4, <1>6, <2>1, <2>2, <2>3 DEF DemuxTypeOK, Arbitrate
  <2>5. OneCustodian'
    BY <1>4 DEF OneCustodian
  <2>6. BusyForCustodian'
    BY <1>4, <1>6, <2>1, <2>2, NoReqAssumption DEF BusyForCustodian
  <2>7. QED
    BY <2>4, <2>5, <2>6
<1>8. CASE y \notin active
  <2>1. active = {} /\ lat' = {}
    BY <1>4, <1>5, <1>8
  <2>2. y \notin req
    <3>1. CASE served = {}
      BY <1>1, <1>3, <1>4, <3>1 DEF Arbitrate
    <3>2. CASE served = {y}
      BY <1>8, <3>2
    <3>3. QED
      BY <1>4, <3>1, <3>2
  <2>3. b[y] = NoReq /\ wait' = 0
    BY <2>1, <2>2 DEF Requesting, Latch
  <2>4. DemuxTypeOK'
    BY <1>4, <1>6, <2>1, <2>3, MaxWaitAssumption DEF DemuxTypeOK, Arbitrate
  <2>5. OneCustodian'
    BY <1>4 DEF OneCustodian
  <2>6. BusyForCustodian'
    BY <1>4, <1>6, <2>3 DEF BusyForCustodian
  <2>7. QED
    BY <2>4, <2>5, <2>6
<1>9. QED
  BY <1>7, <1>8

\* While the memory is busy its custodian waits, hence repeats its request
\* and keeps custody.
LEMMA BusyStep ==
  ASSUME Arbiter = "rr", DemuxInv, NEW b \in Presented, Arbitrate(b), Busy,
         slave' = slave
  PROVE  DemuxInv'
<1> USE DEF DemuxInv
<1>1. PICK x \in Ports : cur = {x} /\ pend[x] # NoReq
  BY DEF OneCustodian, BusyForCustodian, Busy, MemReady, DemuxTypeOK
<1>2. b \in [Ports -> Addrs \cup {NoReq}] /\ b[x] = pend[x] /\ pend' = b
  BY <1>1, PresentedType DEF Waiting, Ready, Busy, Arbitrate
<1>3. x \in Requesting(b)
  BY <1>1, <1>2 DEF Requesting
<1>4. cur' = {x}
  BY <1>1, <1>3 DEF Arbitrate, NextCpu
<1>5. DemuxTypeOK'
  <2>1. hold' \in BOOLEAN
    BY Zenon DEF Arbitrate
  <2>2. wait' \in 0 .. MaxWait /\ lat' \in SUBSET Addrs
    BY MaxWaitAssumption DEF DemuxTypeOK, Busy, MemReady
  <2>3. QED
    BY <1>2, <1>4, <2>1, <2>2 DEF DemuxTypeOK
<1>6. OneCustodian'
  BY <1>4 DEF OneCustodian
<1>7. BusyForCustodian'
  BY <1>1, <1>2, <1>4 DEF BusyForCustodian, Busy
<1>8. QED
  BY <1>5, <1>6, <1>7

LEMMA DemuxStep ==
  ASSUME Arbiter = "rr", DemuxInv, [DemuxNext]_demuxVars
  PROVE  DemuxInv'
<1>1. CASE Clock
  BY <1>1, LatchStep, BusyStep DEF Clock
<1>2. CASE DemuxReset
  <2> USE <1>2, NAssumption, MaxWaitAssumption DEF DemuxReset
  <2>1. DemuxTypeOK'
    <3>1. hold' \in BOOLEAN
      BY Zenon
    <3>2. slave' \in {"samples", "busy"}
      BY DEF DemuxInv, DemuxTypeOK
    <3>3. QED
      BY <3>1, <3>2 DEF DemuxTypeOK
  <2>2. OneCustodian'
    BY DEF OneCustodian
  <2>3. BusyForCustodian'
    BY DEF BusyForCustodian
  <2>4. QED
    BY <2>1, <2>2, <2>3 DEF DemuxInv
<1>3. CASE UNCHANGED demuxVars
  BY <1>3 DEF demuxVars, DemuxInv, DemuxTypeOK, OneCustodian, BusyForCustodian
<1>4. QED
  BY <1>1, <1>2, <1>3 DEF DemuxNext

\* With the round-robin arbiter the inductive invariant holds of every
\* reachable state of boa_mem_demux.
THEOREM DemuxInvariant ==
  ASSUME Arbiter = "rr"
  PROVE  DemuxSpec => []DemuxInv
BY DemuxInitInv, DemuxStep, PTL DEF DemuxSpec

\* With the round-robin arbiter exactly one master has custody of the memory
\* bus (boa_mem_demux.cur is one-hot), whatever the masters request.
THEOREM RoundRobinOneCustodian ==
  ASSUME Arbiter = "rr"
  PROVE  DemuxSpec => []OneCustodian
<1>1. DemuxInv => OneCustodian
  BY DEF DemuxInv
<1>2. QED
  BY <1>1, DemuxInvariant, PTL

\* With the round-robin arbiter a master that sees ready gets the answer to
\* its own request.
THEOREM RoundRobinAnswerIsMine ==
  ASSUME Arbiter = "rr"
  PROVE  DemuxSpec => []AnswerIsMine
<1>1. DemuxInv => AnswerIsMine
  BY DEF DemuxInv, BusyForCustodian, AnswerIsMine, Ready
<1>2. QED
  BY <1>1, DemuxInvariant, PTL
=============================================================================

------------------------------ MODULE BoaCache ------------------------------
(***************************************************************************)
(* dev/hdl/mem/cache.sv, clock by clock: a write-back cache between a      *)
(* requester and an external memory with wait states.                      *)
(*                                                                         *)
(* Addresses are those of words.  Of the data it is only told apart what   *)
(* belongs to one address, `watched', which is any: all other words hold   *)
(* Other, and keep it when they are written.                               *)
(***************************************************************************)
EXTENDS Integers, FiniteSets

CONSTANTS
  Lines, LineSize, \* Cache lines per way, words per line.
  Tags,            \* Number of tags.
  Used,            \* The addresses the requester uses.
  Repeating,       \* The values of writeable for which it repeats a request until
                   \* it is answered.
  MaxWait,         \* Bound on the wait states of the external memory.
  Flushes,         \* What may be asked of flush_r, flush_w, pi_en and pi_addr of a
                   \* cache that is not writeable, and of one that is.
  Stalls           \* Values of stall.

Ways == 2
Way == 0 .. Ways - 1
Line == 0 .. Lines - 1
Slots == 0 .. Lines * LineSize - 1           \* Addresses of cache_ram.
Addr == 0 .. Tags * Lines * LineSize - 1

ASSUME CacheAssumption ==
  /\ {Lines, LineSize, Tags} \subseteq Nat \ {0} /\ Used \subseteq Addr /\ MaxWait \in Nat
  /\ Repeating \subseteq BOOLEAN /\ Stalls \subseteq BOOLEAN
  /\ \A kind \in BOOLEAN :
       Flushes[kind] \subseteq [r : BOOLEAN, w : BOOLEAN, pi : BOOLEAN, addr : Addr]

Word(a) == a % LineSize
Base(a) == a - Word(a)
Slot(a) == a % (Lines * LineSize)
LineOf(a) == Slot(a) \div LineSize
TagOf(a) == a \div (Lines * LineSize)
AddrOf(tag, line) == (tag * Lines + line) * LineSize

Other == 2
Junk == 3   \* What is in cache_ram before anything was written.

VARIABLES
  ab,      \* The access buffer: ab_re, ab_we, ab_addr, ab_wdata.
  stalled, \* ab_stall.
  fl,      \* fl_r, fl_w, fl_pi, fl_line, fl_way, fl_addr.
  tags,    \* tag_ram.
  rtags,   \* tag_rdata.
  data,    \* cache_ram.
  rdata,   \* cache_rdata.
  xm,      \* xm_to_cache, cache_to_xm, pcache_to_xm, xm_addr, cm_addr, xm_paddr,
           \* cm_paddr, xm_way, xm_pwdata.
  ext,     \* The external memory, its wait states left, its read data.
  writeable, \* The parameter: FALSE at the instruction cache, TRUE at the data cache.
  watched, \* The address whose data are told apart.
  latest   \* History: what the requester wrote there last.

vars == <<ab, stalled, fl, tags, rtags, data, rdata, xm, ext, writeable, watched, latest>>

Expected(a) == IF a = watched THEN latest ELSE Other

----------------------------------------------------------------------------
(* Tags.                                                                   *)

Flushing == fl.r \/ fl.w
Accessing == ab.op # "none"

Sought == TagOf(IF Flushing /\ fl.pi THEN fl.addr ELSE ab.addr)
Matches == {w \in Way : rtags.way[w].valid /\ rtags.way[w].addr = Sought}
tag_valid == Matches # {}
tag_way == IF 1 \in Matches THEN 1 ELSE 0

Victim == rtags.next
Evicts == rtags.way[Victim].dirty
FlushWay == IF fl.pi THEN tag_way ELSE fl.way
FlushLine == IF fl.pi THEN LineOf(fl.addr) ELSE fl.line
FlushEnd == fl.pi \/ (fl.way = Ways - 1 /\ fl.line = Lines - 1)

xm_ready == ext.wait = 0
\* A transfer, or its last write, is under way.
Transferring == xm.to_cache \/ xm.to_xm \/ (xm.was /\ ~xm_ready)

\* One way's tag is written, and with it all of its line's as they were read.
Tagged(line, w, valid, dirty, addr, next) ==
  [tags EXCEPT ![line] =
     [way |-> [rtags.way EXCEPT ![w] = [valid |-> valid, dirty |-> dirty, addr |-> addr]],
      next |-> next]]

\* Fault for the checks: a write does not mark its line as dirty.
WroteTagClean == tags
WroteTag == Tagged(LineOf(ab.addr), tag_way, TRUE, TRUE, TagOf(ab.addr), rtags.next)

\* Fault for the checks: an evicted line stays dirty.
EvictedTagDirty ==
  Tagged(LineOf(ab.addr), Victim, TRUE, TRUE, rtags.way[Victim].addr, Victim)
EvictedTag ==
  Tagged(LineOf(ab.addr), Victim, TRUE, FALSE, rtags.way[Victim].addr, Victim)

\* tag_ram after the clock.
NewTags ==
  IF Transferring THEN tags
  ELSE IF Flushing THEN
    IF fl.pi /\ ~tag_valid THEN tags
    ELSE Tagged(FlushLine, FlushWay, ~fl.r, FALSE, rtags.way[FlushWay].addr, rtags.next)
  ELSE IF tag_valid THEN IF ab.op = "write" THEN WroteTag ELSE tags
  ELSE IF ~Accessing THEN tags
  ELSE IF Evicts THEN EvictedTag
  ELSE Tagged(LineOf(ab.addr), Victim, TRUE, FALSE, TagOf(ab.addr), (Victim + 1) % Ways)

\* cache_ram after the clock.
NewData ==
  IF xm.to_cache THEN IF xm_ready THEN [data EXCEPT ![xm.cm][xm.way] = ext.rdata] ELSE data
  ELSE IF ab.op = "write" /\ tag_valid /\ ~Transferring /\ ~Flushing
       THEN [data EXCEPT ![Slot(ab.addr)][tag_way] = ab.data]
  ELSE data

----------------------------------------------------------------------------
(* The buses.                                                              *)

\* Fault for the checks: a line answers before it has been filled.
ReadyEarly ==
  IF Flushing \/ xm.to_xm THEN ~Accessing ELSE Accessing => tag_valid /\ ~stalled
\* bus.ready.
Ready ==
  IF Flushing \/ xm.to_cache \/ xm.to_xm THEN ~Accessing
  ELSE Accessing => tag_valid /\ ~stalled

Idle == [op |-> "none", addr |-> 0, data |-> Other]

\* What is on xm_bus while bus is on the other.
XmBus(bus) ==
  IF xm.to_cache THEN
    [op |-> IF ~xm_ready \/ Word(xm.addr) # 0 THEN "read" ELSE "none",
     addr |-> IF xm_ready THEN xm.addr ELSE xm.paddr, data |-> Other]
  ELSE IF Transferring THEN
    [op |-> "write", addr |-> IF xm_ready THEN xm.addr ELSE xm.paddr,
     data |-> IF xm_ready THEN rdata[xm.way] ELSE xm.pwdata]
  ELSE IF ~Flushing /\ Accessing /\ ~tag_valid /\ ~Evicts THEN
    [op |-> "read", addr |-> Base(bus.addr), data |-> Other]
  ELSE Idle

TagRaddr(bus) ==
  IF Flushing /\ ~FlushEnd THEN (fl.line + IF fl.way = Ways - 1 THEN 1 ELSE 0) % Lines
  ELSE LineOf(bus.addr)

CacheRaddr(bus) ==
  IF xm.was /\ ~xm_ready THEN xm.pcm
  ELSE IF xm.to_xm /\ Word(xm.cm) # 0 THEN IF xm_ready THEN xm.cm ELSE xm.pcm
  ELSE IF fl.w /\ rtags.way[FlushWay].dirty THEN IF fl.pi THEN Slot(fl.addr) ELSE fl.line
  ELSE IF Accessing /\ ~tag_valid /\ Evicts THEN xm.cm
  ELSE Slot(bus.addr)

----------------------------------------------------------------------------
(* Registers.                                                              *)

\* An invalidation makes progress unless a transfer does.
Invalidating == Flushing /\ ~Transferring

NextFl(flush) ==
  IF Invalidating THEN
    [fl EXCEPT !.r = fl.r /\ ~FlushEnd, !.w = fl.w /\ ~FlushEnd,
               !.line = IF fl.way = Ways - 1 THEN (fl.line + 1) % Lines ELSE fl.line,
               !.way = (fl.way + 1) % Ways]
  ELSE IF ~Flushing /\ (flush.r \/ (flush.w /\ (flush.pi \/ writeable))) THEN
    [r |-> flush.r, w |-> flush.w, pi |-> flush.pi, line |-> 0, way |-> 0, addr |-> flush.addr]
  ELSE fl

Advanced(bus) == Base(XmBus(bus).addr) + ((Word(xm.addr) + 1) % LineSize)
CmAdvanced(bus) == Base(CacheRaddr(bus)) + ((Word(xm.cm) + 1) % LineSize)
\* Where the victim goes in external memory.
WriteBack == AddrOf(rtags.way[Victim].addr, LineOf(ab.addr))

\* The state machine.
NextXm(bus) ==
  LET was == xm.to_xm \/ (xm.was /\ ~xm_ready)
      moved == [xm EXCEPT !.was = was, !.paddr = XmBus(bus).addr, !.pcm = CacheRaddr(bus)]
  IN IF ~xm_ready /\ Transferring THEN [xm EXCEPT !.was = was]
     ELSE IF xm.to_cache THEN
       [moved EXCEPT !.to_cache = Word(xm.addr) # 0,
                     !.addr = IF Word(xm.addr) # 0 THEN Advanced(bus) ELSE Base(bus.addr),
                     !.cm = CmAdvanced(bus)]
     ELSE IF xm.to_xm THEN
       [moved EXCEPT !.to_xm = Word(xm.cm) # 0, !.addr = Advanced(bus),
                     !.cm = IF Word(xm.cm) # 0 THEN CmAdvanced(bus) ELSE Base(Slot(bus.addr)),
                     !.pwdata = XmBus(bus).data]
     ELSE IF Flushing THEN
       IF fl.w /\ rtags.way[FlushWay].dirty
       THEN [moved EXCEPT !.to_xm = TRUE, !.way = FlushWay, !.addr = WriteBack,
                          !.cm = CmAdvanced(bus)]
       ELSE moved
     ELSE IF Accessing /\ ~tag_valid /\ ~stalled THEN
       IF Evicts
       THEN [moved EXCEPT !.to_xm = TRUE, !.way = Victim, !.addr = WriteBack,
                          !.cm = CmAdvanced(bus)]
       ELSE [moved EXCEPT !.to_cache = TRUE, !.way = Victim, !.addr = Advanced(bus),
                          !.cm = Base(Slot(ab.addr))]
     ELSE [moved EXCEPT !.addr = Base(bus.addr), !.cm = Base(Slot(bus.addr))]

----------------------------------------------------------------------------
(* The requester and the external memory.                                  *)

\* Without a request any address is on the bus.
Request ==
  [op : {"none", "read"}, addr : Used, data : {Other}]
    \cup IF writeable THEN [op : {"write"}, addr : Used, data : {0, 1, Other}] ELSE {}
Requests ==
  {bus \in Request :
     /\ bus.op = "write" => (bus.data = Other <=> bus.addr # watched)
     /\ writeable \in Repeating /\ ~Ready => bus = ab}

Extern(bus) ==
  LET q == XmBus(bus) IN
  IF ~xm_ready THEN ext' = [ext EXCEPT !.wait = ext.wait - 1]
  ELSE \E n \in 0 .. IF q.op = "none" THEN 0 ELSE MaxWait :
         ext' = [wait |-> n,
                 mem |-> IF q.op = "write" THEN [ext.mem EXCEPT ![q.addr] = q.data] ELSE ext.mem,
                 rdata |-> IF q.op = "read" THEN ext.mem[q.addr] ELSE Other]

\* A flush of reads alone discards what was written.
Remember ==
  latest' = IF ab.op = "write" /\ Ready /\ ab.addr = watched THEN ab.data
            ELSE IF Invalidating /\ FlushEnd /\ fl.r /\ ~fl.w THEN ext.mem[watched]
            ELSE latest

NoFlush == [r |-> FALSE, w |-> FALSE, pi |-> FALSE, addr |-> 0]
NoTags == [way |-> [w \in Way |-> [valid |-> FALSE, dirty |-> FALSE, addr |-> 0]], next |-> 0]
PowerUp(line, way) ==
  [r |-> TRUE, w |-> FALSE, pi |-> FALSE, line |-> line, way |-> way, addr |-> 0]

\* After the reset of power-up, which starts an invalidation at any place.
Init ==
  /\ writeable \in BOOLEAN /\ watched \in Used /\ latest = 0
  /\ ab = Idle /\ stalled = FALSE
  /\ fl \in {PowerUp(line, way) : line \in Line, way \in Way}
  /\ tags = [line \in Line |-> NoTags] /\ rtags = NoTags
  /\ data = [slot \in Slots |-> [w \in Way |-> Junk]] /\ rdata = [w \in Way |-> Junk]
  /\ xm = [to_cache |-> FALSE, to_xm |-> FALSE, was |-> FALSE, addr |-> 0, cm |-> 0,
           paddr |-> 0, pcm |-> 0, way |-> 0, pwdata |-> Other]
  /\ ext = [mem |-> [a \in Addr |-> IF a = watched THEN 0 ELSE Other], wait |-> 0, rdata |-> Other]

Clock(bus, flush) ==
  /\ ab' = bus /\ stalled' \in Stalls
  /\ fl' = NextFl(flush)
  /\ tags' = NewTags /\ rtags' = NewTags[TagRaddr(bus)]
  /\ data' = NewData /\ rdata' = NewData[CacheRaddr(bus)]
  /\ xm' = NextXm(bus)
  /\ Extern(bus) /\ Remember
  /\ UNCHANGED <<writeable, watched>>

Next == \E bus \in Requests, flush \in Flushes[writeable] \cup {NoFlush} : Clock(bus, flush)
Spec == Init /\ [][Next]_vars
FairSpec == Spec /\ WF_vars(Next)

----------------------------------------------------------------------------
(* Properties.                                                             *)

\* A read is answered with what was written last.
ReadsLatest == ab.op = "read" /\ Ready => rdata[tag_way] = Expected(ab.addr)

Resident(a) ==
  \E w \in Way : tags[LineOf(a)].way[w].valid /\ tags[LineOf(a)].way[w].addr = TagOf(a)

\* Between transfers a valid entry holds its address's data, no two do, and what
\* is not dirty or not there is in external memory: "The valid flag indicates the
\* cache entry contains valid data", the dirty flag that it was written to.
TagsTrue ==
  ~Transferring /\ ~Flushing =>
    /\ \A line \in Line, w \in Way :
         LET tag == tags[line].way[w] a(k) == AddrOf(tag.addr, line) + k IN
         tag.valid => \A k \in 0 .. LineSize - 1 :
           /\ data[Slot(a(k))][w] = Expected(a(k))
           /\ tag.dirty \/ ext.mem[a(k)] = Expected(a(k))
           /\ \A v \in Way \ {w} : tags[line].way[v].valid => tags[line].way[v].addr # tag.addr
    /\ \A a \in Addr : Resident(a) \/ ext.mem[a] = Expected(a)

\* An invalidation comes to its end, and unless there is one again and again every
\* request is answered.
Answered == []<>~Flushing /\ (<>[]~Flushing => []<>Ready)
=============================================================================

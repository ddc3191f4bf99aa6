-------------------------- MODULE BoaCacheProofs ---------------------------
(***************************************************************************)
(* The write-back cache, for every number of lines, of words in a line and *)
(* of tags, every set of addresses used and any wait states: what is read  *)
(* was written last, and the tags tell the truth.                          *)
(*                                                                         *)
(* A line is moved word by word while its tag says already what will be    *)
(* true at the end.  The invariant says how far a transfer has come, and   *)
(* exempts the words still to be moved from what the tags promise.         *)
(***************************************************************************)
EXTENDS BoaCache, TLAPS

----------------------------------------------------------------------------
(* Addresses: tag, line and word.                                          *)

\* The words of a line.
Words == 0 .. LineSize - 1

LEMMA Positive ==
  /\ Lines \in Nat /\ Lines >= 1 /\ LineSize \in Nat /\ LineSize >= 1
  /\ Tags \in Nat /\ Tags >= 1
BY CacheAssumption

\* Quotient and remainder of a number made of both.
LEMMA Division ==
  ASSUME NEW d \in Nat, d >= 1, NEW q \in Nat, NEW r \in 0 .. d - 1
  PROVE  (q * d + r) \div d = q /\ (q * d + r) % d = r
OBVIOUS

\* A number is made of its quotient and remainder.
LEMMA Divided ==
  ASSUME NEW d \in Nat, d >= 1, NEW a \in Nat
  PROVE  a \div d \in Nat /\ a % d \in 0 .. d - 1 /\ a = (a \div d) * d + (a % d)
OBVIOUS

\* Of n rows of d places, place r of row q.
LEMMA Rows ==
  ASSUME NEW d \in Nat, d >= 1, NEW n \in Nat, NEW q \in 0 .. n - 1, NEW r \in 0 .. d - 1
  PROVE  q * d + r \in 0 .. n * d - 1
<1>1. (q + 1) * d <= n * d
  OBVIOUS
<1>2. q * d + r \in Nat /\ q * d + r < (q + 1) * d
  OBVIOUS
<1>3. QED
  BY <1>1, <1>2

\* The row of a place.
LEMMA Row ==
  ASSUME NEW d \in Nat, d >= 1, NEW n \in Nat, NEW a \in 0 .. n * d - 1
  PROVE  a \div d \in 0 .. n - 1
<1>1. a \div d \in Nat /\ a % d \in 0 .. d - 1 /\ a = (a \div d) * d + (a % d)
  <2>1. a \in Nat
    OBVIOUS
  <2>2. QED
    BY ONLY <2>1, d \in Nat, d >= 1, Divided
<1>2. (a \div d) * d < n * d
  BY <1>1
<1>3. QED
  BY <1>1, <1>2

\* Where cache_ram holds word k of a line.
Place(line, k) == line * LineSize + k

\* Line and word of a place.
LEMMA Placed ==
  ASSUME NEW line \in Line, NEW k \in Words
  PROVE  /\ Place(line, k) \in Slots
         /\ Place(line, k) \div LineSize = line /\ Word(Place(line, k)) = k
         /\ Base(Place(line, k)) = Place(line, 0)
<1>1. Place(line, k) \in Slots
  BY Positive, Rows DEF Slots, Line, Words, Place
<1>2. Place(line, k) \div LineSize = line /\ Word(Place(line, k)) = k
  BY Positive, Division DEF Line, Words, Place, Word
<1>3. QED
  BY <1>1, <1>2, Positive DEF Base, Place, Line, Words

\* The place of a line and a word.
LEMMA Placing ==
  ASSUME NEW s \in Slots
  PROVE  /\ s \div LineSize \in Line /\ Word(s) \in Words
         /\ s = Place(s \div LineSize, Word(s)) /\ Base(s) = Place(s \div LineSize, 0)
<1>1. s \div LineSize \in Line
  BY Positive, Row DEF Slots, Line
<1>2. Word(s) \in Words /\ s = Place(s \div LineSize, Word(s))
  BY Positive, Divided DEF Slots, Words, Word, Place
<1>3. QED
  BY <1>1, <1>2, Positive DEF Base, Place, Line, Words

Tagset == 0 .. Tags - 1
\* The address of word k of a line with a tag.
At(tag, line, k) == AddrOf(tag, line) + k

LEMMA AtType ==
  ASSUME NEW tag \in Tagset, NEW line \in Line, NEW k \in Words
  PROVE At(tag, line, k) \in Addr /\ At(tag, line, k) = tag * (Lines * LineSize) + Place(line, k)
<1>1. At(tag, line, k) = tag * (Lines * LineSize) + Place(line, k)
  BY Positive DEF At, AddrOf, Place, Tagset, Line, Words
<1>2. Lines * LineSize \in Nat /\ Lines * LineSize >= 1
  BY Positive
<1>3. Place(line, k) \in 0 .. Lines * LineSize - 1
  BY Placed DEF Slots
<1>4. tag * (Lines * LineSize) + Place(line, k) \in 0 .. Tags * (Lines * LineSize) - 1
  BY <1>2, <1>3, Positive, Rows DEF Tagset
<1>5. QED
  BY <1>1, <1>4, Positive DEF Addr

\* The parts of such an address.
LEMMA AtParts ==
  ASSUME NEW tag \in Tagset, NEW line \in Line, NEW k \in Words
  PROVE LET a == At(tag, line, k) IN
        /\ TagOf(a) = tag /\ Slot(a) = Place(line, k) /\ LineOf(a) = line
        /\ Word(a) = k /\ Base(a) = At(tag, line, 0)
<1>1. /\ At(tag, line, k) = tag * (Lines * LineSize) + Place(line, k)
      /\ At(tag, line, k) \in Addr
  BY AtType
<1>2. Lines * LineSize \in Nat /\ Lines * LineSize >= 1
  BY Positive
<1>3. Place(line, k) \in 0 .. Lines * LineSize - 1
  BY Placed DEF Slots
<1>4. TagOf(At(tag, line, k)) = tag /\ Slot(At(tag, line, k)) = Place(line, k)
  <2>1. tag \in Nat
    BY DEF Tagset
  <2>2. /\ (tag * (Lines * LineSize) + Place(line, k)) \div (Lines * LineSize) = tag
        /\ (tag * (Lines * LineSize) + Place(line, k)) % (Lines * LineSize) = Place(line, k)
    BY ONLY <1>2, <1>3, <2>1, Division
  <2>3. QED
    BY <1>1, <2>2 DEF TagOf, Slot
<1>5. LineOf(At(tag, line, k)) = line
  BY <1>4, Placed DEF LineOf
<1>6. Word(At(tag, line, k)) = k
  <2>1. tag * Lines + line \in Nat
    BY Positive DEF Tagset, Line
  <2>2. QED
    BY <2>1, Positive, Division DEF At, AddrOf, Word, Words
<1>7. Base(At(tag, line, k)) = At(tag, line, 0)
  <2>1. AddrOf(tag, line) \in Nat
    BY Positive DEF AddrOf, Tagset, Line
  <2>2. QED
    BY <1>6, <2>1 DEF Base, At, Words
<1>8. QED
  BY <1>4, <1>5, <1>6, <1>7

\* An address is that of its parts.
LEMMA Parts ==
  ASSUME NEW a \in Addr
  PROVE  /\ TagOf(a) \in Tagset /\ LineOf(a) \in Line /\ Word(a) \in Words
         /\ a = At(TagOf(a), LineOf(a), Word(a))
<1>1. Lines * LineSize \in Nat /\ Lines * LineSize >= 1 /\ a \in Nat
  BY Positive DEF Addr
<1>2. a \in 0 .. Tags * (Lines * LineSize) - 1
  BY Positive DEF Addr
<1>3. TagOf(a) \in Tagset
  BY <1>1, <1>2, Positive, Row DEF TagOf, Tagset
<1>4. Slot(a) \in Slots /\ a = TagOf(a) * (Lines * LineSize) + Slot(a)
  BY <1>1, Divided DEF Slot, Slots, TagOf
<1>5. LineOf(a) \in Line /\ Slot(a) = Place(LineOf(a), Word(Slot(a))) /\ Word(Slot(a)) \in Words
  BY <1>4, Placing DEF LineOf
<1>6. a = At(TagOf(a), LineOf(a), Word(Slot(a)))
  BY <1>3, <1>4, <1>5, AtType
<1>7. Word(a) = Word(Slot(a))
  BY <1>3, <1>5, <1>6, AtParts
<1>8. QED
  BY <1>3, <1>5, <1>6, <1>7

\* No two words of cache_ram share a place, and no two words an address.
LEMMA PlaceOnce ==
  ASSUME NEW line \in Line, NEW k \in Words, NEW l \in Line, NEW j \in Words,
         Place(line, k) = Place(l, j)
  PROVE  line = l /\ k = j
BY Placed

LEMMA AtOnce ==
  ASSUME NEW t \in Tagset, NEW line \in Line, NEW k \in Words,
         NEW u \in Tagset, NEW l \in Line, NEW j \in Words,
         At(t, line, k) = At(u, l, j)
  PROVE  t = u /\ line = l /\ k = j
BY AtParts

\* The word after the last one of a line is its first.
Succ(k) == (k + 1) % LineSize

LEMMA SuccFacts ==
  ASSUME NEW k \in Words
  PROVE  /\ Succ(k) \in Words
         /\ Succ(k) = 0 <=> k = LineSize - 1
         /\ k # LineSize - 1 => Succ(k) = k + 1
<1>1. CASE k = LineSize - 1
  BY <1>1, Positive DEF Words, Succ
<1>2. CASE k # LineSize - 1
  BY <1>2, Positive DEF Words, Succ
<1>3. QED
  BY <1>1, <1>2

\* A line stays the same modulo their number.
LEMMA SameLine ==
  ASSUME NEW n \in Line
  PROVE  n % Lines = n
<1>1. n \in 0 .. Lines - 1 /\ 0 * Lines + n = n
  BY Positive DEF Line
<1>2. (0 * Lines + n) % Lines = n
  BY <1>1, Positive, Division
<1>3. QED
  BY <1>1, <1>2

----------------------------------------------------------------------------
(* The inductive invariant.                                                *)

\* The line of the request in the access buffer.
Here == LineOf(ab.addr)
Ops == {"none", "read", "write"}
TagKinds == [valid : BOOLEAN, dirty : BOOLEAN, addr : Tagset]
TagSet == [way : [Way -> TagKinds], next : Way]
Values == {0, 1, Other, Junk}

Accesses == [op : Ops, addr : Addr, data : Values]
Flushings == [r : BOOLEAN, w : BOOLEAN, pi : {FALSE}, line : Line, way : Way, addr : Addr]
Transfers ==
  [to_cache : BOOLEAN, to_xm : BOOLEAN, was : BOOLEAN, addr : Addr, cm : Slots,
   paddr : Addr, pcm : Slots, way : Way, pwdata : Values]
Externals == [mem : [Addr -> Values], wait : Nat, rdata : Values]

\* The registers hold values of their types.
TypeInv ==
  /\ ab \in Accesses /\ stalled = FALSE /\ fl \in Flushings
  /\ tags \in [Line -> TagSet] /\ rtags \in TagSet
  /\ data \in [Slots -> [Way -> Values]] /\ rdata \in [Way -> Values]
  /\ xm \in Transfers /\ ext \in Externals
  /\ writeable \in BOOLEAN /\ watched \in Addr /\ latest \in Values

\* Only the data cache is written to.
Asked == ab.op = "write" => writeable /\ (ab.addr # watched => ab.data = Other)

\* A transfer keeps the request that missed waiting; one to external memory is
\* of the data cache, and of a line that is not the one sought.
Waits ==
  /\ xm_ready \/ xm.to_cache \/ xm.was
  /\ xm.to_cache => ~xm.to_xm /\ ~xm.was /\ Accessing
  /\ xm.to_xm \/ xm.was => writeable /\ ~Flushing /\ Accessing /\ ~tag_valid
  /\ ~xm.to_cache /\ ~xm.to_xm => Word(xm.addr) = 0

\* Where nothing was written, in a cache that is not writeable or is invalidated,
\* no line is dirty and external memory is as it should be.
Clean ==
  ~writeable \/ Flushing =>
    /\ \A w \in Way : ~rtags.way[w].dirty
    /\ \A line \in Line, w \in Way : ~tags[line].way[w].dirty
    /\ \A a \in Addr : ext.mem[a] = Expected(a)

\* An invalidation has left nothing valid behind it, in the tag that was read for
\* it neither; it stays at the first line while a transfer holds it up.
Flushed ==
  Flushing =>
    /\ fl.r
    /\ Transferring => fl.line = 0 /\ fl.way = 0
    /\ \A line \in Line, w \in Way :
         line < fl.line \/ (line = fl.line /\ w < fl.way) => ~tags[line].way[w].valid
    /\ fl.way = 1 => ~rtags.way[0].valid

\* The tags looked up are those of the line of the request.
Looked == ~Flushing => rtags = tags[Here]

\* The words looked up for a hit are those of its address.
Answering ==
  ~Flushing /\ ~xm.to_cache /\ ~xm.to_xm /\ Accessing /\ tag_valid => rdata = data[Slot(ab.addr)]

\* A line on its way in: its tag is written already, xm.cm is where the word goes
\* that the external memory has read, xm.addr the next one.
Fills ==
  xm.to_cache =>
    LET k == Word(xm.cm) IN
    /\ tags[Here].way[xm.way] = [valid |-> TRUE, dirty |-> FALSE, addr |-> TagOf(ab.addr)]
    /\ xm.cm = Place(Here, k)
    /\ xm.addr = At(TagOf(ab.addr), Here, Succ(k))
    /\ ext.rdata = ext.mem[At(TagOf(ab.addr), Here, k)]

\* A line on its way out: xm.addr is where the word goes that cache_ram has read,
\* xm.cm the next one.
Spills ==
  xm.to_xm =>
    LET e == tags[Here].way[xm.way] k == Word(xm.addr) IN
    /\ e.valid /\ ~e.dirty
    /\ xm.addr = At(e.addr, Here, k)
    /\ xm.cm = Place(Here, Succ(k))
    /\ rdata[xm.way] = data[Place(Here, k)][xm.way]
    /\ xm.was => xm.pcm = Place(Here, k)

\* The first word of a line that must go out is being read for it.
Evicting ==
  ~xm.to_cache /\ ~xm.to_xm /\ ~Flushing /\ Accessing /\ ~tag_valid /\ Evicts
  => xm.cm = Place(Here, 0)

\* Only a valid entry is dirty.
Marked ==
  ~Flushing => \A line \in Line, w \in Way : tags[line].way[w].dirty => tags[line].way[w].valid

\* No two ways of a line hold the same address.
Unique ==
  ~Flushing => \A line \in Line, w, v \in Way :
    /\ w # v /\ tags[line].way[w].valid /\ tags[line].way[v].valid
    => tags[line].way[v].addr # tags[line].way[w].addr

\* The entry that is filled or written back.
Own(line, w) == line = Here /\ w = xm.way

\* Valid entries hold their addresses' data, but for what is still to arrive.
Copies ==
  ~Flushing => \A line \in Line, w \in Way, k \in Words :
    /\ tags[line].way[w].valid
    /\ ~(xm.to_cache /\ Own(line, w) /\ k >= Word(xm.cm))
    => data[Place(line, k)][w] = Expected(At(tags[line].way[w].addr, line, k))

\* What is not dirty is in external memory, but for what is still to go out.
Originals ==
  ~Flushing => \A line \in Line, w \in Way, k \in Words :
    /\ tags[line].way[w].valid /\ ~tags[line].way[w].dirty
    /\ ~(xm.to_xm /\ Own(line, w) /\ k >= Word(xm.addr))
    => ext.mem[At(tags[line].way[w].addr, line, k)] = Expected(At(tags[line].way[w].addr, line, k))

\* So is what is not in the cache.
Absent == ~Flushing => \A a \in Addr : Resident(a) \/ ext.mem[a] = Expected(a)

IInv ==
  /\ TypeInv /\ Asked /\ Waits /\ Clean /\ Flushed /\ Looked /\ Answering
  /\ Fills /\ Spills /\ Evicting /\ Marked /\ Unique /\ Copies /\ Originals /\ Absent

\* What the theorems ask of the requester and of the flushes, as in the run
\* `cache': requests are repeated until they are answered, no flush is precise, the
\* cache that is written to is not flushed, and stall is not set.  Without any one
\* of the four the code goes wrong.
Usage ==
  /\ BOOLEAN \subseteq Repeating /\ Stalls \subseteq {FALSE}
  /\ \A f \in Flushes[FALSE] : ~f.pi
  /\ \A f \in Flushes[TRUE] : ~f.r /\ ~f.w

Step(bus, flush) ==
  /\ bus \in Requests /\ flush \in Flushes[writeable] \cup {NoFlush}
  /\ Clock(bus, flush)

----------------------------------------------------------------------------
(* What one clock does, by the kind of cycle.                              *)

\* Way w holds the address of the request.
Hit(w) == rtags.way[w].valid /\ rtags.way[w].addr = TagOf(ab.addr)

\* tag_valid and tag_way are about such a way.
LEMMA Found ==
  ASSUME TypeInv
  PROVE  /\ tag_valid <=> \E w \in Way : Hit(w)
         /\ tag_way \in Way
         /\ tag_valid => Hit(tag_way)
<1>1. Sought = TagOf(ab.addr)
  BY DEF TypeInv, Flushings, Sought
<1>2. \A w \in Way : w \in Matches <=> Hit(w)
  BY <1>1 DEF Matches, Hit
<1>3. Matches \subseteq Way /\ Way = {0, 1}
  BY DEF Matches, Way, Ways
<1>4. QED
  BY <1>2, <1>3 DEF tag_valid, tag_way

\* The same after the clock.
LEMMA FoundNext ==
  ASSUME TypeInv'
  PROVE  tag_valid' <=> \E w \in Way : rtags'.way[w].valid /\ rtags'.way[w].addr = TagOf(ab'.addr)
<1>1. Sought' = TagOf(ab'.addr)
  BY DEF TypeInv, Flushings, Sought
<1>2. QED
  BY <1>1 DEF tag_valid, Matches

\* What the requester presents, and presents again until it is answered.
LEMMA Asking ==
  ASSUME TypeInv, Usage, NEW bus, NEW flush, Step(bus, flush)
  PROVE  /\ bus \in Accesses
         /\ bus.op = "write" => writeable /\ (bus.addr # watched => bus.data = Other)
         /\ ~Ready => bus = ab
         /\ ab' = bus /\ stalled' = FALSE /\ writeable' = writeable /\ watched' = watched
<1>1. bus \in Requests /\ writeable \in BOOLEAN
  BY DEF Step, TypeInv
<1>2. bus \in Request
  BY <1>1 DEF Requests
<1>3. Used \subseteq Addr
  BY CacheAssumption
<1>4. bus \in Accesses
  BY <1>2, <1>3 DEF Request, Accesses, Ops, Values, Other
<1>5. bus.op = "write" => writeable /\ (bus.addr # watched => bus.data = Other)
  BY <1>1, <1>2 DEF Requests, Request
<1>6. ~Ready => bus = ab
  BY <1>1 DEF Requests, Usage
<1>7. QED
  BY <1>4, <1>5, <1>6 DEF Step, Clock, Usage

\* What becomes of the registers of an invalidation.
LEMMA Flow ==
  ASSUME TypeInv, Usage, NEW bus, NEW flush, Step(bus, flush)
  PROVE  /\ fl' \in Flushings
         /\ Invalidating =>
              /\ Flushing' <=> ~FlushEnd
              /\ fl'.r <=> fl.r /\ ~FlushEnd
              /\ fl'.way = (fl.way + 1) % Ways
              /\ fl'.line = IF fl.way = Ways - 1 THEN (fl.line + 1) % Lines ELSE fl.line
         /\ ~Invalidating =>
              \/ fl' = fl
              \/ ~writeable /\ ~Flushing /\ Flushing' /\ fl'.r /\ fl'.line = 0 /\ fl'.way = 0
<1>1. fl' = NextFl(flush)
  BY DEF Step, Clock
<1>2. 0 \in Line /\ 0 \in Addr /\ 0 \in Way /\ \A n \in Way : (n + 1) % Ways \in Way
  <2>1. 0 \in Addr
    <3>1. At(0, 0, 0) \in Addr
      BY Positive, AtType DEF Tagset, Line, Words
    <3>2. At(0, 0, 0) = 0
      BY Positive DEF At, AddrOf
    <3>3. QED
      BY <3>1, <3>2
  <2>2. QED
    BY <2>1, Positive DEF Line, Way, Ways
<1>3. \A n \in Line : (n + 1) % Lines \in Line
  BY Positive DEF Line
<1>4. /\ flush \in [r : BOOLEAN, w : BOOLEAN, pi : BOOLEAN, addr : Addr]
      /\ writeable => ~flush.r /\ ~flush.w
      /\ ~writeable => ~flush.pi
  <2>1. CASE flush = NoFlush
    BY <2>1, <1>2 DEF NoFlush
  <2>2. CASE flush \in Flushes[writeable]
    <3>1. writeable \in BOOLEAN
      BY DEF TypeInv
    <3>2. QED
      BY <2>2, <3>1, CacheAssumption DEF Usage
  <2>3. QED
    BY <2>1, <2>2 DEF Step
<1>5. CASE Invalidating
  <2>1. fl' = [fl EXCEPT !.r = fl.r /\ ~FlushEnd, !.w = fl.w /\ ~FlushEnd,
               !.line = IF fl.way = Ways - 1 THEN (fl.line + 1) % Lines ELSE fl.line,
               !.way = (fl.way + 1) % Ways]
    BY <1>1, <1>5 DEF NextFl
  <2>2. FlushEnd \in BOOLEAN
    BY DEF FlushEnd, TypeInv, Flushings
  <2>3. fl' \in Flushings
    BY <2>1, <2>2, <1>2, <1>3 DEF TypeInv, Flushings
  <2>4. Flushing' <=> ~FlushEnd
    BY <2>1, <2>2, <1>5 DEF TypeInv, Flushings, Flushing, Invalidating
  <2>5. QED
    BY <1>5, <2>1, <2>3, <2>4 DEF TypeInv, Flushings
<1>6. CASE ~Invalidating /\ fl' = fl
  BY <1>6 DEF TypeInv, Flushings
<1>7. CASE ~Invalidating /\ fl' # fl
  <2>1. ~Flushing /\ (flush.r \/ (flush.w /\ (flush.pi \/ writeable)))
    BY <1>1, <1>7 DEF NextFl
  <2>2. fl' = [r |-> flush.r, w |-> flush.w, pi |-> flush.pi, line |-> 0, way |-> 0,
               addr |-> flush.addr]
    BY <1>1, <1>7, <2>1 DEF NextFl
  <2>3. ~writeable /\ ~flush.pi
    BY <1>4, <2>1
  <2>4. QED
    BY <1>2, <1>4, <1>7, <2>1, <2>2, <2>3 DEF Flushing, Flushings
<1>8. QED
  BY <1>5, <1>6, <1>7

\* While a transfer is under way the request waits, and no tag changes.
LEMMA Held ==
  ASSUME IInv, Usage, NEW bus, NEW flush, Step(bus, flush), Transferring
  PROVE  /\ Accessing /\ ~Ready /\ ab' = ab /\ bus = ab
         /\ tags' = tags /\ latest' = latest /\ rtags' = tags[TagRaddr(bus)]
<1>1. Accessing
  BY DEF IInv, Waits, Transferring
<1>2. ~Ready
  BY <1>1 DEF IInv, Waits, Transferring, Ready
<1>3. bus = ab /\ ab' = ab
  BY <1>2, Asking DEF IInv
<1>4. NewTags = tags
  BY DEF NewTags
<1>5. tags' = tags /\ rtags' = tags[TagRaddr(bus)]
  BY <1>4 DEF Step, Clock
<1>6. latest' = latest
  BY <1>2 DEF Step, Clock, Remember, Invalidating
<1>7. QED
  BY <1>1, <1>2, <1>3, <1>5, <1>6

\* The external memory has wait states left: nothing moves.
LEMMA WaitCycle ==
  ASSUME IInv, Usage, NEW bus, NEW flush, Step(bus, flush), Transferring, ~xm_ready
  PROVE  /\ data' = data /\ ext'.mem = ext.mem /\ ext'.rdata = ext.rdata
         /\ ext' \in Externals
         /\ xm' = [xm EXCEPT !.was = xm.to_xm \/ xm.was]
         /\ rdata' = data[CacheRaddr(bus)]
         /\ xm.was => CacheRaddr(bus) = xm.pcm
<1>1. NewData = data
  BY DEF NewData
<1>2. ext' = [ext EXCEPT !.wait = ext.wait - 1]
  BY DEF Step, Clock, Extern
<1>3. xm' = [xm EXCEPT !.was = xm.to_xm \/ (xm.was /\ ~xm_ready)]
  BY DEF Step, Clock, NextXm
<1>4. ext \in Externals /\ xm \in Transfers /\ ext.wait # 0
  BY DEF IInv, TypeInv, xm_ready
<1>5. QED
  <2>1. data' = data /\ rdata' = data[CacheRaddr(bus)]
    BY <1>1 DEF Step, Clock
  <2>2. /\ ext'.mem = ext.mem /\ ext'.rdata = ext.rdata
        /\ ext' \in Externals
    BY <1>2, <1>4 DEF Externals
  <2>3. xm' = [xm EXCEPT !.was = xm.to_xm \/ xm.was]
    BY <1>3, <1>4 DEF Transfers
  <2>4. xm.was => CacheRaddr(bus) = xm.pcm
    BY DEF CacheRaddr
  <2>5. QED
    BY <2>1, <2>2, <2>3, <2>4

\* A word arrives in cache_ram, and the next is asked for.
LEMMA FillCycle ==
  ASSUME IInv, Usage, NEW bus, NEW flush, Step(bus, flush), xm.to_cache, xm_ready
  PROVE  LET k == Word(xm.cm) IN
         /\ k \in Words /\ Here \in Line /\ TagOf(ab.addr) \in Tagset
         /\ data' = [data EXCEPT ![Place(Here, k)][xm.way] = ext.rdata]
         /\ ext'.mem = ext.mem
         /\ ext' \in Externals
         /\ Succ(k) # 0 => ext'.rdata = ext.mem[At(TagOf(ab.addr), Here, Succ(k))]
         /\ Succ(k) = 0 => ext'.wait = 0
         /\ xm' \in Transfers
         /\ xm'.to_cache = (Succ(k) # 0) /\ ~xm'.to_xm /\ ~xm'.was /\ xm'.way = xm.way
         /\ xm'.addr = IF Succ(k) # 0 THEN At(TagOf(ab.addr), Here, Succ(Succ(k)))
                                      ELSE At(TagOf(ab.addr), Here, 0)
         /\ xm'.cm = Place(Here, Succ(k))
         /\ rdata' = data'[CacheRaddr(bus)]
         /\ CacheRaddr(bus) = Slot(ab.addr) \/ (~tag_valid /\ Evicts)
<1> DEFINE k == Word(xm.cm)
<1>1. /\ ~xm.to_xm /\ ~xm.was /\ xm.way \in Way /\ xm.cm \in Slots /\ xm.addr \in Addr
      /\ ab.addr \in Addr /\ bus = ab /\ Transferring
  BY Held DEF IInv, TypeInv, Waits, Transferring, Transfers, Accesses
<1>2. k \in Words /\ Here \in Line /\ TagOf(ab.addr) \in Tagset
  BY <1>1, Placing, Parts DEF Here
<1>3. /\ xm.cm = Place(Here, k) /\ xm.addr = At(TagOf(ab.addr), Here, Succ(k))
  BY DEF IInv, Fills
<1>4. Succ(k) \in Words /\ Succ(Succ(k)) \in Words /\ 0 \in Words
  BY <1>2, SuccFacts, Positive DEF Words
<1>5. Word(xm.addr) = Succ(k) /\ Base(xm.addr) = At(TagOf(ab.addr), Here, 0)
  BY <1>2, <1>3, <1>4, AtParts
<1>6. XmBus(bus) = [op |-> IF Succ(k) # 0 THEN "read" ELSE "none", addr |-> xm.addr,
                    data |-> Other]
  BY <1>5 DEF XmBus
<1>7. data' = [data EXCEPT ![Place(Here, k)][xm.way] = ext.rdata]
  BY <1>3 DEF NewData, Step, Clock
<1>8. /\ ext'.mem = ext.mem
      /\ ext' \in Externals
      /\ Succ(k) # 0 => ext'.rdata = ext.mem[At(TagOf(ab.addr), Here, Succ(k))]
      /\ Succ(k) = 0 => ext'.wait = 0
  <2>1. PICK n \in 0 .. IF XmBus(bus).op = "none" THEN 0 ELSE MaxWait :
         ext' = [wait |-> n,
                 mem |-> IF XmBus(bus).op = "write"
                         THEN [ext.mem EXCEPT ![XmBus(bus).addr] = XmBus(bus).data] ELSE ext.mem,
                 rdata |-> IF XmBus(bus).op = "read" THEN ext.mem[XmBus(bus).addr] ELSE Other]
    BY DEF Step, Clock, Extern
  <2>2. n \in Nat /\ (Succ(k) = 0 => n = 0)
    BY <1>6, <2>1, CacheAssumption
  <2>3. ext.mem \in [Addr -> Values] /\ Other \in Values
    BY DEF IInv, TypeInv, Externals, Values
  <2>4. QED
    BY <1>1, <1>3, <1>6, <2>1, <2>2, <2>3 DEF Externals
<1>9. /\ Base(ab.addr) = At(TagOf(ab.addr), Here, 0)
      /\ At(TagOf(ab.addr), Here, Succ(Succ(k))) \in Addr
      /\ At(TagOf(ab.addr), Here, 0) \in Addr
  BY <1>1, <1>2, <1>4, Parts, AtParts, AtType DEF Here
<1>10. Advanced(bus) = At(TagOf(ab.addr), Here, Succ(Succ(k)))
  <2>1. Advanced(bus) = At(TagOf(ab.addr), Here, 0) + Succ(Succ(k))
    BY <1>5, <1>6 DEF Advanced, Succ
  <2>2. AddrOf(TagOf(ab.addr), Here) \in Int
    BY <1>2, Positive DEF AddrOf, Tagset, Line
  <2>3. QED
    BY <1>4, <2>1, <2>2 DEF At, Words
<1>11. CacheRaddr(bus) = Slot(ab.addr) \/ (CacheRaddr(bus) = xm.cm /\ ~tag_valid /\ Evicts)
  <2>1. ~(fl.w /\ rtags.way[FlushWay].dirty)
    <3>1. fl.w => Flushing
      BY DEF Flushing
    <3>2. FlushWay \in Way
      BY DEF FlushWay, IInv, TypeInv, Flushings
    <3>3. QED
      BY <3>1, <3>2 DEF IInv, Clean
  <2>2. QED
    BY <1>1, <2>1 DEF CacheRaddr
<1>12. Base(CacheRaddr(bus)) = Place(Here, 0) /\ CacheRaddr(bus) \in Slots
  <2>1. Slot(ab.addr) = Place(Here, Word(ab.addr)) /\ Word(ab.addr) \in Words
    BY <1>1, Parts, AtParts DEF Here
  <2>2. QED
    BY <1>1, <1>2, <1>3, <1>11, <2>1, Placed
<1>13. CmAdvanced(bus) = Place(Here, Succ(k))
  <2>1. CmAdvanced(bus) = Place(Here, 0) + Succ(k)
    BY <1>12 DEF CmAdvanced, Succ
  <2>2. Here * LineSize \in Int
    BY <1>2, Positive DEF Line
  <2>3. QED
    BY <1>4, <2>1, <2>2 DEF Place, Words
<1>14. xm' = [xm EXCEPT !.was = FALSE, !.paddr = XmBus(bus).addr, !.pcm = CacheRaddr(bus),
                !.to_cache = Succ(k) # 0,
                !.addr = IF Succ(k) # 0 THEN At(TagOf(ab.addr), Here, Succ(Succ(k)))
                                      ELSE At(TagOf(ab.addr), Here, 0),
                !.cm = Place(Here, Succ(k))]
  <2>1. xm' = NextXm(bus)
    BY DEF Step, Clock
  <2>2. QED
    BY <1>1, <1>5, <1>9, <1>10, <1>13, <2>1 DEF NextXm
<1>15. Place(Here, Succ(k)) \in Slots
  BY <1>2, <1>4, Placed
<1>16. /\ xm' \in Transfers
       /\ xm'.to_cache = (Succ(k) # 0) /\ ~xm'.to_xm /\ ~xm'.was /\ xm'.way = xm.way
       /\ xm'.addr = IF Succ(k) # 0 THEN At(TagOf(ab.addr), Here, Succ(Succ(k)))
                                      ELSE At(TagOf(ab.addr), Here, 0)
       /\ xm'.cm = Place(Here, Succ(k))
  <2>1. xm \in Transfers /\ XmBus(bus).addr \in Addr
    BY <1>1, <1>6 DEF IInv, TypeInv
  <2>2. QED
    BY <1>1, <1>9, <1>12, <1>14, <1>15, <2>1 DEF Transfers
<1>17. rdata' = data'[CacheRaddr(bus)]
  BY DEF Step, Clock
<1>18. CacheRaddr(bus) = Slot(ab.addr) \/ (~tag_valid /\ Evicts)
  BY <1>11
<1> HIDE DEF k
<1>19. QED
  BY <1>2, <1>7, <1>8, <1>16, <1>17, <1>18 DEF k

\* Reads from cache_ram follow the bus unless a line is written back.
LEMMA RaddrPlain ==
  ASSUME IInv, NEW bus, ~xm.to_xm, ~xm.was, ~Accessing \/ tag_valid \/ ~Evicts
  PROVE  CacheRaddr(bus) = Slot(bus.addr)
<1>1. ~(fl.w /\ rtags.way[FlushWay].dirty)
  <2>1. fl.w => Flushing
    BY DEF Flushing
  <2>2. FlushWay \in Way
    BY DEF FlushWay, IInv, TypeInv, Flushings
  <2>3. QED
    BY <2>1, <2>2 DEF IInv, Clean
<1>2. QED
  BY <1>1 DEF CacheRaddr

\* The external memory does what is on its bus when it is ready.
LEMMA ExternStep ==
  ASSUME IInv, NEW bus, NEW flush, Step(bus, flush), xm_ready,
         XmBus(bus).addr \in Addr, XmBus(bus).data \in Values
  PROVE  /\ ext' \in Externals
         /\ ext'.mem = IF XmBus(bus).op = "write"
                       THEN [ext.mem EXCEPT ![XmBus(bus).addr] = XmBus(bus).data] ELSE ext.mem
         /\ XmBus(bus).op = "read" => ext'.rdata = ext.mem[XmBus(bus).addr]
         /\ XmBus(bus).op = "none" => ext'.wait = 0
<1>1. PICK n \in 0 .. IF XmBus(bus).op = "none" THEN 0 ELSE MaxWait :
         ext' = [wait |-> n,
                 mem |-> IF XmBus(bus).op = "write"
                         THEN [ext.mem EXCEPT ![XmBus(bus).addr] = XmBus(bus).data] ELSE ext.mem,
                 rdata |-> IF XmBus(bus).op = "read" THEN ext.mem[XmBus(bus).addr] ELSE Other]
  BY DEF Step, Clock, Extern
<1>2. n \in Nat /\ (XmBus(bus).op = "none" => n = 0)
  BY <1>1, CacheAssumption
<1>3. ext.mem \in [Addr -> Values] /\ Other \in Values
  BY DEF IInv, TypeInv, Externals, Values
<1>4. QED
  BY <1>1, <1>2, <1>3 DEF Externals

LEMMA IdleBus == Idle.op = "none" /\ Idle.addr \in Addr /\ Idle.data \in Values
<1>1. At(0, 0, 0) \in Addr
  BY Positive, AtType DEF Tagset, Line, Words
<1>2. At(0, 0, 0) = 0
  BY Positive DEF At, AddrOf
<1>3. QED
  BY <1>1, <1>2 DEF Idle, Values, Other

\* A word of the victim goes to the external memory, and the next is read.
LEMMA SpillCycle ==
  ASSUME IInv, Usage, NEW bus, NEW flush, Step(bus, flush), xm.to_xm, xm_ready
  PROVE  LET k == Word(xm.addr) t == tags[Here].way[xm.way].addr IN
         /\ k \in Words /\ Here \in Line /\ t \in Tagset /\ xm.way \in Way
         /\ data' = data
         /\ ext' \in Externals /\ ext'.mem = [ext.mem EXCEPT ![At(t, Here, k)] = rdata[xm.way]]
         /\ xm' \in Transfers
         /\ xm'.to_xm = (Succ(k) # 0) /\ ~xm'.to_cache /\ xm'.was /\ xm'.way = xm.way
         /\ xm'.addr = At(t, Here, Succ(k))
         /\ Succ(k) # 0 =>
              /\ xm'.cm = Place(Here, Succ(Succ(k))) /\ xm'.pcm = Place(Here, Succ(k))
              /\ rdata' = data[Place(Here, Succ(k))]
         /\ Succ(k) = 0 => xm'.cm = Place(Here, 0)
         /\ rdata' = data[CacheRaddr(bus)] /\ CacheRaddr(bus) \in Slots
<1> DEFINE k == Word(xm.addr)
           t == tags[Here].way[xm.way].addr
<1>1. /\ xm.way \in Way /\ xm.cm \in Slots /\ xm.addr \in Addr /\ xm.pcm \in Slots
      /\ ab.addr \in Addr /\ bus = ab /\ Transferring /\ xm \in Transfers
      /\ rdata \in [Way -> Values]
  BY Held DEF IInv, TypeInv, Transferring, Transfers, Accesses
<1>2. ~xm.to_cache /\ ~Flushing /\ Accessing
  BY DEF IInv, Waits
<1>3. k \in Words /\ Here \in Line
  BY <1>1, Parts DEF Here
<1>4. t \in Tagset
  <2>1. tags[Here] \in TagSet
    BY <1>3 DEF IInv, TypeInv
  <2>2. QED
    BY <1>1, <2>1 DEF TagSet, TagKinds
<1>5. xm.addr = At(t, Here, k) /\ xm.cm = Place(Here, Succ(k))
  BY DEF IInv, Spills
<1>6. Succ(k) \in Words /\ Succ(Succ(k)) \in Words /\ 0 \in Words
  BY <1>3, SuccFacts, Positive DEF Words
<1>7. Word(xm.cm) = Succ(k) /\ Base(xm.addr) = At(t, Here, 0)
  BY <1>3, <1>4, <1>5, <1>6, AtParts, Placed
<1>8. XmBus(bus) = [op |-> "write", addr |-> xm.addr, data |-> rdata[xm.way]]
  BY <1>1, <1>2 DEF XmBus
<1>9. ext' \in Externals /\ ext'.mem = [ext.mem EXCEPT ![At(t, Here, k)] = rdata[xm.way]]
  BY <1>1, <1>5, <1>8, ExternStep
<1>10. data' = data /\ rdata' = data[CacheRaddr(bus)]
  BY <1>1, <1>2 DEF Step, Clock, NewData
<1>11. Succ(k) # 0 => CacheRaddr(bus) = Place(Here, Succ(k))
  BY <1>5, <1>7 DEF CacheRaddr
<1>12. Succ(k) = 0 => CacheRaddr(bus) \in {xm.cm, Slot(bus.addr)}
  BY <1>2, <1>7 DEF CacheRaddr, Flushing
<1>13. CacheRaddr(bus) \in Slots /\ Base(CacheRaddr(bus)) = Place(Here, 0)
  <2>1. Slot(ab.addr) = Place(Here, Word(ab.addr)) /\ Word(ab.addr) \in Words
    BY <1>1, Parts, AtParts DEF Here
  <2>2. QED
    BY <1>1, <1>3, <1>5, <1>6, <1>11, <1>12, <2>1, Placed
<1>14. Advanced(bus) = At(t, Here, Succ(k))
  <2>1. Advanced(bus) = At(t, Here, 0) + Succ(k)
    BY <1>7, <1>8 DEF Advanced, Succ
  <2>2. AddrOf(t, Here) \in Int
    BY <1>3, <1>4, Positive DEF AddrOf, Tagset, Line
  <2>3. QED
    BY <1>6, <2>1, <2>2 DEF At, Words
<1>15. CmAdvanced(bus) = Place(Here, Succ(Succ(k)))
  <2>1. CmAdvanced(bus) = Place(Here, 0) + Succ(Succ(k))
    BY <1>7, <1>13 DEF CmAdvanced, Succ
  <2>2. Here * LineSize \in Int
    BY <1>3, Positive DEF Line
  <2>3. QED
    BY <1>6, <2>1, <2>2 DEF Place, Words
<1>16. /\ At(t, Here, Succ(k)) \in Addr /\ Place(Here, Succ(Succ(k))) \in Slots
       /\ Base(Slot(bus.addr)) \in Slots /\ Base(Slot(bus.addr)) = Place(Here, 0)
  <2>1. Slot(ab.addr) = Place(Here, Word(ab.addr)) /\ Word(ab.addr) \in Words
    BY <1>1, Parts, AtParts DEF Here
  <2>2. QED
    BY <1>1, <1>3, <1>4, <1>6, <2>1, AtType, Placed
<1>17. xm' = [xm EXCEPT !.was = TRUE, !.paddr = XmBus(bus).addr, !.pcm = CacheRaddr(bus),
                !.to_xm = Succ(k) # 0, !.addr = At(t, Here, Succ(k)),
                !.cm = IF Succ(k) # 0 THEN Place(Here, Succ(Succ(k))) ELSE Base(Slot(bus.addr)),
                !.pwdata = XmBus(bus).data]
  <2>1. xm' = NextXm(bus)
    BY DEF Step, Clock
  <2>2. QED
    BY <1>1, <1>2, <1>7, <1>14, <1>15, <2>1 DEF NextXm
<1>18. /\ xm' \in Transfers
       /\ xm'.to_xm = (Succ(k) # 0) /\ ~xm'.to_cache /\ xm'.was /\ xm'.way = xm.way
       /\ xm'.addr = At(t, Here, Succ(k))
       /\ Succ(k) # 0 => xm'.cm = Place(Here, Succ(Succ(k))) /\ xm'.pcm = CacheRaddr(bus)
       /\ Succ(k) = 0 => xm'.cm = Base(Slot(bus.addr))
  <2>1. /\ XmBus(bus).addr \in Addr /\ XmBus(bus).data \in Values
        /\ CacheRaddr(bus) \in Slots /\ xm \in Transfers /\ ~xm.to_cache
        /\ (IF Succ(k) # 0 THEN Place(Here, Succ(Succ(k))) ELSE Base(Slot(bus.addr))) \in Slots
        /\ At(t, Here, Succ(k)) \in Addr
    BY <1>1, <1>2, <1>8, <1>13, <1>16
  <2> HIDE DEF k, t
  <2>2. QED
    BY <1>17, <2>1 DEF Transfers
<1>19. Succ(k) # 0 =>
         /\ xm'.cm = Place(Here, Succ(Succ(k))) /\ xm'.pcm = Place(Here, Succ(k))
         /\ rdata' = data[Place(Here, Succ(k))]
  <2> HIDE DEF k, t
  <2> QED
    BY <1>10, <1>11, <1>18
<1>20. rdata' = data[CacheRaddr(bus)] /\ CacheRaddr(bus) \in Slots /\ data' = data
  BY <1>10, <1>13
<1>21. Succ(k) = 0 => xm'.cm = Place(Here, 0)
  BY <1>16, <1>18
<1> HIDE DEF k, t
<1>22. QED
  BY <1>1, <1>3, <1>4, <1>9, <1>18, <1>19, <1>20, <1>21 DEF k, t

LEMMA OnBus ==
  ASSUME IInv, Usage, NEW bus, NEW flush, Step(bus, flush)
  PROVE  bus.addr \in Addr
<1>1. bus \in Accesses
  BY Asking DEF IInv
<1>2. QED
  BY <1>1 DEF Accesses

\* One entry of an invalidation: nothing is dirty, so that nothing is written back.
LEMMA InvalidateCycle ==
  ASSUME IInv, Usage, NEW bus, NEW flush, Step(bus, flush), Invalidating
  PROVE  /\ data' = data /\ ext' \in Externals /\ ext'.mem = ext.mem /\ ext'.wait = 0
         /\ xm' \in Transfers /\ ~xm'.to_cache /\ ~xm'.to_xm /\ ~xm'.was /\ Word(xm'.addr) = 0
         /\ tags' = Tagged(fl.line, fl.way, FALSE, FALSE, rtags.way[fl.way].addr, rtags.next)
         /\ rtags' = tags'[TagRaddr(bus)] /\ rdata' = data[Slot(bus.addr)]
         /\ latest' = latest
         /\ FlushEnd <=> fl.way = 1 /\ fl.line = Lines - 1
         /\ ~FlushEnd => TagRaddr(bus) = (fl.line + IF fl.way = 1 THEN 1 ELSE 0) % Lines
         /\ FlushEnd => TagRaddr(bus) = LineOf(bus.addr)
<1>1. /\ Flushing /\ ~Transferring /\ fl.r /\ ~xm.to_cache /\ ~xm.to_xm /\ ~xm.was /\ xm_ready
      /\ fl \in Flushings /\ xm \in Transfers
  BY DEF IInv, TypeInv, Invalidating, Flushed, Waits, Transferring
<1>2. /\ FlushWay = fl.way /\ FlushLine = fl.line /\ fl.way \in Way
      /\ FlushEnd <=> fl.way = 1 /\ fl.line = Lines - 1
  <2>1. ~fl.pi /\ fl.way \in Way
    BY <1>1 DEF Flushings
  <2>2. FlushWay = fl.way /\ FlushLine = fl.line
    BY <2>1 DEF FlushWay, FlushLine
  <2>3. FlushEnd <=> fl.way = 1 /\ fl.line = Lines - 1
    BY <2>1 DEF FlushEnd, Ways
  <2>4. QED
    BY <2>1, <2>2, <2>3
<1>3. ~rtags.way[FlushWay].dirty
  BY <1>1, <1>2 DEF IInv, Clean
<1>4. data' = data
  BY <1>1 DEF Step, Clock, NewData
<1>5. /\ tags' = Tagged(fl.line, fl.way, FALSE, FALSE, rtags.way[fl.way].addr, rtags.next)
      /\ rtags' = tags'[TagRaddr(bus)]
  <2>1. ~fl.pi /\ (~fl.r) = FALSE
    BY <1>1 DEF Flushings
  <2>2. NewTags = Tagged(FlushLine, FlushWay, ~fl.r, FALSE, rtags.way[FlushWay].addr, rtags.next)
    BY <1>1, <2>1 DEF NewTags
  <2>3. QED
    BY <1>2, <2>1, <2>2 DEF Step, Clock
<1>6. /\ ~FlushEnd => TagRaddr(bus) = (fl.line + IF fl.way = 1 THEN 1 ELSE 0) % Lines
      /\ FlushEnd => TagRaddr(bus) = LineOf(bus.addr)
  BY <1>1 DEF TagRaddr, Ways
<1>7. XmBus(bus) = Idle
  BY <1>1 DEF XmBus
<1>8. ext' \in Externals /\ ext'.mem = ext.mem /\ ext'.wait = 0
  BY <1>1, <1>7, IdleBus, ExternStep
<1>9. \A w \in Way : ~rtags.way[w].dirty
  BY <1>1 DEF IInv, Clean
<1>10. Evicts = FALSE
  BY <1>9 DEF Evicts, Victim, IInv, TypeInv, TagSet
<1>11. CacheRaddr(bus) = Slot(bus.addr)
  BY <1>1, <1>10, RaddrPlain
<1>12. rdata' = data[Slot(bus.addr)]
  BY <1>4, <1>11 DEF Step, Clock
<1>13. Slot(bus.addr) \in Slots
  <2>1. bus.addr \in Addr
    BY OnBus
  <2>2. QED
    BY <2>1, Parts, AtParts, Placed
<1>14. xm' = [xm EXCEPT !.was = FALSE, !.paddr = XmBus(bus).addr, !.pcm = CacheRaddr(bus)]
  BY <1>1, <1>3 DEF Step, Clock, NextXm
<1>15. /\ xm' \in Transfers /\ ~xm'.to_cache /\ ~xm'.to_xm /\ ~xm'.was
       /\ xm'.addr = xm.addr
  BY <1>1, <1>7, <1>11, <1>13, <1>14, IdleBus DEF Transfers
<1>16. Word(xm'.addr) = 0
  BY <1>1, <1>15 DEF IInv, Waits
<1>17. latest' = latest
  <2>1. ab.op = "write" => ~Ready
    BY <1>1 DEF Ready, Accessing
  <2>2. ext.mem[watched] = latest
    BY <1>1 DEF IInv, TypeInv, Clean, Expected
  <2>3. QED
    BY <2>1, <2>2 DEF Step, Clock, Remember
<1>18. QED
  BY <1>2, <1>4, <1>5, <1>6, <1>8, <1>12, <1>15, <1>16, <1>17

\* No transfer, no invalidation, no miss.
LEMMA HitCycle ==
  ASSUME IInv, Usage, NEW bus, NEW flush, Step(bus, flush),
         ~Transferring, ~Flushing, ~Accessing \/ tag_valid
  PROVE  /\ ext' \in Externals /\ ext'.mem = ext.mem /\ ext'.wait = 0
         /\ xm' \in Transfers /\ ~xm'.to_cache /\ ~xm'.to_xm /\ ~xm'.was /\ Word(xm'.addr) = 0
         /\ xm'.cm = Place(LineOf(bus.addr), 0)
         /\ rtags' = tags'[LineOf(bus.addr)] /\ rdata' = data'[Slot(bus.addr)]
         /\ ab.op # "write" => tags' = tags /\ data' = data /\ latest' = latest
         /\ ab.op = "write" =>
              /\ tag_valid /\ tags' = WroteTag
              /\ data' = [data EXCEPT ![Slot(ab.addr)][tag_way] = ab.data]
              /\ latest' = IF ab.addr = watched THEN ab.data ELSE latest
<1>1. /\ ~xm.to_cache /\ ~xm.to_xm /\ xm_ready /\ xm \in Transfers
  BY DEF IInv, TypeInv, Waits, Transferring
<1>2. bus.addr \in Addr
  BY OnBus
<1>3. /\ LineOf(bus.addr) \in Line /\ Slot(bus.addr) \in Slots
      /\ Base(Slot(bus.addr)) = Place(LineOf(bus.addr), 0) /\ Place(LineOf(bus.addr), 0) \in Slots
      /\ Base(bus.addr) \in Addr /\ Word(Base(bus.addr)) = 0
  <2>1. 0 \in Words
    BY Positive DEF Words
  <2>2. QED
    BY <1>2, <2>1, Parts, AtParts, AtType, Placed
<1>4. XmBus(bus) = Idle
  BY <1>1 DEF XmBus
<1>5. ext' \in Externals /\ ext'.mem = ext.mem /\ ext'.wait = 0
  BY <1>1, <1>4, IdleBus, ExternStep
<1>6. CacheRaddr(bus) = Slot(bus.addr)
  BY <1>1 DEF CacheRaddr, Flushing
<1>7. rtags' = tags'[LineOf(bus.addr)] /\ rdata' = data'[Slot(bus.addr)]
  BY <1>6 DEF Step, Clock, TagRaddr
<1>8. xm' = [xm EXCEPT !.was = FALSE, !.paddr = XmBus(bus).addr, !.pcm = CacheRaddr(bus),
                       !.addr = Base(bus.addr), !.cm = Base(Slot(bus.addr))]
  BY <1>1 DEF Step, Clock, NextXm
<1>9. /\ xm' \in Transfers /\ ~xm'.to_cache /\ ~xm'.to_xm /\ ~xm'.was /\ Word(xm'.addr) = 0
      /\ xm'.cm = Place(LineOf(bus.addr), 0)
  BY <1>1, <1>3, <1>4, <1>6, <1>8, IdleBus DEF Transfers
<1>10. ab.op # "write" => tags' = tags /\ data' = data /\ latest' = latest
  BY <1>1 DEF Step, Clock, NewTags, NewData, Remember, Invalidating, Accessing
<1>11. ASSUME ab.op = "write"
       PROVE  /\ tag_valid /\ tags' = WroteTag
              /\ data' = [data EXCEPT ![Slot(ab.addr)][tag_way] = ab.data]
              /\ latest' = IF ab.addr = watched THEN ab.data ELSE latest
  <2>1. tag_valid
    BY <1>11 DEF Accessing
  <2>2. Ready
    BY <1>1, <2>1 DEF Ready, IInv, TypeInv
  <2>3. QED
    BY <1>1, <1>11, <2>1, <2>2 DEF Step, Clock, NewTags, NewData, Remember, Invalidating
<1>12. QED
  BY <1>5, <1>7, <1>9, <1>10, <1>11

\* The request misses, and nothing is under way.
Missing == ~Transferring /\ ~Flushing /\ Accessing /\ ~tag_valid

\* On a miss the request waits.
LEMMA Missed ==
  ASSUME IInv, Usage, NEW bus, NEW flush, Step(bus, flush), Missing
  PROVE  /\ ab' = ab /\ bus = ab /\ latest' = latest /\ data' = data /\ stalled = FALSE
         /\ rtags' = tags'[Here] /\ rtags = tags[Here] /\ Here \in Line
         /\ TagOf(ab.addr) \in Tagset /\ ab.addr = At(TagOf(ab.addr), Here, Word(ab.addr))
         /\ Victim \in Way /\ rtags.way[Victim].addr \in Tagset /\ tags \in [Line -> TagSet]
         /\ xm_ready /\ ~xm.to_cache /\ ~xm.to_xm /\ xm \in Transfers /\ ab.addr \in Addr
<1>1. ~Ready
  BY DEF Missing, Ready
<1>2. bus = ab /\ ab' = ab /\ ab \in Accesses /\ stalled = FALSE
  BY <1>1, Asking DEF IInv, TypeInv
<1>3. latest' = latest
  BY <1>1 DEF Missing, Step, Clock, Remember, Invalidating
<1>4. /\ ~xm.to_cache /\ ~xm.to_xm /\ xm_ready /\ xm \in Transfers
  BY DEF Missing, IInv, TypeInv, Waits, Transferring
<1>5. data' = data
  BY <1>4 DEF Missing, Step, Clock, NewData
<1>6. rtags' = tags'[Here]
  BY <1>2 DEF Missing, Step, Clock, TagRaddr, Here
<1>7. /\ Here \in Line /\ TagOf(ab.addr) \in Tagset
      /\ ab.addr \in Addr /\ ab.addr = At(TagOf(ab.addr), Here, Word(ab.addr))
  BY <1>2, Parts DEF Here, Accesses
<1>8. rtags = tags[Here] /\ tags \in [Line -> TagSet]
  BY DEF Missing, IInv, TypeInv, Looked
<1>9. Victim \in Way /\ rtags.way[Victim].addr \in Tagset
  BY <1>7, <1>8 DEF Victim, TagSet, TagKinds
<1>10. QED
  BY <1>2, <1>3, <1>4, <1>5, <1>6, <1>7, <1>8, <1>9

\* The victim is dirty: it is marked as clean, and its first word is read.
LEMMA EvictCycle ==
  ASSUME IInv, Usage, NEW bus, NEW flush, Step(bus, flush), Missing, Evicts
  PROVE  /\ ext' \in Externals /\ ext'.mem = ext.mem /\ ext'.wait = 0
         /\ xm' \in Transfers /\ ~xm'.to_cache /\ xm'.to_xm /\ ~xm'.was /\ xm'.way = Victim
         /\ xm'.addr = At(rtags.way[Victim].addr, Here, 0) /\ xm'.cm = Place(Here, Succ(0))
         /\ rdata' = data[Place(Here, 0)]
         /\ tags' = Tagged(Here, Victim, TRUE, FALSE, rtags.way[Victim].addr, Victim)
<1>1. /\ ~xm.to_cache /\ ~xm.to_xm /\ xm_ready /\ xm \in Transfers
      /\ ~Transferring /\ ~Flushing /\ Accessing /\ ~tag_valid /\ stalled = FALSE
      /\ Here \in Line /\ Victim \in Way /\ rtags.way[Victim].addr \in Tagset
  BY Missed DEF Missing
<1>2. xm.cm = Place(Here, 0) /\ 0 \in Words /\ Succ(0) \in Words
  BY <1>1, SuccFacts, Positive DEF IInv, Evicting, Words
<1>3. XmBus(bus) = Idle
  BY <1>1 DEF XmBus
<1>4. ext' \in Externals /\ ext'.mem = ext.mem /\ ext'.wait = 0
  BY <1>1, <1>3, IdleBus, ExternStep
<1>5. tags' = Tagged(Here, Victim, TRUE, FALSE, rtags.way[Victim].addr, Victim)
  BY <1>1 DEF Step, Clock, NewTags, EvictedTag, Here
<1>6. CacheRaddr(bus) = xm.cm
  BY <1>1 DEF CacheRaddr, Flushing
<1>7. CmAdvanced(bus) = Place(Here, Succ(0))
  <2>1. Base(xm.cm) = Place(Here, 0) /\ Word(xm.cm) = 0
    BY <1>1, <1>2, Placed
  <2>2. CmAdvanced(bus) = Place(Here, 0) + Succ(0)
    BY <1>6, <2>1 DEF CmAdvanced, Succ
  <2>3. Here * LineSize \in Int
    BY <1>1, Positive DEF Line
  <2>4. QED
    BY <1>2, <2>2, <2>3 DEF Place, Words
<1>8. WriteBack = At(rtags.way[Victim].addr, Here, 0)
  <2>1. AddrOf(rtags.way[Victim].addr, Here) \in Int
    BY <1>1, Positive DEF AddrOf, Tagset, Line
  <2>2. QED
    BY <2>1 DEF WriteBack, At, Here
<1>9. xm' = [xm EXCEPT !.was = FALSE, !.paddr = XmBus(bus).addr, !.pcm = CacheRaddr(bus),
               !.to_xm = TRUE, !.way = Victim, !.addr = WriteBack, !.cm = CmAdvanced(bus)]
  BY <1>1 DEF Step, Clock, NextXm
<1>10. WriteBack \in Addr /\ CmAdvanced(bus) \in Slots /\ xm.cm \in Slots
  BY <1>1, <1>2, <1>7, <1>8, AtType, Placed
<1>11. /\ xm' \in Transfers /\ ~xm'.to_cache /\ xm'.to_xm /\ ~xm'.was /\ xm'.way = Victim
       /\ xm'.addr = At(rtags.way[Victim].addr, Here, 0) /\ xm'.cm = Place(Here, Succ(0))
  BY <1>1, <1>3, <1>6, <1>7, <1>8, <1>9, <1>10, IdleBus DEF Transfers
<1>12. rdata' = data[Place(Here, 0)]
  BY <1>2, <1>6, Missed DEF Step, Clock
<1>13. QED
  BY <1>4, <1>5, <1>11, <1>12

\* The victim is clean: the tag is overwritten, and the first word asked for.
LEMMA StartCycle ==
  ASSUME IInv, Usage, NEW bus, NEW flush, Step(bus, flush), Missing, ~Evicts
  PROVE  /\ ext' \in Externals /\ ext'.mem = ext.mem
         /\ ext'.rdata = ext.mem[At(TagOf(ab.addr), Here, 0)]
         /\ xm' \in Transfers /\ xm'.to_cache /\ ~xm'.to_xm /\ ~xm'.was /\ xm'.way = Victim
         /\ xm'.addr = At(TagOf(ab.addr), Here, Succ(0)) /\ xm'.cm = Place(Here, 0)
         /\ tags' = Tagged(Here, Victim, TRUE, FALSE, TagOf(ab.addr), (Victim + 1) % Ways)
<1>1. /\ ~xm.to_cache /\ ~xm.to_xm /\ xm_ready /\ xm \in Transfers
      /\ ~Transferring /\ ~Flushing /\ Accessing /\ ~tag_valid /\ stalled = FALSE
      /\ Here \in Line /\ Victim \in Way /\ TagOf(ab.addr) \in Tagset /\ bus = ab
      /\ ab.addr \in Addr
  BY Missed DEF Missing
<1>2. 0 \in Words /\ Succ(0) \in Words /\ Word(xm.addr) = 0
  BY <1>1, SuccFacts, Positive DEF IInv, Waits, Words
<1>3. Base(ab.addr) = At(TagOf(ab.addr), Here, 0)
  BY <1>1, Parts, AtParts DEF Here
<1>4. At(TagOf(ab.addr), Here, 0) \in Addr /\ At(TagOf(ab.addr), Here, Succ(0)) \in Addr
  BY <1>1, <1>2, AtType
<1>5. XmBus(bus) = [op |-> "read", addr |-> At(TagOf(ab.addr), Here, 0), data |-> Other]
  BY <1>1, <1>3 DEF XmBus
<1>6. /\ ext' \in Externals /\ ext'.mem = ext.mem
      /\ ext'.rdata = ext.mem[At(TagOf(ab.addr), Here, 0)]
  <2>1. /\ XmBus(bus).op = "read" /\ XmBus(bus).addr = At(TagOf(ab.addr), Here, 0)
        /\ XmBus(bus).data = Other
    BY <1>5
  <2>2. XmBus(bus).addr \in Addr /\ XmBus(bus).data \in Values
    BY <1>4, <2>1 DEF Values, Other
  <2>3. QED
    BY <1>1, <2>1, <2>2, ExternStep
<1>7. tags' = Tagged(Here, Victim, TRUE, FALSE, TagOf(ab.addr), (Victim + 1) % Ways)
  BY <1>1 DEF Step, Clock, NewTags, Here
<1>8. Advanced(bus) = At(TagOf(ab.addr), Here, Succ(0))
  <2>1. Base(At(TagOf(ab.addr), Here, 0)) = At(TagOf(ab.addr), Here, 0)
    BY <1>1, <1>2, AtParts
  <2>2. Advanced(bus) = At(TagOf(ab.addr), Here, 0) + Succ(0)
    BY <1>2, <1>5, <2>1 DEF Advanced, Succ
  <2>3. AddrOf(TagOf(ab.addr), Here) \in Int
    BY <1>1, Positive DEF AddrOf, Tagset, Line
  <2>4. QED
    BY <1>2, <2>2, <2>3 DEF At, Words
<1>9. Base(Slot(ab.addr)) = Place(Here, 0) /\ Place(Here, 0) \in Slots
  BY <1>1, <1>2, Parts, AtParts, Placed DEF Here
<1>10. CacheRaddr(bus) \in Slots
  <2>1. CacheRaddr(bus) = Slot(bus.addr)
    BY <1>1 DEF CacheRaddr, Flushing
  <2>2. QED
    BY <1>1, <2>1, Parts, AtParts, Placed
<1>11. xm' = [xm EXCEPT !.was = FALSE, !.paddr = XmBus(bus).addr, !.pcm = CacheRaddr(bus),
               !.to_cache = TRUE, !.way = Victim, !.addr = Advanced(bus),
               !.cm = Base(Slot(ab.addr))]
  <2>1. ~(~xm_ready /\ Transferring) /\ ~(xm.to_xm \/ (xm.was /\ ~xm_ready))
    BY <1>1
  <2>2. xm' = NextXm(bus)
    BY DEF Step, Clock
  <2>3. QED
    BY <1>1, <2>1, <2>2 DEF NextXm
<1>12. /\ xm' \in Transfers /\ xm'.to_cache /\ ~xm'.to_xm /\ ~xm'.was /\ xm'.way = Victim
       /\ xm'.addr = At(TagOf(ab.addr), Here, Succ(0)) /\ xm'.cm = Place(Here, 0)
  <2>1. /\ XmBus(bus).addr \in Addr /\ Advanced(bus) \in Addr /\ Base(Slot(ab.addr)) \in Slots
        /\ CacheRaddr(bus) \in Slots /\ Victim \in Way /\ ~xm.to_xm /\ xm \in Transfers
    BY <1>1, <1>4, <1>5, <1>8, <1>9, <1>10
  <2>2. /\ xm' \in Transfers /\ xm'.to_cache /\ ~xm'.to_xm /\ ~xm'.was /\ xm'.way = Victim
        /\ xm'.addr = Advanced(bus) /\ xm'.cm = Base(Slot(ab.addr))
    BY <1>11, <2>1 DEF Transfers
  <2>3. QED
    BY <1>8, <1>9, <2>2
<1>13. QED
  BY <1>6, <1>7, <1>12

\* A line's tags as they were read but for one way's.
Entry(w, tag, next) == [way |-> [rtags.way EXCEPT ![w] = tag], next |-> next]

LEMMA EntryFacts ==
  ASSUME rtags \in TagSet, NEW w \in Way, NEW tag \in TagKinds, NEW next \in Way
  PROVE  /\ Entry(w, tag, next) \in TagSet
         /\ Entry(w, tag, next).way[w] = tag
         /\ \A v \in Way : v # w => Entry(w, tag, next).way[v] = rtags.way[v]
<1>1. rtags.way \in [Way -> TagKinds]
  BY DEF TagSet
<1>2. Entry(w, tag, next) \in TagSet
  BY <1>1 DEF TagSet, Entry
<1>3. /\ Entry(w, tag, next).way[w] = tag
      /\ \A v \in Way : v # w => Entry(w, tag, next).way[v] = rtags.way[v]
  BY <1>1 DEF Entry
<1>4. QED
  BY <1>2, <1>3

\* What does not depend on the kind of cycle.
LEMMA TypeStep ==
  ASSUME IInv, Usage, NEW bus, NEW flush, Step(bus, flush),
         tags' \in [Line -> TagSet], data' \in [Slots -> [Way -> Values]],
         xm' \in Transfers, ext' \in Externals, latest' \in Values,
         CacheRaddr(bus) \in Slots
  PROVE  TypeInv' /\ Asked'
<1>1. /\ bus \in Accesses /\ ab' = bus /\ stalled' = FALSE
      /\ writeable' = writeable /\ watched' = watched
      /\ bus.op = "write" => writeable /\ (bus.addr # watched => bus.data = Other)
  BY Asking DEF IInv
<1>2. fl' \in Flushings
  BY Flow DEF IInv
<1>3. TagRaddr(bus) \in Line
  <2>1. LineOf(bus.addr) \in Line
    BY OnBus, Parts
  <2>2. fl.line \in Line
    BY DEF IInv, TypeInv, Flushings
  <2>3. \A n \in Nat : n % Lines \in Line
    BY Positive DEF Line
  <2>4. fl.line + (IF fl.way = Ways - 1 THEN 1 ELSE 0) \in Nat
    BY <2>2, Positive DEF Line
  <2>5. (fl.line + IF fl.way = Ways - 1 THEN 1 ELSE 0) % Lines \in Line
    BY <2>3, <2>4
  <2>6. QED
    BY <2>1, <2>5 DEF TagRaddr
<1>4. rtags' = tags'[TagRaddr(bus)] /\ rdata' = data'[CacheRaddr(bus)]
  BY DEF Step, Clock
<1>5. rtags' \in TagSet /\ rdata' \in [Way -> Values]
  BY <1>3, <1>4
<1>6. writeable \in BOOLEAN /\ watched \in Addr
  BY DEF IInv, TypeInv
<1>7. TypeInv'
  BY <1>1, <1>2, <1>5, <1>6 DEF TypeInv
<1>8. Asked'
  BY <1>1 DEF Asked
<1>9. QED
  BY <1>7, <1>8

\* Without a write the data expected stay the same.
LEMMA ExpectedSame ==
  ASSUME latest' = latest, watched' = watched
  PROVE  \A a : Expected(a)' = Expected(a)
BY DEF Expected

\* What a cycle of a transfer leaves alone.
LEMMA HeldKeeps ==
  ASSUME IInv, Usage, NEW bus, NEW flush, Step(bus, flush), Transferring, TypeInv',
         ~writeable \/ Flushing => ext'.mem = ext.mem
  PROVE  /\ Clean' /\ Flushed' /\ Looked' /\ Here' = Here
         /\ ~Flushing' => ~Flushing
         /\ writeable /\ ~Flushing => ~Flushing'
         /\ ~Flushing => rtags' = rtags /\ (tag_valid' <=> tag_valid)
         /\ \A a : Expected(a)' = Expected(a)
         /\ writeable' = writeable /\ (Accessing' <=> Accessing)
         /\ tags' = tags
<1>1. /\ Accessing /\ ab' = ab /\ bus = ab /\ tags' = tags /\ latest' = latest
      /\ rtags' = tags[TagRaddr(bus)] /\ writeable' = writeable /\ watched' = watched
  BY Held, Asking DEF IInv
<1>2. \/ fl' = fl
      \/ ~writeable /\ ~Flushing /\ Flushing' /\ fl'.r /\ fl'.line = 0 /\ fl'.way = 0
  BY Flow DEF IInv, Invalidating
<1>3. /\ ~Flushing' => ~Flushing
      /\ writeable /\ ~Flushing => ~Flushing'
      /\ ~writeable \/ Flushing' => ~writeable \/ Flushing
  BY <1>2 DEF Flushing
<1>4. \A a : Expected(a)' = Expected(a)
  BY <1>1, ExpectedSame
<1>5. TagRaddr(bus) \in Line
  <2>1. rtags' \in TagSet /\ fl.line \in Line
    BY DEF IInv, TypeInv, Flushings
  <2>2. LineOf(bus.addr) \in Line
    BY OnBus, Parts
  <2>3. \A n \in Nat : n % Lines \in Line
    BY Positive DEF Line
  <2>4. fl.line + (IF fl.way = Ways - 1 THEN 1 ELSE 0) \in Nat
    BY <2>1, Positive DEF Line
  <2>5. (fl.line + IF fl.way = Ways - 1 THEN 1 ELSE 0) % Lines \in Line
    BY <2>3, <2>4
  <2>6. QED
    BY <2>2, <2>5 DEF TagRaddr
<1>6. Clean'
  <2> SUFFICES ASSUME ~writeable' \/ Flushing'
               PROVE  /\ \A w \in Way : ~rtags'.way[w].dirty
                      /\ \A line \in Line, w \in Way : ~tags'[line].way[w].dirty
                      /\ \A a \in Addr : ext'.mem[a] = Expected(a)'
    BY DEF Clean
  <2>1. ~writeable \/ Flushing
    BY <1>1, <1>3
  <2>2. QED
    BY <1>1, <1>4, <1>5, <2>1 DEF IInv, Clean
<1>7. Flushed'
  <2>1. CASE fl' = fl
    BY <1>1, <2>1 DEF IInv, Flushed, Flushing
  <2>2. CASE fl'.r /\ fl'.line = 0 /\ fl'.way = 0
    <3>1. \A line \in Line, w \in Way : ~(line < 0) /\ ~(w < 0)
      BY Positive DEF Line, Way, Ways
    <3>2. QED
      BY <2>2, <3>1 DEF Flushed
  <2>3. QED
    BY <1>2, <2>1, <2>2
<1>8. ~Flushing => TagRaddr(bus) = Here
  BY <1>1 DEF TagRaddr, Here
<1>9. Looked' /\ Here' = Here
  BY <1>1, <1>3, <1>8 DEF Looked, Here
<1>10. ASSUME ~Flushing PROVE rtags' = rtags /\ (tag_valid' <=> tag_valid)
  <2>1. rtags' = rtags
    BY <1>1, <1>8, <1>10 DEF IInv, Looked
  <2>2. tag_valid' <=> tag_valid
    BY <1>1, <2>1, Found, FoundNext DEF Hit, IInv
  <2>3. QED
    BY <2>1, <2>2
<1>11. QED
  BY <1>1, <1>3, <1>4, <1>6, <1>7, <1>9, <1>10 DEF Accessing

----------------------------------------------------------------------------
(* Each kind of cycle keeps the invariant.                                 *)

\* Nothing moves.
LEMMA WaitStep ==
  ASSUME IInv, Usage, NEW bus, NEW flush, Step(bus, flush), Transferring, ~xm_ready
  PROVE  IInv'
<1>1. /\ data' = data /\ ext'.mem = ext.mem /\ ext'.rdata = ext.rdata /\ ext' \in Externals
      /\ xm' = [xm EXCEPT !.was = xm.to_xm \/ xm.was] /\ rdata' = data[CacheRaddr(bus)]
      /\ xm.was => CacheRaddr(bus) = xm.pcm
  BY WaitCycle
<1>2. /\ tags' = tags /\ latest' = latest /\ Accessing /\ ab' = ab /\ bus = ab
  BY Held
<1>3. xm \in Transfers
  BY DEF IInv, TypeInv
<1>4. /\ xm' \in Transfers /\ xm'.to_cache = xm.to_cache /\ xm'.to_xm = xm.to_xm
      /\ xm'.was = (xm.to_xm \/ xm.was) /\ xm'.addr = xm.addr /\ xm'.cm = xm.cm
      /\ xm'.way = xm.way /\ xm'.pcm = xm.pcm
  BY <1>1, <1>3 DEF Transfers
<1>5. CacheRaddr(bus) \in Slots
  <2>1. CASE xm.was
    BY <1>1, <1>3, <2>1 DEF Transfers
  <2>2. CASE ~xm.was
    <3>1. xm.to_cache /\ ~xm.to_xm
      BY <2>2 DEF IInv, Waits
    <3>2. CacheRaddr(bus) \in {fl.line, Slot(fl.addr), xm.cm, Slot(bus.addr)}
      BY <2>2, <3>1 DEF CacheRaddr
    <3>3. ~(fl.w /\ rtags.way[FlushWay].dirty)
      <4>1. fl.w => Flushing
        BY DEF Flushing
      <4>2. FlushWay \in Way
        BY DEF FlushWay, IInv, TypeInv, Flushings
      <4>3. QED
        BY <4>1, <4>2 DEF IInv, Clean
    <3>4. CacheRaddr(bus) \in {xm.cm, Slot(bus.addr)}
      BY <2>2, <3>1, <3>3 DEF CacheRaddr
    <3>5. Slot(bus.addr) \in Slots
      BY OnBus, Parts, AtParts, Placed
    <3>6. QED
      BY <1>3, <3>4, <3>5 DEF Transfers
  <2>3. QED
    BY <2>1, <2>2
<1>6. TypeInv' /\ Asked'
  BY <1>1, <1>2, <1>4, <1>5, TypeStep DEF IInv, TypeInv
<1>7. /\ Clean' /\ Flushed' /\ Looked' /\ Here' = Here
      /\ ~Flushing' => ~Flushing
      /\ writeable /\ ~Flushing => ~Flushing'
      /\ ~Flushing => rtags' = rtags /\ (tag_valid' <=> tag_valid)
      /\ \A a : Expected(a)' = Expected(a)
      /\ writeable' = writeable /\ (Accessing' <=> Accessing)
  BY <1>1, <1>6, HeldKeeps
<1>8. Waits'
  BY <1>2, <1>4, <1>7 DEF IInv, Waits, Transferring
<1>9. Answering'
  <2>1. ~xm'.to_cache /\ ~xm'.to_xm => xm.was
    BY <1>4 DEF IInv, Waits
  <2>2. xm.was => ~Flushing /\ ~tag_valid
    BY DEF IInv, Waits
  <2>3. QED
    BY <1>7, <2>1, <2>2 DEF Answering
<1>10. Fills'
  BY <1>1, <1>2, <1>4, <1>7 DEF IInv, Fills
<1>11. Spills'
  <2>1. xm.to_xm => xm.was
    BY DEF IInv, Waits
  <2>2. QED
    BY <1>1, <1>2, <1>4, <1>7, <2>1 DEF IInv, Spills
<1>12. Evicting'
  BY <1>2, <1>4, <1>7 DEF IInv, Evicting, Evicts, Victim
<1>13. Marked' /\ Unique'
  BY <1>2, <1>7 DEF IInv, Marked, Unique
<1>14. Copies' /\ Originals'
  BY <1>1, <1>2, <1>4, <1>7 DEF IInv, Copies, Originals, Own
<1>15. Absent'
  BY <1>1, <1>2, <1>7 DEF IInv, Absent, Resident
<1>16. QED
  BY <1>6, <1>7, <1>8, <1>9, <1>10, <1>11, <1>12, <1>13, <1>14, <1>15 DEF IInv

\* A word of the line that is filled arrives.
LEMMA FillStep ==
  ASSUME IInv, Usage, NEW bus, NEW flush, Step(bus, flush), xm.to_cache, xm_ready
  PROVE  IInv'
<1> DEFINE k == Word(xm.cm)
           t == TagOf(ab.addr)
<1>1. /\ k \in Words /\ Here \in Line /\ t \in Tagset
      /\ data' = [data EXCEPT ![Place(Here, k)][xm.way] = ext.rdata]
      /\ ext'.mem = ext.mem /\ ext' \in Externals
      /\ Succ(k) # 0 => ext'.rdata = ext.mem[At(t, Here, Succ(k))]
      /\ Succ(k) = 0 => ext'.wait = 0
      /\ xm' \in Transfers
      /\ xm'.to_cache = (Succ(k) # 0) /\ ~xm'.to_xm /\ ~xm'.was /\ xm'.way = xm.way
      /\ xm'.addr = IF Succ(k) # 0 THEN At(t, Here, Succ(Succ(k))) ELSE At(t, Here, 0)
      /\ xm'.cm = Place(Here, Succ(k))
      /\ rdata' = data'[CacheRaddr(bus)]
      /\ CacheRaddr(bus) = Slot(ab.addr) \/ (~tag_valid /\ Evicts)
  BY FillCycle
<1>2. /\ Transferring /\ Accessing /\ ab' = ab /\ bus = ab /\ tags' = tags /\ latest' = latest
      /\ ~xm.to_xm
  BY Held DEF Transferring, IInv, Waits
<1>3. /\ tags[Here].way[xm.way] = [valid |-> TRUE, dirty |-> FALSE, addr |-> t]
      /\ ext.rdata = ext.mem[At(t, Here, k)] /\ xm.way \in Way
  BY DEF IInv, Fills, TypeInv, Transfers
<1>4. ~Flushing => tag_valid
  BY <1>3, Found DEF IInv, Looked, Hit
<1>5. Flushing => ~Evicts
  <2>1. Victim \in Way
    BY DEF IInv, TypeInv, TagSet, Victim
  <2>2. QED
    BY <2>1 DEF IInv, Clean, Evicts
<1>6. CacheRaddr(bus) = Slot(ab.addr) /\ Slot(ab.addr) \in Slots
  <2>1. Slot(ab.addr) \in Slots
    BY <1>2, OnBus, Parts, AtParts, Placed
  <2>2. QED
    BY <1>1, <1>4, <1>5, <2>1
<1>7. /\ k \in Words /\ Succ(k) \in Words /\ Succ(Succ(k)) \in Words /\ 0 \in Words
      /\ Succ(k) = 0 <=> k = LineSize - 1
      /\ k # LineSize - 1 => Succ(k) = k + 1
  BY <1>1, SuccFacts, Positive DEF Words
<1>8. ext.mem \in [Addr -> Values] /\ ext.rdata \in Values /\ data \in [Slots -> [Way -> Values]]
  BY DEF IInv, TypeInv, Externals
<1> HIDE DEF k, t
<1>9. Place(Here, k) \in Slots
  BY <1>1, Placed
<1>10. /\ data' \in [Slots -> [Way -> Values]]
       /\ data'[Place(Here, k)][xm.way] = ext.rdata
       /\ \A s \in Slots, w \in Way : s # Place(Here, k) \/ w # xm.way => data'[s][w] = data[s][w]
  BY <1>1, <1>3, <1>8, <1>9
<1>11. TypeInv' /\ Asked'
  <2>1. tags \in [Line -> TagSet] /\ latest \in Values
    BY DEF IInv, TypeInv
  <2>2. QED
    BY <1>1, <1>2, <1>6, <1>10, <2>1, TypeStep
<1>12. /\ Clean' /\ Flushed' /\ Looked' /\ Here' = Here
       /\ ~Flushing' => ~Flushing
       /\ ~Flushing => rtags' = rtags /\ (tag_valid' <=> tag_valid)
       /\ \A a : Expected(a)' = Expected(a)
       /\ writeable' = writeable /\ (Accessing' <=> Accessing)
  BY <1>1, <1>2, <1>11, HeldKeeps
<1>13. Waits'
  <2>1. Word(At(t, Here, 0)) = 0
    BY <1>1, <1>7, AtParts
  <2>2. QED
    BY <1>1, <1>2, <1>12, <2>1 DEF Waits, xm_ready
<1>14. Answering'
  BY <1>1, <1>2, <1>6, <1>12 DEF Answering
<1>15. Fills'
  <2>1. Word(xm'.cm) = Succ(k)
    BY <1>1, <1>7, Placed
  <2>2. QED
    BY <1>1, <1>2, <1>3, <1>12, <2>1 DEF Fills, t
<1>16. Spills' /\ Evicting'
  BY <1>1, <1>4, <1>12 DEF Spills, Evicting
<1>17. Marked' /\ Unique'
  BY <1>2, <1>12 DEF IInv, Marked, Unique
<1>18. Copies'
  <2> SUFFICES ASSUME ~Flushing', NEW line \in Line, NEW w \in Way, NEW j \in Words,
                      tags[line].way[w].valid,
                      ~(Succ(k) # 0 /\ line = Here /\ w = xm.way /\ j >= Succ(k))
               PROVE  data'[Place(line, j)][w] = Expected(At(tags[line].way[w].addr, line, j))
    <3>1. Word(xm'.cm) = Succ(k)
      BY <1>1, <1>7, Placed
    <3>2. QED
      BY <1>1, <1>2, <1>12, <3>1, ZenonT(60) DEF Copies, Own
  <2>1. ~Flushing
    BY <1>12
  <2>2. CASE line = Here /\ w = xm.way /\ j = k
    <3>1. ext.mem[At(t, Here, k)] = Expected(At(t, Here, k))
      BY <1>1, <1>2, <1>3, <2>1 DEF IInv, Originals
    <3>2. QED
      BY <1>3, <1>10, <2>2, <3>1
  <2>3. CASE line # Here \/ w # xm.way \/ j # k
    <3>1. data'[Place(line, j)][w] = data[Place(line, j)][w]
      <4>1. Place(line, j) \in Slots
        BY Placed
      <4>2. w = xm.way => Place(line, j) # Place(Here, k)
        BY <1>1, <2>3, PlaceOnce
      <4>3. QED
        BY <1>10, <4>1, <4>2
    <3>2. ~(line = Here /\ w = xm.way /\ j >= k)
      BY <1>1, <1>7, <2>3 DEF Words
    <3>3. QED
      BY <2>1, <3>1, <3>2 DEF IInv, Copies, Own, k
  <2>4. QED
    BY <2>2, <2>3
<1>19. Originals'
  BY <1>1, <1>2, <1>12 DEF IInv, Originals
<1>20. Absent'
  BY <1>1, <1>2, <1>12 DEF IInv, Absent, Resident
<1>21. QED
  BY <1>11, <1>12, <1>13, <1>14, <1>15, <1>16, <1>17, <1>18, <1>19, <1>20 DEF IInv

\* A word of the line that is written back goes out.
LEMMA SpillStep ==
  ASSUME IInv, Usage, NEW bus, NEW flush, Step(bus, flush), xm.to_xm, xm_ready
  PROVE  IInv'
<1> DEFINE k == Word(xm.addr)
           t == tags[Here].way[xm.way].addr
<1>1. /\ k \in Words /\ Here \in Line /\ t \in Tagset /\ xm.way \in Way
      /\ data' = data
      /\ ext' \in Externals /\ ext'.mem = [ext.mem EXCEPT ![At(t, Here, k)] = rdata[xm.way]]
      /\ xm' \in Transfers
      /\ xm'.to_xm = (Succ(k) # 0) /\ ~xm'.to_cache /\ xm'.was /\ xm'.way = xm.way
      /\ xm'.addr = At(t, Here, Succ(k))
      /\ Succ(k) # 0 =>
           /\ xm'.cm = Place(Here, Succ(Succ(k))) /\ xm'.pcm = Place(Here, Succ(k))
           /\ rdata' = data[Place(Here, Succ(k))]
      /\ Succ(k) = 0 => xm'.cm = Place(Here, 0)
      /\ CacheRaddr(bus) \in Slots
  BY SpillCycle
<1>2. /\ Transferring /\ ab' = ab /\ bus = ab /\ tags' = tags /\ latest' = latest
      /\ writeable /\ ~Flushing /\ Accessing /\ ~tag_valid /\ ~xm.to_cache
  BY Held DEF Transferring, IInv, Waits
<1>3. /\ tags[Here].way[xm.way].valid /\ ~tags[Here].way[xm.way].dirty
      /\ rdata[xm.way] = data[Place(Here, k)][xm.way]
  BY DEF IInv, Spills
<1>4. /\ k \in Words /\ Succ(k) \in Words /\ 0 \in Words
      /\ Succ(k) = 0 <=> k = LineSize - 1
      /\ k # LineSize - 1 => Succ(k) = k + 1
  BY <1>1, SuccFacts, Positive DEF Words
<1>5. ext.mem \in [Addr -> Values] /\ data \in [Slots -> [Way -> Values]]
  BY DEF IInv, TypeInv, Externals
<1>6. At(t, Here, k) \in Addr
  BY <1>1, AtType
<1>7. rdata[xm.way] = Expected(At(t, Here, k))
  BY <1>1, <1>2, <1>3 DEF IInv, Copies
<1>8. TypeInv' /\ Asked'
  <2>1. tags \in [Line -> TagSet] /\ latest \in Values
    BY DEF IInv, TypeInv
  <2>2. QED
    BY <1>1, <1>2, <1>5, <2>1, TypeStep
<1>9. /\ Clean' /\ Flushed' /\ Looked' /\ Here' = Here
      /\ ~Flushing' /\ ~tag_valid' /\ Accessing' /\ writeable' /\ rtags' = rtags
      /\ \A a : Expected(a)' = Expected(a)
  BY <1>2, <1>8, HeldKeeps
<1>10. Word(xm'.addr) = Succ(k)
  BY <1>1, <1>4, AtParts
<1> HIDE DEF k, t
<1>11. /\ ext'.mem[At(t, Here, k)] = Expected(At(t, Here, k))
       /\ \A a \in Addr : a # At(t, Here, k) => ext'.mem[a] = ext.mem[a]
  BY <1>1, <1>5, <1>6, <1>7
<1>12. Waits'
  BY <1>1, <1>9, <1>10 DEF Waits
<1>13. Answering' /\ Fills'
  BY <1>1, <1>9 DEF Answering, Fills
<1>14. Spills'
  <2> SUFFICES ASSUME Succ(k) # 0
               PROVE  /\ tags[Here].way[xm.way].valid /\ ~tags[Here].way[xm.way].dirty
                      /\ xm'.addr = At(t, Here, Succ(k)) /\ xm'.cm = Place(Here, Succ(Succ(k)))
                      /\ rdata'[xm.way] = data[Place(Here, Succ(k))][xm.way]
                      /\ xm'.pcm = Place(Here, Succ(k))
    BY <1>1, <1>2, <1>9, <1>10 DEF Spills, t
  <2> QED
    BY <1>1, <1>3
<1>15. Evicting'
  BY <1>1, <1>9 DEF Evicting
<1>16. Marked' /\ Unique'
  BY <1>2 DEF IInv, Marked, Unique
<1>17. Copies'
  BY <1>1, <1>2, <1>9 DEF IInv, Copies, Own
<1>18. Originals'
  <2> SUFFICES ASSUME NEW line \in Line, NEW w \in Way, NEW j \in Words,
                      tags[line].way[w].valid, ~tags[line].way[w].dirty,
                      ~(Succ(k) # 0 /\ line = Here /\ w = xm.way /\ j >= Succ(k))
               PROVE  ext'.mem[At(tags[line].way[w].addr, line, j)]
                        = Expected(At(tags[line].way[w].addr, line, j))
    <3>1. \A line \in Line, w \in Way : Own(line, w)' <=> line = Here /\ w = xm.way
      BY <1>1, <1>9 DEF Own
    <3>2. xm'.to_xm <=> Succ(k) # 0
      BY <1>1
    <3>3. QED
      BY <1>1, <1>2, <1>9, <1>10, <3>1, <3>2 DEF Originals
  <2>1. tags[line].way[w].addr \in Tagset
    BY DEF IInv, TypeInv, TagSet, TagKinds
  <2>2. At(tags[line].way[w].addr, line, j) \in Addr
    BY <2>1, AtType
  <2>3. CASE At(tags[line].way[w].addr, line, j) = At(t, Here, k)
    BY <1>11, <2>3
  <2>4. CASE At(tags[line].way[w].addr, line, j) # At(t, Here, k)
    <3>1. ~(line = Here /\ w = xm.way /\ j >= k)
      BY <1>1, <1>4, <2>4 DEF Words, t
    <3>2. QED
      BY <1>2, <1>11, <2>2, <2>4, <3>1 DEF IInv, Originals, Own, k
  <2>5. QED
    BY <2>3, <2>4
<1>19. Absent'
  BY <1>2, <1>9, <1>11 DEF IInv, Absent, Resident
<1>20. QED
  BY <1>8, <1>9, <1>12, <1>13, <1>14, <1>15, <1>16, <1>17, <1>18, <1>19 DEF IInv

\* One entry is invalidated; after the last one none is valid.
LEMMA InvalidateStep ==
  ASSUME IInv, Usage, NEW bus, NEW flush, Step(bus, flush), Invalidating
  PROVE  IInv'
<1>1. /\ data' = data /\ ext' \in Externals /\ ext'.mem = ext.mem /\ ext'.wait = 0
      /\ xm' \in Transfers /\ ~xm'.to_cache /\ ~xm'.to_xm /\ ~xm'.was /\ Word(xm'.addr) = 0
      /\ tags' = Tagged(fl.line, fl.way, FALSE, FALSE, rtags.way[fl.way].addr, rtags.next)
      /\ rtags' = tags'[TagRaddr(bus)] /\ rdata' = data[Slot(bus.addr)]
      /\ latest' = latest
      /\ FlushEnd <=> fl.way = 1 /\ fl.line = Lines - 1
      /\ ~FlushEnd => TagRaddr(bus) = (fl.line + IF fl.way = 1 THEN 1 ELSE 0) % Lines
      /\ FlushEnd => TagRaddr(bus) = LineOf(bus.addr)
  BY InvalidateCycle
<1>2. /\ ab' = bus /\ watched' = watched /\ writeable' = writeable /\ bus.addr \in Addr
  BY Asking, OnBus DEF IInv
<1>3. /\ Flushing' <=> ~FlushEnd
      /\ fl'.r <=> fl.r /\ ~FlushEnd
      /\ fl'.way = (fl.way + 1) % Ways
      /\ fl'.line = IF fl.way = Ways - 1 THEN (fl.line + 1) % Lines ELSE fl.line
      /\ fl' \in Flushings
  BY Flow DEF IInv
<1>4. Flushing /\ ~Transferring /\ ~xm.to_xm /\ ~xm.was
  BY DEF Invalidating, IInv, Waits, Transferring
<1>5. /\ tags \in [Line -> TagSet] /\ rtags \in TagSet /\ fl.line \in Line /\ fl.way \in {0, 1}
      /\ fl.r /\ data \in [Slots -> [Way -> Values]] /\ latest \in Values /\ Way = {0, 1}
  BY <1>4 DEF IInv, TypeInv, Flushings, Flushed, Way, Ways
<1>6. /\ \A w \in Way : ~rtags.way[w].dirty
      /\ \A line \in Line, w \in Way : ~tags[line].way[w].dirty
      /\ \A a \in Addr : ext.mem[a] = Expected(a)
  BY <1>4 DEF IInv, Clean
<1>7. /\ \A line \in Line, w \in Way :
           line < fl.line \/ (line = fl.line /\ w < fl.way) => ~tags[line].way[w].valid
      /\ fl.way = 1 => ~rtags.way[0].valid
  BY <1>4 DEF IInv, Flushed
<1>8. /\ tags' \in [Line -> TagSet]
      /\ \A l \in Line : l # fl.line => tags'[l] = tags[l]
      /\ ~tags'[fl.line].way[fl.way].valid /\ ~tags'[fl.line].way[fl.way].dirty
      /\ \A v \in Way : v # fl.way => tags'[fl.line].way[v] = rtags.way[v]
  <2>1. rtags.way[fl.way].addr \in Tagset /\ rtags.next \in Way
    BY <1>5 DEF TagSet, TagKinds
  <2> DEFINE tag == [valid |-> FALSE, dirty |-> FALSE, addr |-> rtags.way[fl.way].addr]
  <2>2. tags' = [tags EXCEPT ![fl.line] = Entry(fl.way, tag, rtags.next)]
    BY <1>1 DEF Tagged, Entry
  <2>3. tag \in TagKinds /\ ~tag.valid /\ ~tag.dirty
    BY <2>1 DEF TagKinds
  <2>4. fl.line \in Line /\ fl.way \in Way
    BY <1>5
  <2> HIDE DEF tag
  <2>5. QED
    BY <1>5, <2>1, <2>2, <2>3, <2>4, EntryFacts
<1>9. \A line \in Line, w \in Way : ~tags'[line].way[w].dirty
  BY <1>5, <1>6, <1>8
<1>10. \A line \in Line, w \in Way : line < fl.line \/ (line = fl.line /\ w <= fl.way)
                                    => ~tags'[line].way[w].valid
  <2> SUFFICES ASSUME NEW line \in Line, NEW w \in Way,
                      line < fl.line \/ (line = fl.line /\ w <= fl.way)
               PROVE  ~tags'[line].way[w].valid
    OBVIOUS
  <2>1. CASE line < fl.line
    <3>1. line # fl.line
      BY <1>5, <2>1, Positive DEF Line
    <3>2. QED
      BY <1>7, <1>8, <2>1, <3>1
  <2>2. CASE line = fl.line /\ w = fl.way
    BY <1>8, <2>2
  <2>3. CASE line = fl.line /\ w # fl.way /\ w <= fl.way
    <3>1. w = 0 /\ fl.way = 1
      BY <1>5, <2>3
    <3>2. QED
      BY <1>7, <1>8, <2>3, <3>1
  <2>4. QED
    BY <2>1, <2>2, <2>3
<1>11. CacheRaddr(bus) \in Slots
  <2>1. ~Evicts
    BY <1>5, <1>6 DEF Evicts, Victim, TagSet
  <2>2. CacheRaddr(bus) = Slot(bus.addr)
    BY <1>4, <2>1, RaddrPlain
  <2>3. QED
    BY <1>2, <2>2, Parts, AtParts, Placed
<1>12. TypeInv' /\ Asked'
  BY <1>1, <1>5, <1>8, <1>11, TypeStep
<1>13. rtags' \in TagSet /\ TagRaddr(bus) \in Line
  <2>1. \A n \in Nat : n % Lines \in Line
    BY Positive DEF Line
  <2>2. fl.line + (IF fl.way = 1 THEN 1 ELSE 0) \in Nat
    BY <1>5, Positive DEF Line
  <2>3. (fl.line + IF fl.way = 1 THEN 1 ELSE 0) % Lines \in Line
    BY <2>1, <2>2
  <2>4. LineOf(bus.addr) \in Line
    BY <1>2, Parts
  <2>5. QED
    BY <1>1, <1>12, <2>3, <2>4 DEF TypeInv
<1>14. \A w \in Way : ~rtags'.way[w].dirty
  BY <1>1, <1>9, <1>13
<1>15. \A a : Expected(a)' = Expected(a)
  BY <1>1, <1>2, ExpectedSame
<1>16. Waits'
  BY <1>1 DEF Waits, xm_ready
<1>17. Clean'
  BY <1>1, <1>6, <1>9, <1>14, <1>15 DEF Clean
<1>18. Flushed'
  <2> SUFFICES ASSUME ~FlushEnd
               PROVE  /\ fl'.r
                      /\ \A line \in Line, w \in Way :
                           line < fl'.line \/ (line = fl'.line /\ w < fl'.way)
                           => ~tags'[line].way[w].valid
                      /\ fl'.way = 1 => ~rtags'.way[0].valid
    BY <1>1, <1>3 DEF Flushed, Transferring
  <2>1. fl'.r
    BY <1>3, <1>5
  <2>2. CASE fl.way = 0
    <3>1. fl'.way = 1 /\ fl'.line = fl.line
      BY <1>3, <2>2 DEF Ways
    <3>2. TagRaddr(bus) = fl.line
      <4>1. TagRaddr(bus) = (fl.line + 0) % Lines
        BY <1>1, <2>2
      <4>2. fl.line + 0 = fl.line
        BY <1>5, Positive DEF Line
      <4>3. QED
        BY <1>5, <4>1, <4>2, SameLine
    <3>3. \A w \in Way : w < 1 => w <= fl.way
      BY <1>5, <2>2
    <3>4. QED
      BY <1>1, <1>8, <1>10, <2>1, <2>2, <3>1, <3>2, <3>3
  <2>3. CASE fl.way = 1
    <3>1. fl.line # Lines - 1
      BY <1>1, <2>3
    <3>2. fl'.way = 0
      BY <1>3, <2>3 DEF Ways
    <3>3. fl'.line = fl.line + 1
      <4>1. fl'.line = (fl.line + 1) % Lines
        BY <1>3, <2>3 DEF Ways
      <4>2. fl.line + 1 \in Line
        BY <1>5, <3>1, Positive DEF Line
      <4>3. QED
        BY <4>1, <4>2, SameLine
    <3>4. \A line \in Line, w \in Way : line < fl.line + 1 =>
            line < fl.line \/ (line = fl.line /\ w <= fl.way)
      BY <1>5, <2>3, Positive DEF Line
    <3>5. \A line \in Line, w \in Way : ~(w < 0)
      BY <1>5
    <3>6. QED
      BY <1>10, <2>1, <3>2, <3>3, <3>4, <3>5
  <2>4. QED
    BY <1>5, <2>2, <2>3
<1>19. Looked'
  BY <1>1, <1>2, <1>3 DEF Looked, Here
<1>20. Answering'
  BY <1>1, <1>2 DEF Answering
<1>21. Fills' /\ Spills'
  BY <1>1 DEF Fills, Spills
<1>22. Evicting'
  <2>1. ~Evicts'
    BY <1>13, <1>14 DEF Evicts, Victim, TagSet
  <2>2. QED
    BY <2>1 DEF Evicting
<1>23. ASSUME ~Flushing'
       PROVE  \A line \in Line, w \in Way : ~tags'[line].way[w].valid
  <2>1. fl.way = 1 /\ fl.line = Lines - 1
    BY <1>1, <1>3, <1>23
  <2>2. \A line \in Line, w \in Way : line < fl.line \/ (line = fl.line /\ w <= fl.way)
    BY <1>5, <2>1, Positive DEF Line
  <2>3. QED
    BY <1>10, <2>2
<1>24. Marked' /\ Unique'
  BY <1>9, <1>23 DEF Marked, Unique
<1>25. Copies' /\ Originals'
  BY <1>23 DEF Copies, Originals
<1>26. Absent'
  BY <1>1, <1>6, <1>15 DEF Absent
<1>27. QED
  BY <1>12, <1>16, <1>17, <1>18, <1>19, <1>20, <1>21, <1>22, <1>24, <1>25, <1>26 DEF IInv

\* What a write to a resident word changes.
LEMMA WriteCycle ==
  ASSUME IInv, Usage, NEW bus, NEW flush, Step(bus, flush),
         ~Transferring, ~Flushing, ab.op = "write", tag_valid
  PROVE  /\ tag_way \in Way /\ Here \in Line /\ ab.addr \in Addr /\ writeable
         /\ tags[Here].way[tag_way].valid /\ tags[Here].way[tag_way].addr = TagOf(ab.addr)
         /\ tags' \in [Line -> TagSet] /\ data' \in [Slots -> [Way -> Values]]
         /\ latest' \in Values
         /\ \A line \in Line, w \in Way :
              /\ tags'[line].way[w].valid <=> tags[line].way[w].valid
              /\ tags'[line].way[w].addr = tags[line].way[w].addr
              /\ tags'[line].way[w].dirty
                   <=> tags[line].way[w].dirty \/ (line = Here /\ w = tag_way)
         /\ data'[Slot(ab.addr)][tag_way] = ab.data
         /\ \A s \in Slots, w \in Way :
              s # Slot(ab.addr) \/ w # tag_way => data'[s][w] = data[s][w]
         /\ \A a : Expected(a)' = IF a = ab.addr THEN ab.data ELSE Expected(a)
<1>1. /\ tags' = WroteTag
      /\ data' = [data EXCEPT ![Slot(ab.addr)][tag_way] = ab.data]
      /\ latest' = IF ab.addr = watched THEN ab.data ELSE latest
      /\ watched' = watched
  BY HitCycle, Asking DEF IInv
<1>2. /\ tags \in [Line -> TagSet] /\ rtags \in TagSet /\ rtags = tags[Here]
      /\ data \in [Slots -> [Way -> Values]] /\ latest \in Values
      /\ ab.addr \in Addr /\ ab.data \in Values
      /\ writeable /\ (ab.addr # watched => ab.data = Other)
  BY DEF IInv, TypeInv, Accesses, Looked, Asked
<1>3. tag_way \in Way /\ Hit(tag_way)
  BY Found DEF IInv
<1>4. Here \in Line /\ TagOf(ab.addr) \in Tagset /\ Slot(ab.addr) \in Slots
  BY <1>2, Parts, AtParts, Placed DEF Here
<1>5. tags[Here].way[tag_way].valid /\ tags[Here].way[tag_way].addr = TagOf(ab.addr)
  BY <1>2, <1>3 DEF Hit
<1>6. rtags.next \in Way
  BY <1>2 DEF TagSet
<1>7. /\ tags' \in [Line -> TagSet]
      /\ \A l \in Line : l # Here => tags'[l] = tags[l]
      /\ tags'[Here].way[tag_way]
           = [valid |-> TRUE, dirty |-> TRUE, addr |-> TagOf(ab.addr)]
      /\ \A v \in Way : v # tag_way => tags'[Here].way[v] = rtags.way[v]
  <2> DEFINE tag == [valid |-> TRUE, dirty |-> TRUE, addr |-> TagOf(ab.addr)]
  <2>1. tags' = [tags EXCEPT ![Here] = Entry(tag_way, tag, rtags.next)]
    BY <1>1 DEF WroteTag, Tagged, Entry, Here
  <2>2. tag \in TagKinds
    BY <1>4 DEF TagKinds
  <2> HIDE DEF tag
  <2>3. /\ tags' \in [Line -> TagSet] /\ tags'[Here].way[tag_way] = tag
        /\ \A l \in Line : l # Here => tags'[l] = tags[l]
        /\ \A v \in Way : v # tag_way => tags'[Here].way[v] = rtags.way[v]
    BY <1>2, <1>3, <1>4, <1>6, <2>1, <2>2, EntryFacts
  <2>4. QED
    BY <2>3 DEF tag
<1>8. \A line \in Line, w \in Way :
        /\ tags[line].way[w].valid \in BOOLEAN /\ tags[line].way[w].dirty \in BOOLEAN
  BY <1>2 DEF TagSet, TagKinds
<1>9. \A line \in Line, w \in Way :
        /\ tags'[line].way[w].valid <=> tags[line].way[w].valid
        /\ tags'[line].way[w].addr = tags[line].way[w].addr
        /\ tags'[line].way[w].dirty
             <=> tags[line].way[w].dirty \/ (line = Here /\ w = tag_way)
  <2> TAKE line \in Line, w \in Way
  <2>1. CASE line = Here /\ w = tag_way
    BY <1>5, <1>7, <1>8, <2>1
  <2>2. CASE ~(line = Here /\ w = tag_way)
    <3>1. tags'[line].way[w] = tags[line].way[w]
      BY <1>2, <1>7, <2>2
    <3>2. QED
      BY <1>8, <2>2, <3>1
  <2>3. QED
    BY <2>1, <2>2
<1>10. /\ data' \in [Slots -> [Way -> Values]]
       /\ data'[Slot(ab.addr)][tag_way] = ab.data
       /\ \A s \in Slots, w \in Way :
              s # Slot(ab.addr) \/ w # tag_way => data'[s][w] = data[s][w]
  BY <1>1, <1>2, <1>3, <1>4
<1>11. /\ latest' \in Values
       /\ \A a : Expected(a)' = IF a = ab.addr THEN ab.data ELSE Expected(a)
  BY <1>1, <1>2 DEF Expected
<1>12. QED
  BY <1>2, <1>3, <1>4, <1>5, <1>7, <1>9, <1>10, <1>11

\* Outside transfers and invalidations one may begin, at the cache that is not writeable.
LEMMA Begin ==
  ASSUME IInv, Usage, NEW bus, NEW flush, Step(bus, flush), ~Flushing
  PROVE  /\ Flushing' => ~writeable /\ fl'.r /\ fl'.line = 0 /\ fl'.way = 0
         /\ writeable \in BOOLEAN /\ writeable' = writeable /\ watched' = watched
         /\ ab' = bus
<1>1. \/ fl' = fl
      \/ ~writeable /\ ~Flushing /\ Flushing' /\ fl'.r /\ fl'.line = 0 /\ fl'.way = 0
  BY Flow DEF IInv, Invalidating
<1>2. Flushing' => ~writeable /\ fl'.r /\ fl'.line = 0 /\ fl'.way = 0
  BY <1>1 DEF Flushing
<1>3. QED
  BY <1>2, Asking DEF IInv, TypeInv

\* No entry comes before the first.
LEMMA NothingBefore == \A line \in Line, w \in Way : ~(line < 0) /\ ~(w < 0)
BY Positive DEF Line, Way, Ways

\* A dirty victim: it is marked as clean and is written back.
LEMMA EvictStep ==
  ASSUME IInv, Usage, NEW bus, NEW flush, Step(bus, flush), Missing, Evicts
  PROVE  IInv'
<1>1. /\ ab' = ab /\ bus = ab /\ latest' = latest /\ data' = data
      /\ rtags' = tags'[Here] /\ rtags = tags[Here] /\ Here \in Line
      /\ Victim \in Way /\ rtags.way[Victim].addr \in Tagset /\ tags \in [Line -> TagSet]
      /\ xm_ready /\ ~xm.to_cache /\ ~xm.to_xm /\ ab.addr \in Addr
  BY Missed
<1>2. ~Transferring /\ ~Flushing /\ Accessing /\ ~tag_valid
  BY DEF Missing
<1>3. /\ ext' \in Externals /\ ext'.mem = ext.mem /\ ext'.wait = 0
      /\ xm' \in Transfers /\ ~xm'.to_cache /\ xm'.to_xm /\ ~xm'.was /\ xm'.way = Victim
      /\ xm'.addr = At(rtags.way[Victim].addr, Here, 0) /\ xm'.cm = Place(Here, Succ(0))
      /\ rdata' = data[Place(Here, 0)]
      /\ tags' = Tagged(Here, Victim, TRUE, FALSE, rtags.way[Victim].addr, Victim)
  BY EvictCycle
<1>4. /\ tags[Here].way[Victim].dirty /\ tags[Here].way[Victim].valid /\ writeable
  BY <1>1, <1>2 DEF IInv, Evicts, Marked, Clean
<1>5. writeable' /\ ~Flushing' /\ watched' = watched
  BY <1>2, <1>4, Begin
<1>6. /\ tags' \in [Line -> TagSet]
      /\ \A line \in Line, w \in Way :
           /\ tags'[line].way[w].valid <=> tags[line].way[w].valid
           /\ tags'[line].way[w].addr = tags[line].way[w].addr
           /\ tags'[line].way[w].dirty
                <=> tags[line].way[w].dirty /\ ~(line = Here /\ w = Victim)
  <2> DEFINE tag == [valid |-> TRUE, dirty |-> FALSE, addr |-> rtags.way[Victim].addr]
  <2>1. tags' = [tags EXCEPT ![Here] = Entry(Victim, tag, Victim)]
    BY <1>3 DEF Tagged, Entry
  <2>2. /\ tag \in TagKinds /\ tag.valid /\ ~tag.dirty /\ tag.addr = rtags.way[Victim].addr
    BY <1>1 DEF TagKinds
  <2> HIDE DEF tag
  <2>3. /\ tags' \in [Line -> TagSet] /\ tags'[Here].way[Victim] = tag
        /\ \A l \in Line : l # Here => tags'[l] = tags[l]
        /\ \A v \in Way : v # Victim => tags'[Here].way[v] = rtags.way[v]
    <3>1. rtags \in TagSet
      BY <1>1
    <3>2. QED
      BY <1>1, <2>1, <2>2, <3>1, EntryFacts
  <2>4. ASSUME NEW line \in Line, NEW w \in Way
        PROVE  /\ tags'[line].way[w].valid <=> tags[line].way[w].valid
               /\ tags'[line].way[w].addr = tags[line].way[w].addr
               /\ tags'[line].way[w].dirty
                    <=> tags[line].way[w].dirty /\ ~(line = Here /\ w = Victim)
    <3>1. CASE line = Here /\ w = Victim
      BY <1>1, <1>4, <2>2, <2>3, <3>1
    <3>2. CASE ~(line = Here /\ w = Victim)
      BY <1>1, <2>3, <3>2
    <3>3. QED
      BY <3>1, <3>2
  <2>5. QED
    BY <2>3, <2>4
<1>7. 0 \in Words /\ Place(Here, 0) \in Slots
  BY <1>1, Placed, Positive DEF Words
<1>8. TypeInv' /\ Asked'
  <2>1. CacheRaddr(bus) \in Slots
    <3>1. CacheRaddr(bus) = xm.cm
      BY <1>1, <1>2 DEF CacheRaddr, Flushing
    <3>2. xm.cm = Place(Here, 0)
      BY <1>1, <1>2 DEF IInv, Evicting
    <3>3. QED
      BY <1>7, <3>1, <3>2
  <2>2. data' \in [Slots -> [Way -> Values]] /\ latest' \in Values
    BY <1>1 DEF IInv, TypeInv
  <2>3. QED
    BY <1>3, <1>6, <2>1, <2>2, TypeStep
<1>9. \A a : Expected(a)' = Expected(a)
  BY <1>1, <1>5, ExpectedSame
<1>10. Here' = Here /\ Accessing'
  BY <1>1, <1>2 DEF Here, Accessing
<1>11. ~tag_valid'
  <2>1. \A w \in Way : ~Hit(w)
    BY <1>2, Found DEF IInv
  <2>2. \A w \in Way : ~(rtags'.way[w].valid /\ rtags'.way[w].addr = TagOf(ab'.addr))
    BY <1>1, <1>6, <2>1 DEF Hit
  <2>3. QED
    BY <1>8, <2>2, FoundNext
<1>12. Waits'
  BY <1>3, <1>5, <1>10, <1>11 DEF Waits, xm_ready
<1>13. Clean' /\ Flushed' /\ Looked'
  BY <1>1, <1>5, <1>10 DEF Clean, Flushed, Looked
<1>14. Answering' /\ Fills' /\ Evicting'
  BY <1>3 DEF Answering, Fills, Evicting
<1>15. Word(xm'.addr) = 0
  BY <1>1, <1>3, <1>7, AtParts
<1>16. Spills'
  BY <1>1, <1>3, <1>4, <1>6, <1>10, <1>15 DEF Spills
<1>17. Marked' /\ Unique'
  BY <1>2, <1>6 DEF IInv, Marked, Unique
<1>18. Copies'
  <2> SUFFICES ASSUME NEW line \in Line, NEW w \in Way, NEW j \in Words,
                      tags'[line].way[w].valid
               PROVE  data'[Place(line, j)][w] = Expected(At(tags'[line].way[w].addr, line, j))
    BY <1>3, <1>9 DEF Copies
  <2>1. data[Place(line, j)][w] = Expected(At(tags[line].way[w].addr, line, j))
    BY <1>1, <1>2, <1>6 DEF IInv, Copies
  <2>2. QED
    BY <1>1, <1>6, <2>1
<1>19. Originals'
  <2> SUFFICES ASSUME NEW line \in Line, NEW w \in Way, NEW j \in Words,
                      tags'[line].way[w].valid, ~tags'[line].way[w].dirty,
                      ~(line = Here /\ w = Victim /\ j >= 0)
               PROVE  ext'.mem[At(tags'[line].way[w].addr, line, j)]
                        = Expected(At(tags'[line].way[w].addr, line, j))
    BY <1>3, <1>9, <1>10, <1>15 DEF Originals, Own
  <2>1. ~(line = Here /\ w = Victim)
    BY DEF Words
  <2>2. ext.mem[At(tags[line].way[w].addr, line, j)]
          = Expected(At(tags[line].way[w].addr, line, j))
    BY <1>1, <1>2, <1>6, <2>1 DEF IInv, Originals
  <2>3. QED
    BY <1>3, <1>6, <2>2
<1>20. Absent'
  <2> SUFFICES ASSUME NEW a \in Addr
               PROVE  Resident(a)' \/ ext'.mem[a] = Expected(a)
    BY <1>9 DEF Absent
  <2>1. LineOf(a) \in Line
    BY Parts
  <2>2. Resident(a) => Resident(a)'
    BY <1>6, <2>1 DEF Resident
  <2>3. QED
    BY <1>2, <1>3, <2>2 DEF IInv, Absent
<1>21. QED
  BY <1>8, <1>12, <1>13, <1>14, <1>16, <1>17, <1>18, <1>19, <1>20 DEF IInv

\* A clean victim: its tag is overwritten, and the line is fetched.
LEMMA StartStep ==
  ASSUME IInv, Usage, NEW bus, NEW flush, Step(bus, flush), Missing, ~Evicts
  PROVE  IInv'
<1> DEFINE t == TagOf(ab.addr)
<1>1. /\ ab' = ab /\ bus = ab /\ latest' = latest /\ data' = data
      /\ rtags' = tags'[Here] /\ rtags = tags[Here] /\ Here \in Line /\ t \in Tagset
      /\ Victim \in Way /\ tags \in [Line -> TagSet]
      /\ xm_ready /\ ~xm.to_cache /\ ~xm.to_xm /\ ab.addr \in Addr
  BY Missed
<1>2. ~Transferring /\ ~Flushing /\ Accessing /\ ~tag_valid
  BY DEF Missing
<1>3. /\ ext' \in Externals /\ ext'.mem = ext.mem
      /\ ext'.rdata = ext.mem[At(t, Here, 0)]
      /\ xm' \in Transfers /\ xm'.to_cache /\ ~xm'.to_xm /\ ~xm'.was /\ xm'.way = Victim
      /\ xm'.addr = At(t, Here, Succ(0)) /\ xm'.cm = Place(Here, 0)
      /\ tags' = Tagged(Here, Victim, TRUE, FALSE, t, (Victim + 1) % Ways)
  BY StartCycle
<1>4. \A w \in Way : ~(tags[Here].way[w].valid /\ tags[Here].way[w].addr = t)
  BY <1>1, <1>2, Found DEF IInv, Hit
<1>5. ~tags[Here].way[Victim].dirty
  BY <1>1 DEF Evicts
<1> HIDE DEF t
<1>6. /\ tags' \in [Line -> TagSet]
      /\ tags'[Here].way[Victim] = [valid |-> TRUE, dirty |-> FALSE, addr |-> t]
      /\ \A line \in Line, w \in Way :
           ~(line = Here /\ w = Victim) => tags'[line].way[w] = tags[line].way[w]
  <2> DEFINE tag == [valid |-> TRUE, dirty |-> FALSE, addr |-> t]
             next == (Victim + 1) % Ways
  <2>1. tags' = [tags EXCEPT ![Here] = Entry(Victim, tag, next)]
    BY <1>3 DEF Tagged, Entry
  <2>2. tag \in TagKinds
    BY <1>1 DEF TagKinds
  <2>3. next \in Way /\ rtags \in TagSet
    BY <1>1 DEF Way, Ways
  <2> HIDE DEF tag, next
  <2>4. /\ tags' \in [Line -> TagSet] /\ tags'[Here].way[Victim] = tag
        /\ \A l \in Line : l # Here => tags'[l] = tags[l]
        /\ \A v \in Way : v # Victim => tags'[Here].way[v] = rtags.way[v]
    BY <1>1, <2>1, <2>2, <2>3, EntryFacts
  <2>5. QED
    BY <1>1, <2>4 DEF tag
<1>7. 0 \in Words
  BY Positive DEF Words
<1>8. TypeInv' /\ Asked'
  <2>1. CacheRaddr(bus) \in Slots
    <3>1. CacheRaddr(bus) = Slot(ab.addr)
      BY <1>1, <1>2 DEF CacheRaddr, Flushing
    <3>2. QED
      BY <1>1, <3>1, Parts, AtParts, Placed
  <2>2. data' \in [Slots -> [Way -> Values]] /\ latest' \in Values
    BY <1>1 DEF IInv, TypeInv
  <2>3. QED
    BY <1>3, <1>6, <2>1, <2>2, TypeStep
<1>9. /\ Flushing' => ~writeable /\ fl'.r /\ fl'.line = 0 /\ fl'.way = 0
      /\ writeable' = writeable /\ watched' = watched
  BY <1>2, Begin
<1>10. \A a : Expected(a)' = Expected(a)
  BY <1>1, <1>9, ExpectedSame
<1>11. Here' = Here /\ Accessing'
  BY <1>1, <1>2 DEF Here, Accessing
<1>12. Waits'
  BY <1>3, <1>11 DEF Waits
<1>13. Clean'
  <2> SUFFICES ASSUME ~writeable' \/ Flushing'
               PROVE  /\ \A w \in Way : ~rtags'.way[w].dirty
                      /\ \A line \in Line, w \in Way : ~tags'[line].way[w].dirty
                      /\ \A a \in Addr : ext'.mem[a] = Expected(a)'
    BY DEF Clean
  <2>1. ~writeable
    BY <1>9
  <2>2. \A line \in Line, w \in Way : ~tags'[line].way[w].dirty
    BY <1>6, <2>1 DEF IInv, Clean
  <2>3. \A a \in Addr : ext'.mem[a] = Expected(a)'
    BY <1>3, <1>10, <2>1 DEF IInv, Clean
  <2>4. QED
    BY <1>1, <2>2, <2>3
<1>14. Flushed'
  BY <1>9, NothingBefore DEF Flushed
<1>15. Looked' /\ Answering' /\ Spills' /\ Evicting'
  BY <1>1, <1>3, <1>11 DEF Looked, Answering, Spills, Evicting
<1>16. Word(xm'.cm) = 0
  BY <1>1, <1>3, <1>7, Placed
<1>17. Fills'
  BY <1>1, <1>3, <1>6, <1>11, <1>16 DEF Fills, t
<1>18. Marked'
  BY <1>2, <1>6 DEF IInv, Marked
<1>19. Unique'
  <2> SUFFICES ASSUME NEW line \in Line, NEW w \in Way, NEW v \in Way, w # v,
                      tags'[line].way[w].valid, tags'[line].way[v].valid
               PROVE  tags'[line].way[v].addr # tags'[line].way[w].addr
    BY DEF Unique
  <2>1. CASE line = Here /\ w = Victim
    BY <1>4, <1>6, <2>1
  <2>2. CASE line = Here /\ v = Victim
    BY <1>4, <1>6, <2>2
  <2>3. CASE line # Here \/ (w # Victim /\ v # Victim)
    <3>1. tags'[line].way[w] = tags[line].way[w] /\ tags'[line].way[v] = tags[line].way[v]
      BY <1>6, <2>3
    <3>2. QED
      BY <1>2, <3>1 DEF IInv, Unique
  <2>4. QED
    BY <2>1, <2>2, <2>3
<1>20. Copies'
  <2> SUFFICES ASSUME NEW line \in Line, NEW w \in Way, NEW j \in Words,
                      tags'[line].way[w].valid, ~(line = Here /\ w = Victim /\ j >= 0)
               PROVE  data'[Place(line, j)][w] = Expected(At(tags'[line].way[w].addr, line, j))
    BY <1>3, <1>10, <1>11, <1>16, ZenonT(60) DEF Copies, Own
  <2>1. tags'[line].way[w] = tags[line].way[w]
    BY <1>6 DEF Words
  <2>2. QED
    BY <1>1, <1>2, <2>1 DEF IInv, Copies
<1>21. Originals'
  <2> SUFFICES ASSUME NEW line \in Line, NEW w \in Way, NEW j \in Words,
                      tags'[line].way[w].valid, ~tags'[line].way[w].dirty
               PROVE  ext'.mem[At(tags'[line].way[w].addr, line, j)]
                        = Expected(At(tags'[line].way[w].addr, line, j))
    BY <1>10 DEF Originals
  <2>1. CASE line = Here /\ w = Victim
    <3>1. PICK a \in Addr : a = At(t, Here, j)
      BY <1>1, AtType
    <3>2. LineOf(a) = Here /\ TagOf(a) = t
      BY <1>1, <3>1, AtParts
    <3>3. ~Resident(a)
      BY <1>4, <3>2 DEF Resident
    <3>4. ext.mem[a] = Expected(a)
      BY <1>2, <3>3 DEF IInv, Absent
    <3>5. tags'[line].way[w].addr = t
      BY <1>6, <2>1
    <3>6. At(tags'[line].way[w].addr, line, j) = a
      BY <2>1, <3>1, <3>5
    <3>7. QED
      BY <1>3, <3>4, <3>6
  <2>2. CASE ~(line = Here /\ w = Victim)
    <3>1. tags'[line].way[w] = tags[line].way[w]
      BY <1>6, <2>2
    <3>2. QED
      BY <1>1, <1>2, <1>3, <3>1 DEF IInv, Originals
  <2>3. QED
    BY <2>1, <2>2
<1>22. Absent'
  <2> SUFFICES ASSUME NEW a \in Addr, ~Resident(a)'
               PROVE  ext'.mem[a] = Expected(a)
    BY <1>10 DEF Absent
  <2>1. LineOf(a) \in Line /\ Word(a) \in Words /\ a = At(TagOf(a), LineOf(a), Word(a))
    BY Parts
  <2>2. CASE ~Resident(a)
    BY <1>2, <1>3, <2>2 DEF IInv, Absent
  <2>3. CASE Resident(a)
    <3>1. PICK w \in Way : tags[LineOf(a)].way[w].valid /\ tags[LineOf(a)].way[w].addr = TagOf(a)
      BY <2>3 DEF Resident
    <3>2. LineOf(a) = Here /\ w = Victim
      <4>1. ~(tags'[LineOf(a)].way[w].valid /\ tags'[LineOf(a)].way[w].addr = TagOf(a))
        BY DEF Resident
      <4>2. tags'[LineOf(a)].way[w] # tags[LineOf(a)].way[w]
        BY <3>1, <4>1
      <4>3. QED
        BY <1>6, <2>1, <4>2
    <3>3. ~tags[LineOf(a)].way[w].dirty
      BY <1>5, <3>2
    <3>4. ext.mem[At(TagOf(a), LineOf(a), Word(a))]
            = Expected(At(TagOf(a), LineOf(a), Word(a)))
      BY <1>1, <1>2, <2>1, <3>1, <3>3 DEF IInv, Originals
    <3>5. QED
      BY <1>3, <2>1, <3>4
  <2>4. QED
    BY <2>2, <2>3
<1>23. QED
  BY <1>8, <1>12, <1>13, <1>14, <1>15, <1>17, <1>18, <1>19, <1>20, <1>21, <1>22 DEF IInv

\* A request to a resident word is served; without one nothing happens.
LEMMA HitStep ==
  ASSUME IInv, Usage, NEW bus, NEW flush, Step(bus, flush),
         ~Transferring, ~Flushing, ~Accessing \/ tag_valid
  PROVE  IInv'
<1>1. /\ ext' \in Externals /\ ext'.mem = ext.mem /\ ext'.wait = 0
      /\ xm' \in Transfers /\ ~xm'.to_cache /\ ~xm'.to_xm /\ ~xm'.was /\ Word(xm'.addr) = 0
      /\ xm'.cm = Place(LineOf(bus.addr), 0)
      /\ rtags' = tags'[LineOf(bus.addr)] /\ rdata' = data'[Slot(bus.addr)]
      /\ ab.op # "write" => tags' = tags /\ data' = data /\ latest' = latest
  BY HitCycle
<1>2. /\ Flushing' => ~writeable /\ fl'.r /\ fl'.line = 0 /\ fl'.way = 0
      /\ writeable \in BOOLEAN /\ writeable' = writeable /\ watched' = watched /\ ab' = bus
  BY Begin
<1>3. /\ tags \in [Line -> TagSet] /\ data \in [Slots -> [Way -> Values]] /\ latest \in Values
      /\ ~xm.to_cache /\ ~xm.to_xm
  BY DEF IInv, TypeInv, Transferring
<1>4. bus.addr \in Addr /\ LineOf(bus.addr) \in Line
  BY OnBus, Parts
<1>5. CacheRaddr(bus) \in Slots
  <2>1. CacheRaddr(bus) = Slot(bus.addr)
    BY <1>3 DEF CacheRaddr, Transferring, Flushing
  <2>2. QED
    BY <1>4, <2>1, Parts, AtParts, Placed
<1>6. CASE ab.op # "write"
  <2>1. tags' = tags /\ data' = data /\ latest' = latest /\ ext'.mem = ext.mem
    BY <1>1, <1>6
  <2>2. TypeInv' /\ Asked'
    BY <1>1, <1>3, <1>5, <2>1, TypeStep
  <2>3. \A a : Expected(a)' = Expected(a)
    BY <1>2, <2>1, ExpectedSame
  <2>4. Waits'
    BY <1>1 DEF Waits, xm_ready
  <2>5. Clean'
    <3> SUFFICES ASSUME ~writeable' \/ Flushing'
                 PROVE  /\ \A w \in Way : ~rtags'.way[w].dirty
                        /\ \A line \in Line, w \in Way : ~tags'[line].way[w].dirty
                        /\ \A a \in Addr : ext'.mem[a] = Expected(a)'
      BY DEF Clean
    <3>1. ~writeable
      BY <1>2
    <3>2. QED
      BY <1>1, <1>4, <2>1, <2>3, <3>1 DEF IInv, Clean
  <2>6. Flushed'
    BY <1>1, <1>2, NothingBefore DEF Flushed
  <2>7. Looked' /\ Answering' /\ Fills' /\ Spills' /\ Evicting'
    BY <1>1, <1>2 DEF Looked, Answering, Fills, Spills, Evicting, Here
  <2>8. Marked' /\ Unique'
    BY <2>1 DEF IInv, Marked, Unique
  <2>9. Copies' /\ Originals'
    BY <1>1, <1>3, <2>1, <2>3 DEF IInv, Copies, Originals
  <2>10. Absent'
    BY <2>1, <2>3 DEF IInv, Absent, Resident
  <2>11. QED
    BY <2>2, <2>4, <2>5, <2>6, <2>7, <2>8, <2>9, <2>10 DEF IInv
<1>7. CASE ab.op = "write"
  <2>1. /\ tag_way \in Way /\ Here \in Line /\ ab.addr \in Addr /\ writeable
        /\ tags[Here].way[tag_way].valid /\ tags[Here].way[tag_way].addr = TagOf(ab.addr)
        /\ tags' \in [Line -> TagSet] /\ data' \in [Slots -> [Way -> Values]]
        /\ latest' \in Values
        /\ \A line \in Line, w \in Way :
              /\ tags'[line].way[w].valid <=> tags[line].way[w].valid
              /\ tags'[line].way[w].addr = tags[line].way[w].addr
              /\ tags'[line].way[w].dirty
                   <=> tags[line].way[w].dirty \/ (line = Here /\ w = tag_way)
        /\ data'[Slot(ab.addr)][tag_way] = ab.data
        /\ \A s \in Slots, w \in Way :
              s # Slot(ab.addr) \/ w # tag_way => data'[s][w] = data[s][w]
        /\ \A a : Expected(a)' = IF a = ab.addr THEN ab.data ELSE Expected(a)
    <3>1. tag_valid
      BY <1>7 DEF Accessing
    <3>2. QED
      BY <1>7, <3>1, WriteCycle
  <2>2. TypeInv' /\ Asked'
    BY <1>1, <1>5, <2>1, TypeStep
  <2>3. ~Flushing' /\ writeable'
    BY <1>2, <2>1
  <2>4. Waits'
    BY <1>1 DEF Waits, xm_ready
  <2>5. Clean' /\ Flushed'
    BY <2>3 DEF Clean, Flushed
  <2>6. Looked' /\ Answering' /\ Fills' /\ Spills' /\ Evicting'
    BY <1>1, <1>2 DEF Looked, Answering, Fills, Spills, Evicting, Here
  <2>7. Marked' /\ Unique'
    BY <2>1 DEF IInv, Marked, Unique
  <2>8. ab.addr = At(TagOf(ab.addr), Here, Word(ab.addr)) /\ Word(ab.addr) \in Words
        /\ TagOf(ab.addr) \in Tagset /\ Slot(ab.addr) = Place(Here, Word(ab.addr))
    BY <2>1, Parts, AtParts DEF Here
  \* The word that is written is in one way alone.
  <2>9. ASSUME NEW line \in Line, NEW w \in Way, NEW j \in Words, tags[line].way[w].valid,
               At(tags[line].way[w].addr, line, j) = ab.addr
        PROVE  line = Here /\ w = tag_way /\ j = Word(ab.addr)
    <3>1. tags[line].way[w].addr \in Tagset
      BY <1>3 DEF TagSet, TagKinds
    <3>2. tags[line].way[w].addr = TagOf(ab.addr) /\ line = Here /\ j = Word(ab.addr)
      BY <2>1, <2>8, <2>9, <3>1, AtOnce
    <3>3. w = tag_way
      BY <2>1, <2>9, <3>2 DEF IInv, Unique
    <3>4. QED
      BY <3>2, <3>3
  <2>10. Copies'
    <3> SUFFICES ASSUME NEW line \in Line, NEW w \in Way, NEW j \in Words, NEW a,
                        tags'[line].way[w].valid, a = At(tags'[line].way[w].addr, line, j)
                 PROVE  data'[Place(line, j)][w] = IF a = ab.addr THEN ab.data ELSE Expected(a)
      BY <1>1, <2>1 DEF Copies
    <3>1. tags[line].way[w].valid /\ a = At(tags[line].way[w].addr, line, j)
      BY <2>1
    <3>2. Place(line, j) \in Slots
      BY Placed
    <3>3. data[Place(line, j)][w] = Expected(a)
      BY <1>3, <3>1 DEF IInv, Copies
    <3>4. data'[Place(line, j)][w] = IF a = ab.addr THEN ab.data ELSE Expected(a)
      <4>1. CASE a = ab.addr
        <5>1. line = Here /\ w = tag_way /\ j = Word(ab.addr)
          BY <2>9, <3>1, <4>1
        <5>2. QED
          BY <2>1, <2>8, <4>1, <5>1
      <4>2. CASE a # ab.addr
        <5>1. w = tag_way => Place(line, j) # Slot(ab.addr)
          <6>1. ASSUME w = tag_way, Place(line, j) = Slot(ab.addr)
                PROVE  a = ab.addr
            <7>1. line = Here /\ j = Word(ab.addr)
              BY <2>1, <2>8, <6>1, PlaceOnce
            <7>2. QED
              BY <2>1, <2>8, <3>1, <6>1, <7>1
          <6>2. QED
            BY <4>2, <6>1
        <5>2. QED
          BY <2>1, <3>2, <3>3, <4>2, <5>1
      <4>3. QED
        BY <4>1, <4>2
    <3>5. QED
      BY <3>4
  <2>11. Originals'
    <3> SUFFICES ASSUME NEW line \in Line, NEW w \in Way, NEW j \in Words, NEW a,
                        tags'[line].way[w].valid, ~tags'[line].way[w].dirty,
                        a = At(tags'[line].way[w].addr, line, j)
                 PROVE  ext'.mem[a] = IF a = ab.addr THEN ab.data ELSE Expected(a)
      BY <2>1 DEF Originals
    <3>1. /\ tags[line].way[w].valid /\ a = At(tags[line].way[w].addr, line, j)
          /\ ~tags[line].way[w].dirty /\ ~(line = Here /\ w = tag_way)
      BY <2>1
    <3>2. ext.mem[a] = Expected(a)
      BY <1>3, <3>1 DEF IInv, Originals
    <3>3. a # ab.addr
      BY <2>9, <3>1
    <3>4. QED
      BY <1>1, <3>2, <3>3
  <2>12. Absent'
    <3> SUFFICES ASSUME NEW a \in Addr, ~Resident(a)'
                 PROVE  ext'.mem[a] = Expected(a)'
      BY DEF Absent
    <3>1. LineOf(a) \in Line
      BY Parts
    <3>2. ~Resident(a)
      BY <2>1, <3>1 DEF Resident
    <3>3. ext.mem[a] = Expected(a)
      BY <3>2 DEF IInv, Absent
    <3>4. a # ab.addr
      BY <2>1, <3>2 DEF Resident, Here
    <3>5. QED
      BY <1>1, <2>1, <3>3, <3>4
  <2>13. QED
    BY <2>2, <2>4, <2>5, <2>6, <2>7, <2>10, <2>11, <2>12 DEF IInv
<1>8. QED
  BY <1>6, <1>7

\* After power-up an invalidation is under way, at any place.
LEMMA InitInv ==
  ASSUME Init
  PROVE  IInv
<1>1. /\ writeable \in BOOLEAN /\ watched \in Used /\ latest = 0
      /\ ab = Idle /\ stalled = FALSE
      /\ tags = [line \in Line |-> NoTags] /\ rtags = NoTags
      /\ data = [slot \in Slots |-> [w \in Way |-> Junk]] /\ rdata = [w \in Way |-> Junk]
      /\ xm = [to_cache |-> FALSE, to_xm |-> FALSE, was |-> FALSE, addr |-> 0, cm |-> 0,
               paddr |-> 0, pcm |-> 0, way |-> 0, pwdata |-> Other]
      /\ ext = [mem |-> [a \in Addr |-> IF a = watched THEN 0 ELSE Other], wait |-> 0,
                rdata |-> Other]
  BY DEF Init
<1>2. PICK l \in Line, v \in Way : fl = PowerUp(l, v)
  BY DEF Init
<1>3. /\ 0 \in Addr /\ 0 \in Line /\ 0 \in Slots /\ 0 \in Way /\ 0 \in Tagset /\ Word(0) = 0
      /\ Used \subseteq Addr /\ {0, Other, Junk} \subseteq Values
  <2>1. 0 \in Tagset /\ 0 \in Line /\ 0 \in Words /\ 0 \in Way
    BY Positive DEF Tagset, Line, Words, Way, Ways
  <2>2. At(0, 0, 0) = 0 /\ Place(0, 0) = 0
    BY Positive DEF At, AddrOf, Place
  <2>3. 0 \in Addr /\ 0 \in Slots /\ Word(0) = 0
    BY <2>1, <2>2, AtType, AtParts, Placed
  <2>4. QED
    BY <2>1, <2>3, CacheAssumption DEF Values
<1>4. /\ fl \in Flushings /\ fl.r /\ Flushing /\ fl.line \in Line /\ fl.way \in Way
  BY <1>2, <1>3 DEF PowerUp, Flushings, Flushing
<1>5. NoTags \in TagSet /\ \A w \in Way : ~NoTags.way[w].valid /\ ~NoTags.way[w].dirty
  BY <1>3 DEF NoTags, TagSet, TagKinds
<1>6. ab \in Accesses /\ ab.op = "none"
  BY <1>1, <1>3 DEF Idle, Accesses, Ops
<1>7. /\ xm \in Transfers /\ ~xm.to_cache /\ ~xm.to_xm /\ ~xm.was /\ xm.addr = 0
  BY <1>1, <1>3 DEF Transfers
<1>8. /\ ext \in Externals /\ ext.wait = 0
      /\ \A a \in Addr : ext.mem[a] = Expected(a)
  <2>1. ext.mem = [a \in Addr |-> IF a = watched THEN 0 ELSE Other] /\ ext.wait = 0
        /\ ext.rdata = Other
    BY <1>1
  <2>2. ext.mem \in [Addr -> Values]
    BY <1>3, <2>1
  <2>3. ext = [mem |-> ext.mem, wait |-> ext.wait, rdata |-> ext.rdata]
    BY <1>1
  <2>4. ext \in Externals
    BY <1>3, <2>1, <2>2, <2>3 DEF Externals
  <2>5. QED
    BY <1>1, <2>1, <2>4 DEF Expected
<1>9. TypeInv
  <2>1. data \in [Slots -> [Way -> Values]] /\ rdata \in [Way -> Values]
    BY <1>1, <1>3
  <2>2. tags \in [Line -> TagSet] /\ rtags \in TagSet
    BY <1>1, <1>5
  <2>3. latest \in Values /\ watched \in Addr
    BY <1>1, <1>3
  <2>4. QED
    BY <1>1, <1>4, <1>6, <1>7, <1>8, <2>1, <2>2, <2>3 DEF TypeInv
<1>10. \A line \in Line, w \in Way : ~tags[line].way[w].valid /\ ~tags[line].way[w].dirty
  BY <1>1, <1>5
<1>11. Asked /\ Waits
  BY <1>3, <1>6, <1>7, <1>8 DEF Asked, Waits, xm_ready
<1>12. Clean
  BY <1>1, <1>5, <1>8, <1>10 DEF Clean
<1>13. Flushed
  BY <1>1, <1>3, <1>4, <1>5, <1>7, <1>10 DEF Flushed, Transferring
<1>14. Looked /\ Answering /\ Fills /\ Spills /\ Evicting
  BY <1>4, <1>7 DEF Looked, Answering, Fills, Spills, Evicting
<1>15. Marked /\ Unique /\ Copies /\ Originals /\ Absent
  BY <1>4 DEF Marked, Unique, Copies, Originals, Absent
<1>16. QED
  BY <1>9, <1>11, <1>12, <1>13, <1>14, <1>15 DEF IInv

\* The kinds of cycle are all there are.
LEMMA StepInv ==
  ASSUME IInv, Usage, NEW bus, NEW flush, Step(bus, flush)
  PROVE  IInv'
<1>1. CASE Transferring /\ ~xm_ready
  BY <1>1, WaitStep
<1>2. CASE xm.to_cache /\ xm_ready
  BY <1>2, FillStep
<1>3. CASE xm.to_xm /\ xm_ready
  BY <1>3, SpillStep
<1>4. CASE ~Transferring /\ Flushing
  BY <1>4, InvalidateStep DEF Invalidating
<1>5. CASE ~Transferring /\ ~Flushing /\ (~Accessing \/ tag_valid)
  BY <1>5, HitStep
<1>6. CASE Missing /\ Evicts
  BY <1>6, EvictStep
<1>7. CASE Missing /\ ~Evicts
  BY <1>7, StartStep
<1>8. QED
  BY <1>1, <1>2, <1>3, <1>4, <1>5, <1>6, <1>7 DEF Transferring, Missing

\* Between clocks nothing changes.
LEMMA StutterInv ==
  ASSUME IInv, UNCHANGED vars
  PROVE  IInv'
<1>1. /\ ab' = ab /\ stalled' = stalled /\ fl' = fl /\ tags' = tags /\ rtags' = rtags
      /\ data' = data /\ rdata' = rdata /\ xm' = xm /\ ext' = ext
      /\ writeable' = writeable /\ watched' = watched /\ latest' = latest
  BY DEF vars
<1>2. /\ (tag_valid' <=> tag_valid) /\ Here' = Here /\ (Flushing' <=> Flushing)
      /\ (Transferring' <=> Transferring) /\ (Accessing' <=> Accessing)
      /\ (Evicts' <=> Evicts) /\ (xm_ready' <=> xm_ready)
  BY <1>1 DEF tag_valid, Matches, Sought, Here, Flushing, Transferring, Accessing, Evicts, Victim,
              xm_ready
<1>3. \A a : Expected(a)' = Expected(a)
  BY <1>1, ExpectedSame
<1>4. TypeInv' /\ Asked' /\ Waits'
  BY <1>1, <1>2 DEF IInv, TypeInv, Asked, Waits
<1>5. Clean' /\ Flushed' /\ Looked' /\ Answering'
  BY <1>1, <1>2, <1>3 DEF IInv, Clean, Flushed, Looked, Answering
<1>6. Fills' /\ Spills' /\ Evicting'
  BY <1>1, <1>2 DEF IInv, Fills, Spills, Evicting
<1>7. Marked' /\ Unique' /\ Copies' /\ Originals'
  BY <1>1, <1>2, <1>3 DEF IInv, Marked, Unique, Copies, Originals, Own
<1>8. Absent'
  BY <1>1, <1>2, <1>3 DEF IInv, Absent, Resident
<1>9. QED
  BY <1>4, <1>5, <1>6, <1>7, <1>8 DEF IInv

----------------------------------------------------------------------------
(* The theorems.                                                           *)

\* cache.sv keeps its tags, cache_ram and the external memory consistent while
\* lines come in, go out and are invalidated: the invariant above holds for any
\* number of lines, words and tags, and any wait states of the external memory.
THEOREM CacheInvariant == Usage => (Spec => []IInv)
<1> SUFFICES ASSUME Usage
             PROVE  Spec => []IInv
  OBVIOUS
<1>1. Init => IInv
  BY InitInv
<1>2. IInv /\ [Next]_vars => IInv'
  <2> SUFFICES ASSUME IInv, [Next]_vars
               PROVE  IInv'
    OBVIOUS
  <2>1. CASE Next
    <3>1. PICK bus, flush : Step(bus, flush)
      BY <2>1 DEF Next, Step
    <3>2. QED
      BY <3>1, StepInv
  <2>2. CASE UNCHANGED vars
    BY <2>2, StutterInv
  <2>3. QED
    BY <2>1, <2>2
<1>3. QED
  BY <1>1, <1>2, PTL DEF Spec

\* Ready is only set for a hit whose word has been looked up.
LEMMA InvariantReads ==
  ASSUME IInv
  PROVE  ReadsLatest
<1> SUFFICES ASSUME ab.op = "read", Ready
             PROVE  rdata[tag_way] = Expected(ab.addr)
  BY DEF ReadsLatest
<1>1. Accessing /\ ~Flushing /\ ~xm.to_cache /\ ~xm.to_xm /\ tag_valid
  BY DEF Ready, Accessing
<1>2. rdata = data[Slot(ab.addr)] /\ rtags = tags[Here]
  BY <1>1 DEF IInv, Answering, Looked
<1>3. tag_way \in Way /\ Hit(tag_way)
  BY <1>1, Found DEF IInv
<1>4. ab.addr \in Addr
  BY DEF IInv, TypeInv, Accesses
<1>5. /\ Here \in Line /\ Word(ab.addr) \in Words /\ Slot(ab.addr) = Place(Here, Word(ab.addr))
      /\ ab.addr = At(TagOf(ab.addr), Here, Word(ab.addr))
  BY <1>4, Parts, AtParts DEF Here
<1>6. tags[Here].way[tag_way].valid /\ tags[Here].way[tag_way].addr = TagOf(ab.addr)
  BY <1>2, <1>3 DEF Hit
<1>7. data[Place(Here, Word(ab.addr))][tag_way]
        = Expected(At(tags[Here].way[tag_way].addr, Here, Word(ab.addr)))
  BY <1>1, <1>3, <1>5, <1>6 DEF IInv, Copies
<1>8. QED
  BY <1>2, <1>5, <1>6, <1>7

\* Between transfers nothing is exempt.
LEMMA InvariantTags ==
  ASSUME IInv
  PROVE  TagsTrue
<1> SUFFICES ASSUME ~Transferring, ~Flushing
             PROVE  TagsTrue
  BY DEF TagsTrue
<1>1. ~xm.to_cache /\ ~xm.to_xm
  BY DEF Transferring
<1>2. ASSUME NEW line \in Line, NEW w \in Way, tags[line].way[w].valid, NEW k \in Words
      PROVE  LET a == AddrOf(tags[line].way[w].addr, line) + k IN
             /\ data[Slot(a)][w] = Expected(a)
             /\ tags[line].way[w].dirty \/ ext.mem[a] = Expected(a)
  <2>1. tags[line].way[w].addr \in Tagset
    BY DEF IInv, TypeInv, TagSet, TagKinds
  <2>2. Slot(At(tags[line].way[w].addr, line, k)) = Place(line, k)
    BY <2>1, AtParts
  <2>3. data[Place(line, k)][w] = Expected(At(tags[line].way[w].addr, line, k))
    BY <1>1, <1>2 DEF IInv, Copies
  <2>4. \/ tags[line].way[w].dirty
        \/ ext.mem[At(tags[line].way[w].addr, line, k)]
             = Expected(At(tags[line].way[w].addr, line, k))
    BY <1>1, <1>2 DEF IInv, Originals
  <2>5. QED
    BY <2>2, <2>3, <2>4 DEF At
<1>3. ASSUME NEW line \in Line, NEW w \in Way, tags[line].way[w].valid, NEW v \in Way \ {w},
             tags[line].way[v].valid
      PROVE  tags[line].way[v].addr # tags[line].way[w].addr
  BY <1>3 DEF IInv, Unique
<1>4. \A a \in Addr : Resident(a) \/ ext.mem[a] = Expected(a)
  BY DEF IInv, Absent
<1>5. QED
  BY <1>2, <1>3, <1>4 DEF TagsTrue, Words

\* A read that the cache answers returns what was written there last, be it in
\* the cache, evicted since or never written.
THEOREM CacheReadsLatest == Usage => (Spec => []ReadsLatest)
<1>1. IInv => ReadsLatest
  BY InvariantReads
<1>2. QED
  BY <1>1, CacheInvariant, PTL

\* Between transfers the valid and dirty flags say the truth, and no address is in
\* two ways.
THEOREM CacheTagsTrue == Usage => (Spec => []TagsTrue)
<1>1. IInv => TagsTrue
  BY InvariantTags
<1>2. QED
  BY <1>1, CacheInvariant, PTL
=============================================================================

--------------------------- MODULE BoaStringProofs ---------------------------
(***************************************************************************)
(* The functions of string.c and print.c, for memory of every size and all *)
(* arguments C allows: first memmove and memcpy, then the loops that only  *)
(* read, then the other loops that write.                                  *)
(*                                                                         *)
(* memmove reads bytes it has not overwritten yet because it begins at the *)
(* end of dst that lies away from src.                                     *)
(*                                                                         *)
(* A loop that only reads is a recursive function.  There is such a        *)
(* function, and only one, because from every place there is a first place *)
(* at which the loop stops; what it returns is what it returns there.      *)
(***************************************************************************)
EXTENDS BoaString, FiniteSetTheorems, TLAPS

Moves == call.fn \in {"memcpy", "memmove"}

\* What C asks of the caller.
MoveArgs ==
  /\ call.dst \in 0 .. Size /\ call.src \in 0 .. Size /\ call.n \in 0 .. Size
  /\ call.dst + call.n <= Size /\ call.src + call.n <= Size
  /\ call.fn = "memcpy" => Apart(call.dst, call.n, call.src, call.n)

\* Memory when the bytes from counter `from' up to, but without, counter `to'
\* have been copied.
Between(from, to) ==
  [a \in Addr |-> IF a \in call.dst + from .. call.dst + to - 1
                  THEN old[a - call.dst + call.src] ELSE old[a]]

\* The loops' invariants.
UpInv ==
  /\ i \in 0 .. call.n /\ mem = Between(0, i)
  /\ pc = "done" => i = call.n /\ ret = call.dst
DownInv ==
  /\ i \in -1 .. call.n - 1 /\ mem = Between(i + 1, call.n)
  /\ pc = "done" => i = -1 /\ ret = call.dst

MoveInv ==
  Moves => /\ MoveArgs
           /\ IF Descends(call) THEN DownInv ELSE UpInv

----------------------------------------------------------------------------
\* A byte that is read by a copy upwards has not been written before.
LEMMA ReadsOldUp ==
  ASSUME Size \in Nat, Moves, MoveArgs, ~Descends(call), UpInv, i < call.n
  PROVE  mem[call.src + i] = old[call.src + i]
<1>1. call.src + i \in Addr
  BY DEF MoveArgs, UpInv, Addr
<1>2. call.src + i \notin call.dst .. call.dst + i - 1
  BY DEF MoveArgs, UpInv, Moves, Descends, Apart
<1> QED
  BY <1>1, <1>2 DEF UpInv, Between, MoveArgs

\* The same of a copy downwards.
LEMMA ReadsOldDown ==
  ASSUME Size \in Nat, Moves, MoveArgs, Descends(call), DownInv, i >= 0
  PROVE  mem[call.src + i] = old[call.src + i]
<1>1. call.src + i \in Addr
  BY DEF MoveArgs, DownInv, Addr
<1>2. call.src + i \notin call.dst + (i + 1) .. call.dst + call.n - 1
  BY DEF MoveArgs, DownInv, Descends
<1> QED
  BY <1>1, <1>2 DEF DownInv, Between, MoveArgs

LEMMA MoveInvInit == Init => MoveInv
<1> SUFFICES ASSUME Init, Moves PROVE MoveInv
  BY DEF MoveInv
<1>1. Size \in Nat
  BY StringAssumption
<1>2. call \in Copies
  BY DEF Init, Moves, Others, Call
<1>3. /\ call.dst \in 0 .. Size /\ call.src \in 0 .. Size /\ call.n \in 0 .. Size
  BY <1>2 DEF Copies, Call, Place
<1>4. MoveArgs
  BY <1>1, <1>3 DEF Init, Moves, Valid, MoveArgs
<1>5. mem = [a \in Addr |-> mem[a]] /\ old = mem /\ pc = "loop"
  BY DEF Init, Moves
<1>6. CASE Descends(call)
  <2>1. i = call.n - 1
    BY <1>6 DEF Init
  <2>2. Between(i + 1, call.n) = mem
    BY <2>1, <1>1, <1>3, <1>5 DEF Between
  <2> QED
    BY <2>1, <2>2, <1>3, <1>4, <1>5, <1>6 DEF MoveInv, DownInv
<1>7. CASE ~Descends(call)
  <2>1. i = 0
    BY <1>7 DEF Init
  <2>2. Between(0, i) = mem
    BY <2>1, <1>1, <1>3, <1>5 DEF Between
  <2> QED
    BY <2>1, <2>2, <1>3, <1>4, <1>5, <1>7 DEF MoveInv, UpInv
<1> QED
  BY <1>6, <1>7

\* An iteration upwards.
LEMMA StepUp ==
  ASSUME Size \in Nat, Moves, MoveInv, ~Descends(call), MemcpyFwd
  PROVE  MoveInv'
<1>1. MoveArgs /\ UpInv /\ call' = call /\ old' = old
  BY DEF MoveInv, MemcpyFwd, Again, Return
<1>2. MoveArgs' /\ Moves' /\ ~Descends(call)'
  BY <1>1 DEF MoveArgs, Moves, Descends, Apart
<1>3. CASE i < call.n
  <2>1. i' = i + 1 /\ pc' = pc /\ pc = "loop" /\ mem' = [mem EXCEPT ![call.dst + i] = mem[call.src + i]]
    BY <1>3 DEF MemcpyFwd, Put, Again
  <2>2. mem[call.src + i] = old[call.src + i]
    BY <1>1, <1>3, ReadsOldUp
  <2>3. mem' = [a \in Addr |-> IF a \in call.dst .. call.dst + i THEN old[a - call.dst + call.src]
                               ELSE old[a]]
    BY <1>1, <2>1, <2>2 DEF UpInv, Between, MoveArgs
  <2>4. Between(0, i)' = [a \in Addr |-> IF a \in call.dst .. call.dst + i
                                         THEN old[a - call.dst + call.src] ELSE old[a]]
    BY <1>1, <2>1 DEF UpInv, Between, MoveArgs
  <2>5. UpInv'
    BY <1>1, <1>3, <2>1, <2>3, <2>4 DEF UpInv, MoveArgs
  <2> QED
    BY <1>2, <2>5 DEF MoveInv
<1>4. CASE ~(i < call.n)
  <2>1. i' = i /\ mem' = mem /\ ret' = call.dst
    BY <1>4 DEF MemcpyFwd, Quiet, Return
  <2>2. i = call.n /\ Between(0, i)' = Between(0, i)
    BY <1>1, <1>4, <2>1 DEF UpInv, MoveArgs, Between
  <2>3. UpInv'
    BY <1>1, <2>1, <2>2 DEF UpInv
  <2> QED
    BY <1>2, <2>3 DEF MoveInv
<1> QED
  BY <1>3, <1>4

\* An iteration downwards.
LEMMA StepDown ==
  ASSUME Size \in Nat, Moves, MoveInv, MemcpyRev
  PROVE  MoveInv'
<1>1. MoveArgs /\ DownInv /\ call' = call /\ old' = old /\ Descends(call)
  BY DEF MoveInv, MemcpyRev, Again, Return
<1>2. MoveArgs' /\ Moves' /\ Descends(call)'
  BY <1>1 DEF MoveArgs, Moves, Descends, Apart
<1>3. CASE i >= 0
  <2>1. i' = i - 1 /\ pc' = pc /\ pc = "loop" /\ mem' = [mem EXCEPT ![call.dst + i] = mem[call.src + i]]
    BY <1>3 DEF MemcpyRev, Put, Again
  <2>2. mem[call.src + i] = old[call.src + i]
    BY <1>1, <1>3, ReadsOldDown
  <2>3. mem' = [a \in Addr |-> IF a \in call.dst + i .. call.dst + call.n - 1
                               THEN old[a - call.dst + call.src] ELSE old[a]]
    BY <1>1, <1>3, <2>1, <2>2 DEF DownInv, Between, MoveArgs
  <2>4. Between(i + 1, call.n)' = [a \in Addr |-> IF a \in call.dst + i .. call.dst + call.n - 1
                                                  THEN old[a - call.dst + call.src] ELSE old[a]]
    BY <1>1, <1>3, <2>1 DEF DownInv, Between, MoveArgs
  <2>5. DownInv'
    BY <1>1, <1>3, <2>1, <2>3, <2>4 DEF DownInv, MoveArgs
  <2> QED
    BY <1>2, <2>5 DEF MoveInv
<1>4. CASE ~(i >= 0)
  <2>1. i' = i /\ mem' = mem /\ ret' = call.dst
    BY <1>4 DEF MemcpyRev, Quiet, Return
  <2>2. i = -1 /\ Between(i + 1, call.n)' = Between(i + 1, call.n)
    BY <1>1, <1>4, <2>1 DEF DownInv, MoveArgs, Between
  <2>3. DownInv'
    BY <1>1, <2>1, <2>2 DEF DownInv
  <2> QED
    BY <1>2, <2>3 DEF MoveInv
<1> QED
  BY <1>3, <1>4

----------------------------------------------------------------------------
\* No other step belongs to memcpy or memmove, or turns a call into one of them.
LEMMA OtherSteps ==
  ASSUME Memset \/ Memccpy \/ Strcpy \/ Strncpy \/ Strcat \/ Strncat \/ Write \/ PrintText
  PROVE  ~Moves'
<1>1. CASE Memset
  BY <1>1 DEF Memset, Runs, Again, Return, Moves
<1>2. CASE Memccpy
  BY <1>2 DEF Memccpy, Runs, Again, Return, Moves
<1>3. CASE Strcpy
  BY <1>3 DEF Strcpy, Runs, Again, Return, Moves
<1>4. CASE Strncpy
  BY <1>4 DEF Strncpy, Again, Return, Moves
<1>5. CASE Strcat
  BY <1>5 DEF Strcat, Runs, Again, Return, Moves
<1>6. CASE Strncat
  BY <1>6 DEF Strncat, Runs, Again, Return, Moves
<1>7. CASE Write
  BY <1>7 DEF Write, Runs, Again, Return, Moves
<1>8. CASE PrintText
  BY <1>8 DEF PrintText, Runs, Again, Return, Moves
<1> QED
  BY <1>1, <1>2, <1>3, <1>4, <1>5, <1>6, <1>7, <1>8

LEMMA MoveInvNext == MoveInv /\ [Next]_vars => MoveInv'
<1> SUFFICES ASSUME MoveInv, [Next]_vars PROVE MoveInv'
  OBVIOUS
<1>1. Size \in Nat
  BY StringAssumption
<1>2. CASE MemcpyFwd
  <2>1. Moves /\ ~Descends(call)
    BY <1>2 DEF MemcpyFwd, Moves
  <2> QED
    BY <1>1, <1>2, <2>1, StepUp
<1>3. CASE MemcpyRev
  <2>1. Moves
    BY <1>3 DEF MemcpyRev, Descends, Moves
  <2> QED
    BY <1>1, <1>3, <2>1, StepDown
<1>4. CASE Memset \/ Memccpy \/ Strcpy \/ Strncpy \/ Strcat \/ Strncat \/ Write \/ PrintText
  BY <1>4, OtherSteps DEF MoveInv
<1>5. CASE UNCHANGED vars
  BY <1>5 DEF vars, MoveInv, Moves, MoveArgs, Apart, Descends, UpInv, DownInv, Between
<1> QED
  BY <1>2, <1>3, <1>4, <1>5 DEF Next

\* When the call has returned, the loop has copied all bytes.
LEMMA MoveInvImplies == MoveInv => MovesWhole
<1> SUFFICES ASSUME MoveInv, pc = "done", Moves
             PROVE  mem = Copied(call.dst, call.src, call.n) /\ ret = call.dst
  BY DEF MovesWhole, Returned, Moves
<1>1. call.dst \in Nat /\ call.n \in Nat
  BY StringAssumption DEF MoveInv, MoveArgs
<1>2. mem = Between(0, call.n) /\ ret = call.dst
  BY DEF MoveInv, UpInv, DownInv
<1>3. Between(0, call.n) = Copied(call.dst, call.src, call.n)
  BY <1>1 DEF Between, Copied
<1> QED
  BY <1>2, <1>3

\* string.c:94-112: in memory of every size, whatever it holds, memcpy and memmove
\* return dst with the bytes there that src held before, and every other byte of
\* memory as it was.
THEOREM MovesWholeCorrect == Spec => []MovesWhole
<1>1. Init => MoveInv
  BY MoveInvInit
<1>2. MoveInv /\ [Next]_vars => MoveInv'
  BY MoveInvNext
<1>3. MoveInv => MovesWhole
  BY MoveInvImplies
<1> QED
  BY <1>1, <1>2, <1>3, PTL DEF Spec

----------------------------------------------------------------------------
(* Loops that only read.                                                   *)

\* Every set of natural numbers that is not empty has a least element: the
\* intervals from 0 up to its elements are finite sets, which proper inclusion
\* orders well.
LEMMA Minimum ==
  ASSUME NEW T, T \subseteq Nat, T # {}
  PROVE \E x \in T : \A y \in T : x <= y
<1> DEFINE R == StrictSubsetOrdering(Nat)  S == FiniteSubsetsOf(Nat)  F == {0 .. x : x \in T}
<1>1. IsWellFoundedOn(R, S)
  BY FS_StrictSubsetOrderingWellFounded
<1>2. F \subseteq S /\ F # {}
  <2>1. ASSUME NEW x \in T PROVE 0 .. x \in S
    <3>1. IsFiniteSet(0 .. x)
      BY FS_Interval, x \in Int
    <3> QED BY <3>1 DEF FiniteSubsetsOf
  <2> QED BY <2>1
<1>3. PICK a \in F : \A b \in F : <<b, a>> \notin R
  <2> HIDE DEF R, S, F
  <2> QED BY <1>1, <1>2, WFMin
<1>4. PICK x \in T : a = 0 .. x
  BY <1>3
<1>5. ASSUME NEW y \in T, y < x PROVE FALSE
  <2>1. 0 .. y \in F /\ 0 .. y \subseteq a /\ x \in a /\ x \notin 0 .. y
    BY <1>4, <1>5
  <2>2. <<0 .. y, a>> \in R
    BY <2>1, <1>4 DEF StrictSubsetOrdering
  <2> QED BY <2>1, <2>2, <1>3
<1> QED BY <1>5

\* The first place from s on at which a loop stops that ends at e.
Stops(s, e, Z, x) == x \in s .. e /\ (x = e \/ x \in Z) /\ \A y \in s .. x - 1 : y \notin Z

\* A loop that ends at e stops.
LEMMA StopExists ==
  ASSUME NEW s \in Int, NEW e \in Int, s <= e, NEW Z
  PROVE  \E x \in s .. e : Stops(s, e, Z, x)
<1> DEFINE T == {d \in 0 .. e - s : s + d = e \/ s + d \in Z}
<1>1. T \subseteq Nat /\ e - s \in T
  OBVIOUS
<1>2. PICK d \in T : \A y \in T : d <= y
  <2> HIDE DEF T
  <2> QED BY <1>1, Minimum
<1>3. \A y \in s .. s + d - 1 : y \notin Z
  <2> SUFFICES ASSUME NEW y \in s .. s + d - 1, y \in Z PROVE FALSE
    OBVIOUS
  <2>1. y - s \in T
    BY <1>2
  <2> QED BY <1>2, <2>1
<1> QED BY <1>2, <1>3 DEF Stops

\* It stops at one place.
LEMMA StopUnique ==
  ASSUME NEW s \in Int, NEW e \in Int, NEW Z, NEW x, NEW y, Stops(s, e, Z, x), Stops(s, e, Z, y)
  PROVE  x = y
BY DEF Stops

\* A loop upwards, as a recursive function.
Upwards(f, s, e, Z, h) ==
  f = [p \in s .. e |-> IF p = e \/ p \in Z THEN h[p] ELSE f[p + 1]]

\* There is such a function: it gives what h says of the first stop.
LEMMA UpwardsExists ==
  ASSUME NEW s \in Int, NEW e \in Int, NEW Z, NEW h
  PROVE  \E f : Upwards(f, s, e, Z, h)
<1> DEFINE First(p) == CHOOSE x \in p .. e : Stops(p, e, Z, x)
           g == [p \in s .. e |-> h[First(p)]]
<1>1. ASSUME NEW p \in s .. e PROVE First(p) \in p .. e /\ Stops(p, e, Z, First(p))
  BY StopExists
<1>2. ASSUME NEW p \in s .. e PROVE g[p] = IF p = e \/ p \in Z THEN h[p] ELSE g[p + 1]
  <2>1. g[p] = h[First(p)]
    OBVIOUS
  <2>2. CASE p = e \/ p \in Z
    <3>1. First(p) = p
      <4> HIDE DEF First
      <4> QED BY <1>1, <2>2 DEF Stops
    <3> QED BY <2>1, <2>2, <3>1, SMTT(30)
  <2>3. CASE ~(p = e \/ p \in Z)
    <3>1. p + 1 \in s .. e
      BY <2>3
    <3>2. First(p) = First(p + 1)
      <4>1. Stops(p, e, Z, First(p)) /\ Stops(p + 1, e, Z, First(p + 1))
        BY <1>1, <3>1
      <4> HIDE DEF First
      <4>2. Stops(p + 1, e, Z, First(p))
        BY <4>1, <2>3, <3>1 DEF Stops
      <4> QED BY <4>1, <4>2, <3>1, StopUnique
    <3>3. g[p + 1] = h[First(p + 1)]
      BY <3>1
    <3> HIDE DEF g, First
    <3> QED BY <2>1, <2>3, <3>2, <3>3
  <2> QED BY <2>2, <2>3
<1>3. Upwards(g, s, e, Z, h)
  <2>1. g = [p \in s .. e |-> g[p]]
    OBVIOUS
  <2> HIDE DEF g
  <2> QED BY <1>2, <2>1 DEF Upwards
<1> QED BY <1>3

\* Every such function gives what h says of the first stop, by the least distance
\* from the stop at which it would not.
LEMMA UpwardsResult ==
  ASSUME NEW s \in Int, NEW e \in Int, NEW Z, NEW h, NEW f, Upwards(f, s, e, Z, h),
         NEW p \in s .. e
  PROVE  \E x \in p .. e : Stops(p, e, Z, x) /\ f[p] = h[x]
<1>1. PICK x \in p .. e : Stops(p, e, Z, x)
  BY StopExists
<1>2. ASSUME f[p] # h[x] PROVE FALSE
  <2> DEFINE T == {d \in 0 .. x - p : f[x - d] # h[x]}
  <2>1. T \subseteq Nat /\ x - p \in T
    BY <1>2
  <2>2. PICK d \in T : \A y \in T : d <= y
    <3> HIDE DEF T
    <3> QED BY <2>1, Minimum
  <2>3. f[x] = h[x]
    BY <1>1 DEF Upwards, Stops
  <2>4. d # 0 /\ x - d \in p .. x - 1
    BY <2>2, <2>3
  <2>5. x - d \notin Z /\ x - d # e
    BY <2>4, <1>1 DEF Stops
  <2>6. f[x - d] = f[x - d + 1]
    BY <2>4, <2>5, <1>1 DEF Upwards
  <2>7. d - 1 \notin T
    <3>1. ~(d <= d - 1)
      OBVIOUS
    <3> HIDE DEF T
    <3> QED BY <2>2, <3>1
  <2>8. f[x - (d - 1)] = h[x] /\ x - (d - 1) = x - d + 1
    BY <2>7, <2>4, <2>2
  <2> QED BY <2>2, <2>6, <2>8
<1> QED BY <1>1, <1>2

\* What a recursive function says of a loop upwards, and that there is one.
LEMMA UpwardsStops ==
  ASSUME NEW s \in Int, NEW e \in Int, s <= e, NEW Z, NEW h, NEW from,
         (\E f : Upwards(f, s, e, Z, h)) => Upwards(from, s, e, Z, h)
  PROVE  \E x \in s .. e : Stops(s, e, Z, x) /\ from[s] = h[x]
<1>1. Upwards(from, s, e, Z, h)
  BY UpwardsExists
<1>2. s \in s .. e
  OBVIOUS
<1> QED BY <1>1, <1>2, UpwardsResult

\* A loop downwards is one upwards, seen in a mirror.
Downwards(f, s, e, Z, h) ==
  f = [p \in s .. e |-> IF p = s \/ p \in Z THEN h[p] ELSE f[p - 1]]

\* There is such a function.
LEMMA DownwardsExists ==
  ASSUME NEW s \in Int, NEW e \in Int, NEW Z, NEW h
  PROVE  \E f : Downwards(f, s, e, Z, h)
<1> DEFINE Y == {q \in -e .. -s : -q \in Z}  k == [q \in -e .. -s |-> h[-q]]
<1>1. PICK g : Upwards(g, -e, -s, Y, k)
  <2>1. -e \in Int /\ -s \in Int
    OBVIOUS
  <2> HIDE DEF Y, k
  <2> QED BY <2>1, UpwardsExists
<1> DEFINE f == [p \in s .. e |-> g[-p]]
<1>2. ASSUME NEW p \in s .. e PROVE f[p] = IF p = s \/ p \in Z THEN h[p] ELSE f[p - 1]
  <2>1. -p \in -e .. -s /\ -(-p) = p /\ k[-p] = h[p] /\ (-p \in Y <=> p \in Z)
    OBVIOUS
  <2>2. g[-p] = IF -p = -s \/ -p \in Y THEN k[-p] ELSE g[-p + 1]
    BY <1>1, <2>1 DEF Upwards
  <2>3. p # s => p - 1 \in s .. e /\ -(p - 1) = -p + 1
    OBVIOUS
  <2> HIDE DEF Y, k
  <2> QED BY <2>1, <2>2, <2>3
<1>3. f = [p \in s .. e |-> f[p]]
  OBVIOUS
<1> HIDE DEF f
<1> QED BY <1>2, <1>3 DEF Downwards

\* It gives what h says of the last stop.
LEMMA DownwardsResult ==
  ASSUME NEW s \in Int, NEW e \in Int, NEW Z, NEW h, NEW f, Downwards(f, s, e, Z, h),
         NEW p \in s .. e
  PROVE  \E x \in s .. p : /\ x = s \/ x \in Z
                           /\ \A y \in x + 1 .. p : y \notin Z
                           /\ f[p] = h[x]
<1> DEFINE Y == {q \in -e .. -s : -q \in Z}  k == [q \in -e .. -s |-> h[-q]]
           g == [q \in -e .. -s |-> f[-q]]
<1>1. ASSUME NEW q \in -e .. -s PROVE g[q] = IF q = -s \/ q \in Y THEN k[q] ELSE g[q + 1]
  <2>1. -q \in s .. e /\ (-q = s <=> q = -s) /\ k[q] = h[-q] /\ g[q] = f[-q] /\ (q \in Y <=> -q \in Z)
    OBVIOUS
  <2>2. q # -s => q + 1 \in -e .. -s /\ -(q + 1) = -q - 1
    OBVIOUS
  <2>3. q # -s => g[q + 1] = f[-q - 1]
    BY <2>2
  <2>4. f[-q] = IF -q = s \/ -q \in Z THEN h[-q] ELSE f[-q - 1]
    BY <2>1 DEF Downwards
  <2> HIDE DEF g, Y, k
  <2> QED BY <2>1, <2>3, <2>4
<1>2. g = [q \in -e .. -s |-> g[q]]
  OBVIOUS
<1>3. Upwards(g, -e, -s, Y, k)
  <2> HIDE DEF g
  <2> QED BY <1>1, <1>2 DEF Upwards
<1>4. -p \in -e .. -s /\ -e \in Int /\ -s \in Int
  OBVIOUS
<1>5. PICK x \in -p .. -s : Stops(-p, -s, Y, x) /\ g[-p] = k[x]
  <2> HIDE DEF g, Y, k
  <2> QED BY <1>3, <1>4, UpwardsResult
<1>6. -x \in s .. p /\ (-x = s \/ -x \in Z) /\ f[p] = h[-x]
  BY <1>5 DEF Stops
<1>7. ASSUME NEW y \in -x + 1 .. p, y \in Z PROVE FALSE
  <2>1. -y \in -p .. x - 1 /\ -y \in Y
    BY <1>5, <1>7
  <2> QED BY <2>1, <1>5 DEF Stops
<1> QED BY <1>6, <1>7

\* The same of a loop downwards.
LEMMA DownwardsStops ==
  ASSUME NEW s \in Int, NEW e \in Int, s <= e, NEW Z, NEW h, NEW from,
         (\E f : Downwards(f, s, e, Z, h)) => Downwards(from, s, e, Z, h)
  PROVE  \E x \in s .. e : /\ x = s \/ x \in Z
                           /\ \A y \in x + 1 .. e : y \notin Z
                           /\ from[e] = h[x]
<1>1. Downwards(from, s, e, Z, h)
  BY DownwardsExists
<1>2. e \in s .. e
  OBVIOUS
<1> QED BY <1>1, <1>2, DownwardsResult

\* strlen finds the first zero.
LEMMA StrlenStops ==
  ASSUME Size \in Nat, NEW m, NEW s \in 0 .. Size
  PROVE  \E x \in s .. Size :
           Stops(s, Size, {p \in Addr : m[p] = 0}, x) /\ strlen(m, s) = x - s
<1> DEFINE Z == {p \in Addr : m[p] = 0}  h == [p \in s .. Size |-> p]
           Eq(f) == f = [p \in s .. Size |-> IF p = Size \/ m[p] = 0 THEN p ELSE f[p + 1]]
           from == CHOOSE f : Eq(f)
<1>1. \A f : Eq(f) <=> Upwards(f, s, Size, Z, h)
  BY DEF Upwards, Addr
<1>2. (\E f : Upwards(f, s, Size, Z, h)) => Upwards(from, s, Size, Z, h)
  <2> HIDE DEF Eq
  <2> QED BY <1>1
<1>3. strlen(m, s) = from[s] - s
  BY DEF strlen
<1>4. PICK x \in s .. Size : Stops(s, Size, Z, x) /\ from[s] = h[x]
  <2> HIDE DEF from, Z, h
  <2> QED BY <1>2, UpwardsStops
<1> QED BY <1>3, <1>4

\* strnlen finds the first zero of n bytes.
LEMMA StrnlenStops ==
  ASSUME NEW m, NEW s, NEW n \in Nat
  PROVE  \E x \in 0 .. n : Stops(0, n, {k \in 0 .. n : m[s + k] = 0}, x) /\ strnlen(m, s, n) = x
<1> DEFINE Z == {k \in 0 .. n : m[s + k] = 0}  h == [k \in 0 .. n |-> k]
           Eq(f) == f = [k \in 0 .. n |-> IF k = n \/ m[s + k] = 0 THEN k ELSE f[k + 1]]
           from == CHOOSE f : Eq(f)
<1>1. \A f : Eq(f) <=> Upwards(f, 0, n, Z, h)
  BY DEF Upwards
<1>2. (\E f : Upwards(f, 0, n, Z, h)) => Upwards(from, 0, n, Z, h)
  <2> HIDE DEF Eq
  <2> QED BY <1>1
<1>3. strnlen(m, s, n) = from[0]
  BY DEF strnlen
<1>4. PICK x \in 0 .. n : Stops(0, n, Z, x) /\ from[0] = h[x]
  <2> HIDE DEF from, Z, h
  <2> QED BY <1>2, UpwardsStops
<1> QED BY <1>3, <1>4

\* memchr finds the first c of n bytes.
LEMMA MemchrStops ==
  ASSUME NEW m, NEW s \in Int, NEW c, NEW n \in Nat
  PROVE  \E x \in s .. s + n :
           /\ Stops(s, s + n, {p \in s .. s + n : m[p] = c}, x)
           /\ memchr(m, s, c, n) = IF x = s + n THEN NULL ELSE x
<1> DEFINE e == s + n  Z == {p \in s .. e : m[p] = c}
           h == [p \in s .. e |-> IF p = e THEN NULL ELSE p]
           Eq(f) == f = [p \in s .. s + n |->
                           IF p = s + n THEN NULL ELSE IF m[p] = c THEN p ELSE f[p + 1]]
           from == CHOOSE f : Eq(f)
<1>1. \A f : Eq(f) <=> Upwards(f, s, e, Z, h)
  <2> SUFFICES ASSUME NEW f PROVE Eq(f) <=> Upwards(f, s, e, Z, h)
    OBVIOUS
  <2>1. \A p \in s .. e : (IF p = s + n THEN NULL ELSE IF m[p] = c THEN p ELSE f[p + 1])
                           = IF p = e \/ p \in Z THEN h[p] ELSE f[p + 1]
    OBVIOUS
  <2> QED BY <2>1 DEF Upwards
<1>2. (\E f : Upwards(f, s, e, Z, h)) => Upwards(from, s, e, Z, h)
  <2> HIDE DEF Eq
  <2> QED BY <1>1
<1>3. memchr(m, s, c, n) = from[s]
  BY DEF memchr
<1>4. PICK x \in s .. e : Stops(s, e, Z, x) /\ from[s] = h[x]
  <2>1. e \in Int /\ s <= e
    OBVIOUS
  <2> HIDE DEF from, Z, h, e
  <2> QED BY <1>2, <2>1, UpwardsStops
<1> QED BY <1>3, <1>4

\* memrchr finds the last c of n bytes, but for the first of them.
LEMMA MemrchrStops ==
  ASSUME NEW m, NEW s \in Int, NEW c, NEW n \in Nat, n > 0
  PROVE  \E x \in s .. s + n - 1 :
           /\ x = s \/ m[x] = c
           /\ \A y \in x + 1 .. s + n - 1 : m[y] # c
           /\ memrchr(m, s, c, n) = IF x = s THEN NULL ELSE x
<1> DEFINE e == s + n - 1  Z == {p \in s .. e : m[p] = c}
           h == [p \in s .. e |-> IF p = s THEN NULL ELSE p]
           Eq(f) == f = [p \in s .. s + n - 1 |->
                           IF p = s THEN NULL ELSE IF m[p] = c THEN p ELSE f[p - 1]]
           from == CHOOSE f : Eq(f)
<1>1. \A f : Eq(f) <=> Downwards(f, s, e, Z, h)
  <2> SUFFICES ASSUME NEW f PROVE Eq(f) <=> Downwards(f, s, e, Z, h)
    OBVIOUS
  <2>1. \A p \in s .. e : (IF p = s THEN NULL ELSE IF m[p] = c THEN p ELSE f[p - 1])
                           = IF p = s \/ p \in Z THEN h[p] ELSE f[p - 1]
    OBVIOUS
  <2> QED BY <2>1 DEF Downwards
<1>2. (\E f : Downwards(f, s, e, Z, h)) => Downwards(from, s, e, Z, h)
  <2> HIDE DEF Eq
  <2> QED BY <1>1
<1>3. memrchr(m, s, c, n) = from[e]
  BY DEF memrchr
<1>4. PICK x \in s .. e : /\ x = s \/ x \in Z
                          /\ \A y \in x + 1 .. e : y \notin Z
                          /\ from[e] = h[x]
  <2>1. e \in Int /\ s <= e
    OBVIOUS
  <2> HIDE DEF from, Z, h, e
  <2> QED BY <1>2, <2>1, DownwardsStops
<1> HIDE DEF from
<1>5. \A y \in x + 1 .. e : m[y] # c
  BY <1>4
<1>6. from[e] = IF x = s THEN NULL ELSE x
  <2>1. h[x] = IF x = s THEN NULL ELSE x
    OBVIOUS
  <2> HIDE DEF h, Z
  <2> QED BY <1>4, <2>1
<1> QED BY <1>3, <1>4, <1>5, <1>6

\* strchr finds the first c before the end of the string.
LEMMA StrchrStops ==
  ASSUME Size \in Nat, NEW m, NEW s \in 0 .. Size, NEW c
  PROVE  \E x \in s .. Size :
           /\ Stops(s, Size, {p \in Addr : m[p] = 0 \/ m[p] = c}, x)
           /\ strchr(m, s, c) = IF x = Size \/ m[x] = 0 THEN NULL ELSE x
<1> DEFINE Z == {p \in Addr : m[p] = 0 \/ m[p] = c}
           h == [p \in s .. Size |-> IF p = Size \/ m[p] = 0 THEN NULL ELSE p]
           Eq(f) == f = [p \in s .. Size |-> IF p = Size \/ m[p] = 0 THEN NULL
                                             ELSE IF m[p] = c THEN p ELSE f[p + 1]]
           from == CHOOSE f : Eq(f)
<1>1. \A f : Eq(f) <=> Upwards(f, s, Size, Z, h)
  <2> SUFFICES ASSUME NEW f PROVE Eq(f) <=> Upwards(f, s, Size, Z, h)
    OBVIOUS
  <2>1. \A p \in s .. Size :
          (IF p = Size \/ m[p] = 0 THEN NULL ELSE IF m[p] = c THEN p ELSE f[p + 1])
          = IF p = Size \/ p \in Z THEN h[p] ELSE f[p + 1]
    BY DEF Addr
  <2> QED BY <2>1 DEF Upwards
<1>2. (\E f : Upwards(f, s, Size, Z, h)) => Upwards(from, s, Size, Z, h)
  <2> HIDE DEF Eq
  <2> QED BY <1>1
<1>3. strchr(m, s, c) = from[s]
  BY DEF strchr
<1>4. PICK x \in s .. Size : Stops(s, Size, Z, x) /\ from[s] = h[x]
  <2> HIDE DEF from, Z, h
  <2> QED BY <1>2, UpwardsStops
<1> QED BY <1>3, <1>4

\* strrchr finds the last c before the end of the string.
LEMMA StrrchrStops ==
  ASSUME Size \in Nat, NEW m, NEW s \in 0 .. Size, NEW c, NEW e \in s .. Size - 1,
         strlen(m, s) = e - s
  PROVE  \E x \in s .. e :
           /\ x = s \/ m[x - 1] = c
           /\ \A y \in x .. e - 1 : m[y] # c
           /\ strrchr(m, s, c) = IF x = s THEN NULL ELSE x - 1
<1> DEFINE Eq(f) == f = [p \in s .. Size - 1 |-> IF p = s THEN NULL
                                                 ELSE IF m[p - 1] = c THEN p - 1 ELSE f[p - 1]]
           from == CHOOSE f : Eq(f)
           Z == {p \in s .. Size - 1 : m[p - 1] = c}
           h == [p \in s .. Size - 1 |-> IF p = s THEN NULL ELSE p - 1]
<1>1. \A f : Eq(f) <=> Downwards(f, s, Size - 1, Z, h)
  <2> SUFFICES ASSUME NEW f PROVE Eq(f) <=> Downwards(f, s, Size - 1, Z, h)
    OBVIOUS
  <2>1. \A p \in s .. Size - 1 : (IF p = s THEN NULL ELSE IF m[p - 1] = c THEN p - 1 ELSE f[p - 1])
                           = IF p = s \/ p \in Z THEN h[p] ELSE f[p - 1]
    OBVIOUS
  <2> QED BY <2>1 DEF Downwards
<1>2. Downwards(from, s, Size - 1, Z, h)
  <2>1. Size - 1 \in Int /\ s \in Int
    OBVIOUS
  <2>2. \E f : Downwards(f, s, Size - 1, Z, h)
    <3> HIDE DEF Z, h
    <3> QED BY <2>1, DownwardsExists
  <2> HIDE DEF Eq
  <2> QED BY <1>1, <2>2
<1>3. strrchr(m, s, c) = from[e]
  <2>1. s + strlen(m, s) = e
    OBVIOUS
  <2> QED BY <2>1 DEF strrchr
<1>4. PICK x \in s .. e : /\ x = s \/ x \in Z
                          /\ \A y \in x + 1 .. e : y \notin Z
                          /\ from[e] = h[x]
  <2>1. Size - 1 \in Int
    OBVIOUS
  <2> HIDE DEF from, Z, h
  <2> QED BY <1>2, <2>1, DownwardsResult
<1> HIDE DEF from
<1>5. ASSUME NEW y \in x .. e - 1 PROVE m[y] # c
  <2>1. y + 1 \in x + 1 .. e /\ y + 1 \in s .. Size - 1 /\ (y + 1) - 1 = y
    BY <1>4
  <2>2. y + 1 \notin Z
    BY <1>4, <2>1
  <2> QED BY <2>1, <2>2
<1>6. from[e] = IF x = s THEN NULL ELSE x - 1
  <2>1. h[x] = IF x = s THEN NULL ELSE x - 1
    OBVIOUS
  <2> HIDE DEF h, Z
  <2> QED BY <1>4, <2>1
<1> QED BY <1>3, <1>4, <1>5, <1>6

\* The least and the greatest element are unique.
LEMMA LeastIs ==
  ASSUME NEW S, S \subseteq Int, NEW x \in S, \A y \in S : x <= y PROVE Least(S) = x
<1> DEFINE P(z) == \A y \in S : z <= y
<1>1. \A z \in S : P(z) => z = x
  OBVIOUS
<1>2. Least(S) = CHOOSE z \in S : P(z)
  BY DEF Least
<1>3. P(x)
  OBVIOUS
<1> HIDE DEF P
<1> QED BY <1>1, <1>2, <1>3

\* The greatest element of a set.
LEMMA GreatestIs ==
  ASSUME NEW S, S \subseteq Int, NEW x \in S, \A y \in S : x >= y PROVE Greatest(S) = x
<1> DEFINE P(z) == \A y \in S : z >= y
<1>1. \A z \in S : P(z) => z = x
  OBVIOUS
<1>2. Greatest(S) = CHOOSE z \in S : P(z)
  BY DEF Greatest
<1>3. P(x)
  OBVIOUS
<1> HIDE DEF P
<1> QED BY <1>1, <1>2, <1>3

\* The end of a string, and its length.
LEMMA StringEnds ==
  ASSUME Size \in Nat, NEW m, NEW s \in Nat, IsString(m, s)
  PROVE  /\ EndOf(m, s) \in s .. Size - 1 /\ m[EndOf(m, s)] = 0
         /\ \A y \in s .. EndOf(m, s) - 1 : m[y] # 0
         /\ strlen(m, s) = EndOf(m, s) - s
<1>1. PICK z \in s .. Size - 1 : m[z] = 0
  BY DEF IsString
<1>2. PICK x \in s .. Size :
        Stops(s, Size, {p \in Addr : m[p] = 0}, x) /\ strlen(m, s) = x - s
  <2>1. s \in 0 .. Size
    BY <1>1
  <2> QED BY <2>1, StrlenStops
<1>3. \A y \in s .. x - 1 : m[y] # 0
  BY <1>2 DEF Stops, Addr
<1>4. x # Size
  BY <1>1, <1>3
<1>5. m[x] = 0
  BY <1>2, <1>4 DEF Stops
<1>6. EndOf(m, s) = x
  <2> DEFINE S == {p \in s .. Size - 1 : m[p] = 0}
  <2>1. x \in S /\ S \subseteq Int /\ \A y \in S : x <= y
    BY <1>3, <1>4, <1>5
  <2>2. EndOf(m, s) = Least(S)
    BY DEF EndOf
  <2> HIDE DEF S
  <2> QED BY <2>1, <2>2, LeastIs
<1> QED BY <1>2, <1>3, <1>4, <1>5, <1>6

----------------------------------------------------------------------------
\* memchr finds the first occurrence.
LEMMA MemchrRight ==
  ASSUME NEW m, NEW s \in Int, NEW n \in Nat, NEW c
  PROVE  memchr(m, s, c, n) = Least({p \in s .. s + n - 1 : m[p] = c})
<1> DEFINE S == {p \in s .. s + n - 1 : m[p] = c}
<1>1. PICK x \in s .. s + n :
        /\ Stops(s, s + n, {p \in s .. s + n : m[p] = c}, x)
        /\ memchr(m, s, c, n) = IF x = s + n THEN NULL ELSE x
  BY MemchrStops
<1>2. \A y \in s .. x - 1 : m[y] # c
  BY <1>1 DEF Stops
<1>3. CASE x = s + n
  <2>1. S = {}
    BY <1>2, <1>3
  <2> QED BY <1>1, <1>3, <2>1 DEF Least
<1>4. CASE x # s + n
  <2>1. x \in S /\ S \subseteq Int /\ \A y \in S : x <= y
    BY <1>1, <1>2, <1>4 DEF Stops
  <2>2. Least(S) = x
    <3> HIDE DEF S
    <3> QED BY <2>1, LeastIs
  <2> QED BY <1>1, <1>4, <2>2
<1> QED BY <1>3, <1>4

\* memrchr finds the last occurrence behind the first byte.
LEMMA MemrchrRight ==
  ASSUME NEW m, NEW s \in Int, NEW n \in Nat, n > 0, NEW c
  PROVE  memrchr(m, s, c, n) = Greatest({p \in (s .. s + n - 1) \ {s} : m[p] = c})
<1> DEFINE S == {p \in (s .. s + n - 1) \ {s} : m[p] = c}
<1>1. PICK x \in s .. s + n - 1 :
        /\ x = s \/ m[x] = c
        /\ \A y \in x + 1 .. s + n - 1 : m[y] # c
        /\ memrchr(m, s, c, n) = IF x = s THEN NULL ELSE x
  BY MemrchrStops
<1>2. CASE x = s
  <2>1. S = {}
    BY <1>1, <1>2
  <2> QED BY <1>1, <1>2, <2>1 DEF Greatest
<1>3. CASE x # s
  <2>1. x \in S /\ S \subseteq Int /\ \A y \in S : x >= y
    BY <1>1, <1>3
  <2>2. Greatest(S) = x
    <3> HIDE DEF S
    <3> QED BY <2>1, GreatestIs
  <2> QED BY <1>1, <1>3, <2>2
<1> QED BY <1>2, <1>3

\* strnlen counts the characters before the end of the string, n at most.
LEMMA StrnlenRight ==
  ASSUME Size \in Nat, NEW m, NEW s \in Nat, NEW n \in Nat, s + n <= Size
  PROVE  strnlen(m, s, n) = IF IsString(m, s) /\ EndOf(m, s) < s + n THEN EndOf(m, s) - s ELSE n
<1>1. PICK x \in 0 .. n : Stops(0, n, {k \in 0 .. n : m[s + k] = 0}, x) /\ strnlen(m, s, n) = x
  BY StrnlenStops
<1>2. \A y \in 0 .. x - 1 : m[s + y] # 0
  BY <1>1 DEF Stops
<1>3. x = n \/ m[s + x] = 0
  BY <1>1 DEF Stops
<1>4. CASE IsString(m, s) /\ EndOf(m, s) < s + n
  <2>1. /\ EndOf(m, s) \in s .. Size - 1 /\ m[EndOf(m, s)] = 0
        /\ \A y \in s .. EndOf(m, s) - 1 : m[y] # 0
    BY <1>4, StringEnds
  <2> DEFINE k == EndOf(m, s) - s
  <2>2. k \in 0 .. n - 1 /\ s + k = EndOf(m, s)
    BY <1>4, <2>1
  <2>3. ~(k < x)
    BY <1>2, <2>1, <2>2
  <2>4. ~(x < k)
    <3> SUFFICES ASSUME x < k PROVE FALSE
      OBVIOUS
    <3>1. s + x \in s .. EndOf(m, s) - 1 /\ x # n
      BY <2>2
    <3> QED BY <1>3, <2>1, <3>1
  <2> QED BY <1>1, <1>4, <2>2, <2>3, <2>4
<1>5. CASE ~(IsString(m, s) /\ EndOf(m, s) < s + n)
  <2>1. ASSUME x # n PROVE FALSE
    <3>1. m[s + x] = 0 /\ s + x \in s .. Size - 1
      BY <1>3, <2>1
    <3>2. IsString(m, s)
      BY <3>1 DEF IsString
    <3>3. EndOf(m, s) \in s .. Size - 1 /\ \A y \in s .. EndOf(m, s) - 1 : m[y] # 0
      BY <3>2, StringEnds
    <3>4. EndOf(m, s) >= s + n
      BY <1>5, <3>2, <3>3
    <3>5. s + x \in s .. EndOf(m, s) - 1
      BY <2>1, <3>3, <3>4
    <3> QED BY <3>1, <3>3, <3>5
  <2> QED BY <1>1, <1>5, <2>1
<1> QED BY <1>4, <1>5

\* memchr, memrchr and strnlen, for every object in memory.
LEMMA ObjectsRight ==
  ASSUME Size \in Nat, NEW m PROVE ObjectsSearched(m, Chars)
<1> SUFFICES ASSUME NEW o \in Objects, NEW c \in Chars
             PROVE  LET s == o[1] n == o[2] place == s .. s + n - 1 IN
               /\ strnlen(m, s, n) = IF IsString(m, s) /\ EndOf(m, s) < s + n THEN EndOf(m, s) - s ELSE n
               /\ memchr(m, s, c, n) = Least({p \in place : m[p] = c})
               /\ LET hits == {p \in place : m[p] = c}
                  IN n > 0 /\ hits # {s} => memrchr(m, s, c, n) = Greatest(hits)
  BY StringAssumption DEF ObjectsSearched
<1> DEFINE s == o[1]  n == o[2]
<1>1. s \in Nat /\ s \in Int /\ n \in Nat /\ s + n <= Size
  BY DEF Objects, Addr
<1> HIDE DEF s, n
<1>2. strnlen(m, s, n) = IF IsString(m, s) /\ EndOf(m, s) < s + n THEN EndOf(m, s) - s ELSE n
  BY <1>1, StrnlenRight
<1>3. memchr(m, s, c, n) = Least({p \in s .. s + n - 1 : m[p] = c})
  BY <1>1, MemchrRight
<1>4. ASSUME n > 0, {p \in s .. s + n - 1 : m[p] = c} # {s}
      PROVE  memrchr(m, s, c, n) = Greatest({p \in s .. s + n - 1 : m[p] = c})
  <2> DEFINE hits == {p \in s .. s + n - 1 : m[p] = c}
             others == {p \in (s .. s + n - 1) \ {s} : m[p] = c}
  <2>1. memrchr(m, s, c, n) = Greatest(others)
    BY <1>1, <1>4, MemrchrRight
  <2>2. CASE s \notin hits
    <3>1. others = hits
      BY <2>2
    <3> QED BY <2>1, <3>1
  <2>3. CASE s \in hits
    <3>1. PICK p \in hits : p # s
      BY <1>4, <2>3
    <3>2. PICK x \in s .. s + n - 1 :
            /\ x = s \/ m[x] = c
            /\ \A y \in x + 1 .. s + n - 1 : m[y] # c
            /\ memrchr(m, s, c, n) = IF x = s THEN NULL ELSE x
      BY <1>1, <1>4, MemrchrStops
    <3>3. x # s /\ x \in hits
      BY <1>1, <3>1, <3>2
    <3>4. hits \subseteq Int /\ \A y \in hits : x >= y
      BY <1>1, <3>2
    <3>5. Greatest(hits) = x
      <4> HIDE DEF hits
      <4> QED BY <3>3, <3>4, GreatestIs
    <3> QED BY <3>2, <3>3, <3>5
  <2> QED BY <2>2, <2>3
<1> QED BY <1>2, <1>3, <1>4 DEF s, n

\* strchr finds the first occurrence in the text.
LEMMA StrchrRight ==
  ASSUME Size \in Nat, NEW m, NEW s \in Nat, IsString(m, s), NEW c
  PROVE  strchr(m, s, c) = Least({p \in s .. EndOf(m, s) - 1 : m[p] = c})
<1> DEFINE e == EndOf(m, s)  S == {p \in s .. e - 1 : m[p] = c}
<1>1. e \in s .. Size - 1 /\ m[e] = 0 /\ \A y \in s .. e - 1 : m[y] # 0
  BY StringEnds
<1>2. PICK x \in s .. Size :
        /\ Stops(s, Size, {p \in Addr : m[p] = 0 \/ m[p] = c}, x)
        /\ strchr(m, s, c) = IF x = Size \/ m[x] = 0 THEN NULL ELSE x
  <2>1. s \in 0 .. Size
    BY <1>1
  <2> QED BY <2>1, StrchrStops
<1> HIDE DEF e
<1>3. \A y \in s .. x - 1 : m[y] # 0 /\ m[y] # c
  BY <1>2 DEF Stops, Addr
<1>4. x \in s .. e
  BY <1>1, <1>3
<1>5. m[x] = 0 \/ m[x] = c
  BY <1>1, <1>2, <1>4 DEF Stops
<1>6. CASE m[x] = 0
  <2>1. x = e
    BY <1>1, <1>4, <1>6
  <2>2. S = {}
    BY <1>3, <2>1
  <2> QED BY <1>2, <1>6, <2>2 DEF Least, e
<1>7. CASE m[x] # 0
  <2>1. x # e /\ x # Size
    BY <1>1, <1>4, <1>7
  <2>2. x \in S /\ S \subseteq Int /\ \A y \in S : x <= y
    BY <1>1, <1>3, <1>4, <1>5, <1>7, <2>1
  <2>3. Least(S) = x
    <3> HIDE DEF S
    <3> QED BY <2>2, LeastIs
  <2> QED BY <1>2, <1>7, <2>1, <2>3 DEF e
<1> QED BY <1>6, <1>7

\* strrchr finds the last occurrence in the text.
LEMMA StrrchrRight ==
  ASSUME Size \in Nat, NEW m, NEW s \in Nat, IsString(m, s), NEW c
  PROVE  strrchr(m, s, c) = Greatest({p \in s .. EndOf(m, s) - 1 : m[p] = c})
<1> DEFINE e == EndOf(m, s)  S == {p \in s .. e - 1 : m[p] = c}
<1>1. e \in s .. Size - 1 /\ strlen(m, s) = e - s /\ s \in 0 .. Size
  BY StringEnds
<1> HIDE DEF e
<1>2. PICK x \in s .. e :
        /\ x = s \/ m[x - 1] = c
        /\ \A y \in x .. e - 1 : m[y] # c
        /\ strrchr(m, s, c) = IF x = s THEN NULL ELSE x - 1
  BY <1>1, StrrchrStops
<1>4. CASE x = s
  <2>1. S = {}
    BY <1>2, <1>4
  <2> QED BY <1>2, <1>4, <2>1 DEF Greatest, e
<1>5. CASE x # s
  <2>1. x - 1 \in S /\ S \subseteq Int /\ \A y \in S : x - 1 >= y
    BY <1>1, <1>2, <1>5
  <2>2. Greatest(S) = x - 1
    <3>1. x - 1 \in Int
      BY <1>1
    <3> HIDE DEF S
    <3> QED BY <2>1, <3>1, GreatestIs
  <2> QED BY <1>2, <1>5, <2>2 DEF e
<1> QED BY <1>4, <1>5

\* The characters of a string.
Letters(m, t) == {m[p] : p \in t .. EndOf(m, t) - 1}

\* strspn and strcspn stop at the end of s, or at a character that is not, or
\* is, among those of t.
LEMMA SpanStops ==
  ASSUME Size \in Nat, NEW m, NEW s \in 0 .. Size, NEW t \in Nat, IsString(m, t), NEW among \in BOOLEAN
  PROVE  \E x \in 0 .. Size - s :
           /\ Stops(0, Size - s,
                    {k \in 0 .. Size - s : m[s + k] = 0 \/ (m[s + k] \in Letters(m, t)) # among}, x)
           /\ Span(m, s, t, among) = x
<1> DEFINE e == Size - s
           listed(b) == \E x \in 0 .. strlen(m, t) - 1 : m[t + x] = b
           Z == {k \in 0 .. e : m[s + k] = 0 \/ (m[s + k] \in Letters(m, t)) # among}
           h == [k \in 0 .. e |-> k]
           Eq(f) == f = [k \in 0 .. Size - s |->
                           IF k = Size - s \/ m[s + k] = 0 \/ listed(m[s + k]) # among
                           THEN k ELSE f[k + 1]]
           from == CHOOSE f : Eq(f)
<1>1. ASSUME NEW b PROVE listed(b) <=> b \in Letters(m, t)
  <2>1. EndOf(m, t) \in t .. Size - 1 /\ strlen(m, t) = EndOf(m, t) - t
    BY StringEnds
  <2>2. ASSUME listed(b) PROVE b \in Letters(m, t)
    <3>1. PICK x \in 0 .. strlen(m, t) - 1 : m[t + x] = b
      BY <2>2
    <3>2. t + x \in t .. EndOf(m, t) - 1
      BY <2>1
    <3> QED BY <3>1, <3>2 DEF Letters
  <2>3. ASSUME b \in Letters(m, t) PROVE listed(b)
    <3>1. PICK p \in t .. EndOf(m, t) - 1 : m[p] = b
      BY <2>3 DEF Letters
    <3>2. p - t \in 0 .. strlen(m, t) - 1 /\ t + (p - t) = p
      BY <2>1
    <3> QED BY <3>1, <3>2
  <2> QED BY <2>2, <2>3
<1>2. \A f : Eq(f) <=> Upwards(f, 0, e, Z, h)
  <2> SUFFICES ASSUME NEW f PROVE Eq(f) <=> Upwards(f, 0, e, Z, h)
    OBVIOUS
  <2> HIDE DEF listed
  <2>1. ASSUME NEW k \in 0 .. e
        PROVE  (k = Size - s \/ m[s + k] = 0 \/ listed(m[s + k]) # among) <=> (k = e \/ k \in Z)
    <3>1. (listed(m[s + k]) # among) <=> ((m[s + k] \in Letters(m, t)) # among)
      BY <1>1
    <3> HIDE DEF listed
    <3> QED BY <3>1
  <2>2. \A k \in 0 .. e : (IF k = Size - s \/ m[s + k] = 0 \/ listed(m[s + k]) # among THEN k ELSE f[k + 1])
                           = IF k = e \/ k \in Z THEN h[k] ELSE f[k + 1]
    <3> HIDE DEF Z
    <3> QED BY <2>1
  <2> HIDE DEF Z, h
  <2> QED BY <2>2 DEF Upwards
<1>3. (\E f : Upwards(f, 0, e, Z, h)) => Upwards(from, 0, e, Z, h)
  <2> HIDE DEF Eq
  <2> QED BY <1>2
<1>4. Span(m, s, t, among) = from[0]
  BY DEF Span
<1>5. PICK x \in 0 .. e : Stops(0, e, Z, x) /\ from[0] = h[x]
  <2>1. e \in Int /\ 0 <= e
    OBVIOUS
  <2> HIDE DEF from, Z, h, e
  <2> QED BY <1>3, <2>1, UpwardsStops, SMTT(30)
<1> HIDE DEF from
<1> QED BY <1>4, <1>5

\* The places of s before which, and at which, all characters are (or are not)
\* among those of t.
Spanned(m, s, t, among) ==
  {p \in s .. EndOf(m, s) - 1 : \A q \in s .. p : (m[q] \in Letters(m, t)) = among}

\* strspn and strcspn count those places.
LEMMA SpanRight ==
  ASSUME Size \in Nat, NEW m, NEW s \in Nat, IsString(m, s), NEW t \in Nat, IsString(m, t),
         NEW among \in BOOLEAN
  PROVE  Span(m, s, t, among) = Cardinality(Spanned(m, s, t, among))
<1> DEFINE e == EndOf(m, s)  L == Letters(m, t)
           S == {p \in s .. e - 1 : \A q \in s .. p : (m[q] \in L) = among}
<1>1. e \in s .. Size - 1 /\ m[e] = 0 /\ (\A y \in s .. e - 1 : m[y] # 0) /\ s \in 0 .. Size
  BY StringEnds
<1>2. PICK x \in 0 .. Size - s :
        /\ Stops(0, Size - s, {k \in 0 .. Size - s : m[s + k] = 0 \/ (m[s + k] \in L) # among}, x)
        /\ Span(m, s, t, among) = x
  <2>1. Size \in Nat /\ IsString(m, t) /\ t \in Nat /\ among \in BOOLEAN
    OBVIOUS
  <2>2. s \in 0 .. Size
    BY <1>1
  <2> QED BY ONLY <2>1, <2>2, SpanStops
<1> HIDE DEF e, L
<1>3. ASSUME NEW y \in s .. s + x - 1 PROVE m[y] # 0 /\ (m[y] \in L) = among
  <2>1. y - s \in 0 .. x - 1 /\ s + (y - s) = y /\ y - s \in 0 .. Size - s
    BY <1>1
  <2>2. y - s \notin {k \in 0 .. Size - s : m[s + k] = 0 \/ (m[s + k] \in L) # among}
    BY <1>2, <2>1 DEF Stops
  <2>3. ~(m[s + (y - s)] = 0 \/ (m[s + (y - s)] \in L) # among)
    BY <2>1, <2>2
  <2> QED BY <2>1, <2>3
<1>4. s + x <= e
  <2>1. ~(e \in s .. s + x - 1)
    BY <1>1, <1>3
  <2> QED BY <1>1, <2>1
<1>5. s + x = e \/ (m[s + x] \in L) # among
  <2> SUFFICES ASSUME s + x # e PROVE (m[s + x] \in L) # among
    OBVIOUS
  <2>1. x # Size - s /\ s + x \in s .. e - 1
    BY <1>1, <1>4
  <2>2. x \in {k \in 0 .. Size - s : m[s + k] = 0 \/ (m[s + k] \in L) # among}
    BY <1>2, <2>1 DEF Stops
  <2>3. m[s + x] = 0 \/ (m[s + x] \in L) # among
    BY <2>2
  <2>4. m[s + x] # 0
    BY <1>1, <2>1
  <2> QED BY <2>3, <2>4
<1>6. S = s .. s + x - 1
  <2>1. ASSUME NEW p \in S PROVE p \in s .. s + x - 1
    <3>1. p \in s .. e - 1 /\ \A q \in s .. p : (m[q] \in L) = among
      OBVIOUS
    <3>2. ~(s + x <= p)
      <4> SUFFICES ASSUME s + x <= p PROVE FALSE
        OBVIOUS
      <4>1. s + x \in s .. p /\ s + x # e
        BY <1>1, <3>1
      <4>2. (m[s + x] \in L) = among
        BY <3>1, <4>1
      <4> QED BY <1>5, <4>1, <4>2
    <3> QED BY <3>1, <3>2
  <2>2. ASSUME NEW p \in s .. s + x - 1 PROVE p \in S
    <3>1. p \in s .. e - 1
      BY <1>1, <1>4
    <3>2. \A q \in s .. p : q \in s .. s + x - 1
      OBVIOUS
    <3>3. \A q \in s .. p : (m[q] \in L) = among
      BY <1>3, <3>2
    <3> QED BY <3>1, <3>3
  <2> HIDE DEF S
  <2> QED BY <2>1, <2>2
<1>7. Cardinality(s .. s + x - 1) = x
  <2>1. s + x - 1 \in Int /\ s \in Int
    OBVIOUS
  <2>2. Cardinality(s .. s + x - 1) = IF s > s + x - 1 THEN 0 ELSE s + x - 1 - s + 1
    BY <2>1, FS_Interval
  <2> QED BY <2>2
<1>8. Cardinality(S) = x
  BY <1>6, <1>7
<1> QED BY <1>2, <1>8 DEF e, L, Spanned

\* strlen, strchr, strrchr, strspn and strcspn, for every string in memory.
LEMMA StringsRight ==
  ASSUME Size \in Nat, NEW m PROVE StringsSearched(m, Chars)
<1> SUFFICES ASSUME NEW s \in Strings(m), NEW c, NEW t \in Strings(m)
             PROVE  LET text == s .. EndOf(m, s) - 1
                        set == {m[p] : p \in t .. EndOf(m, t) - 1} IN
               /\ strlen(m, s) = Cardinality(text)
               /\ strchr(m, s, c) = Least({p \in text : m[p] = c})
               /\ strrchr(m, s, c) = Greatest({p \in text : m[p] = c})
               /\ strspn(m, s, t) = Cardinality({p \in text : \A q \in s .. p : m[q] \in set})
               /\ strcspn(m, s, t) = Cardinality({p \in text : \A q \in s .. p : m[q] \notin set})
  BY StringAssumption, ZenonT(60) DEF StringsSearched
<1>1. s \in Nat /\ IsString(m, s) /\ t \in Nat /\ IsString(m, t)
  BY DEF Strings, Addr
<1>2. strlen(m, s) = Cardinality(s .. EndOf(m, s) - 1)
  <2>1. EndOf(m, s) \in s .. Size - 1 /\ strlen(m, s) = EndOf(m, s) - s
    BY <1>1, StringEnds
  <2>2. EndOf(m, s) - 1 \in Int /\ s \in Int
    BY <1>1, <2>1
  <2>3. Cardinality(s .. EndOf(m, s) - 1)
          = IF s > EndOf(m, s) - 1 THEN 0 ELSE EndOf(m, s) - 1 - s + 1
    BY <2>2, FS_Interval
  <2> QED BY <1>1, <2>1, <2>3
<1>3. /\ strchr(m, s, c) = Least({p \in s .. EndOf(m, s) - 1 : m[p] = c})
      /\ strrchr(m, s, c) = Greatest({p \in s .. EndOf(m, s) - 1 : m[p] = c})
  BY <1>1, StrchrRight, StrrchrRight
<1>4. strspn(m, s, t)
        = Cardinality({p \in s .. EndOf(m, s) - 1 : \A q \in s .. p : m[q] \in Letters(m, t)})
  <2>1. Span(m, s, t, TRUE) = Cardinality(Spanned(m, s, t, TRUE))
    BY <1>1, SpanRight
  <2>2. Spanned(m, s, t, TRUE)
        = {p \in s .. EndOf(m, s) - 1 : \A q \in s .. p : m[q] \in Letters(m, t)}
    BY DEF Spanned
  <2> QED BY <2>1, <2>2 DEF strspn
<1>5. strcspn(m, s, t)
        = Cardinality({p \in s .. EndOf(m, s) - 1 : \A q \in s .. p : m[q] \notin Letters(m, t)})
  <2>1. Span(m, s, t, FALSE) = Cardinality(Spanned(m, s, t, FALSE))
    BY <1>1, SpanRight
  <2>2. Spanned(m, s, t, FALSE)
        = {p \in s .. EndOf(m, s) - 1 : \A q \in s .. p : m[q] \notin Letters(m, t)}
    BY DEF Spanned
  <2> QED BY <2>1, <2>2 DEF strcspn
<1> QED BY <1>2, <1>3, <1>4, <1>5 DEF Letters

----------------------------------------------------------------------------
(* Comparisons, with regard to case or without.                            *)

EqualChars(cased, u, v) == IF cased THEN CharEqual(u, v) ELSE CharCaseEqual(u, v)
FoldOf(cased, c) == IF cased THEN c ELSE Fold(c)
Comparison(m, a, b, n, cased, ends) ==
  IF cased THEN Compare(m, a, b, n, CharEqual, ends) ELSE Compare(m, a, b, n, CharCaseEqual, ends)

\* Characters are compared as they are folded.
ComparedFolded(cased, u, v) ==
  /\ EqualChars(cased, u, v) <=> FoldOf(cased, u) = FoldOf(cased, v)
  /\ u = v => EqualChars(cased, u, v)
  /\ EqualChars(cased, u, v) => (u = 0 <=> v = 0)

\* __charcaseequal is equality but for the case of letters.
LEMMA CharsFolded ==
  ASSUME NEW cased \in BOOLEAN, NEW u \in 0 .. 255, NEW v \in 0 .. 255
  PROVE  ComparedFolded(cased, u, v)
<1>1. CASE cased
  BY <1>1 DEF EqualChars, FoldOf, CharEqual, ComparedFolded
<1>2. CASE ~cased
  <2>1. /\ u = 32 * (u \div 32) + (u % 32) /\ u % 32 \in 0 .. 31 /\ u \div 32 \in 0 .. 7
        /\ v = 32 * (v \div 32) + (v % 32) /\ v % 32 \in 0 .. 31 /\ v \div 32 \in 0 .. 7
    OBVIOUS
  <2>2. \A k \in 0 .. 7 : (k % 2 = 1 <=> k \in {1, 3, 5, 7})
    OBVIOUS
  <2>3. /\ Upper(u) \in 65 .. 90 <=> u \in (65 .. 90) \cup (97 .. 122)
        /\ Upper(v) \in 65 .. 90 <=> v \in (65 .. 90) \cup (97 .. 122)
    BY <2>1, <2>2 DEF Upper
  <2>4. /\ u \in 65 .. 90 => Upper(u) = u
        /\ u \in 97 .. 122 => Upper(u) = u - 32
        /\ v \in 65 .. 90 => Upper(v) = v
        /\ v \in 97 .. 122 => Upper(v) = v - 32
    BY <2>1, <2>2 DEF Upper
  <2> QED BY <1>2, <2>3, <2>4 DEF EqualChars, FoldOf, CharCaseEqual, Fold, ComparedFolded
<1> QED BY <1>1, <1>2

Unequal(m, a, b, n, cased) == {k \in 0 .. n : ~EqualChars(cased, m[a + k], m[b + k])}
BothEnd(m, a, b, n, ends) == {k \in 0 .. n : ends /\ m[a + k] = 0 /\ m[b + k] = 0}

\* A comparison ends at the first difference, or at the common end.
StopsComparison(m, a, b, n, cased, ends, x) ==
  /\ Stops(0, n, Unequal(m, a, b, n, cased) \cup BothEnd(m, a, b, n, ends), x)
  /\ Comparison(m, a, b, n, cased, ends)
      = IF x # n /\ x \in Unequal(m, a, b, n, cased) THEN m[a + x] - m[b + x] ELSE 0

\* Every comparison does.
LEMMA ComparisonStops ==
  ASSUME NEW m, NEW a, NEW b, NEW n \in Nat, NEW cased \in BOOLEAN, NEW ends \in BOOLEAN
  PROVE  \E x \in 0 .. n : StopsComparison(m, a, b, n, cased, ends, x)
<1> DEFINE D == Unequal(m, a, b, n, cased)  Z == D \cup BothEnd(m, a, b, n, ends)
           h == [k \in 0 .. n |-> IF k # n /\ k \in D THEN m[a + k] - m[b + k] ELSE 0]
           body(f, k) == IF k = n THEN 0
                         ELSE IF ~EqualChars(cased, m[a + k], m[b + k]) THEN m[a + k] - m[b + k]
                         ELSE IF ends /\ m[a + k] = 0 /\ m[b + k] = 0 THEN 0 ELSE f[k + 1]
           Eq(f) == f = [k \in 0 .. n |-> body(f, k)]
           from == CHOOSE f : Eq(f)
<1>1. \A f : Eq(f) <=> Upwards(f, 0, n, Z, h)
  <2> SUFFICES ASSUME NEW f PROVE Eq(f) <=> Upwards(f, 0, n, Z, h)
    OBVIOUS
  <2>1. ASSUME NEW k \in 0 .. n
        PROVE  body(f, k) = IF k = n \/ k \in Z THEN h[k] ELSE f[k + 1]
    <3>1. /\ k \in D <=> ~EqualChars(cased, m[a + k], m[b + k])
          /\ k \in Z <=> k \in D \/ (ends /\ m[a + k] = 0 /\ m[b + k] = 0)
      BY DEF Unequal, BothEnd
    <3>2. h[k] = IF k # n /\ k \in D THEN m[a + k] - m[b + k] ELSE 0
      OBVIOUS
    <3> HIDE DEF D, Z, h
    <3> QED BY <3>1, <3>2
  <2> HIDE DEF body, Z, h
  <2> QED BY <2>1 DEF Upwards
<1>2. (\E f : Upwards(f, 0, n, Z, h)) => Upwards(from, 0, n, Z, h)
  <2> HIDE DEF Eq
  <2> QED BY <1>1
<1>3. Comparison(m, a, b, n, cased, ends) = from[0]
  <2>1. CASE cased
    BY <2>1 DEF Comparison, Compare, EqualChars, CharEqual
  <2>2. CASE ~cased
    BY <2>2 DEF Comparison, Compare, EqualChars
  <2> QED BY <2>1, <2>2
<1>4. PICK x \in 0 .. n : Stops(0, n, Z, x) /\ from[0] = h[x]
  <2> HIDE DEF from, Z, h
  <2> QED BY <1>2, UpwardsStops
<1> HIDE DEF from
<1> QED BY <1>3, <1>4 DEF StopsComparison

\* The places of DifferenceOf.
Ended(m, a, b, k, ends) == ends /\ \E j \in 0 .. k - 1 : m[a + j] = 0 /\ m[b + j] = 0
Differ(m, a, b, n, cased, ends) ==
  {k \in 0 .. n - 1 : /\ a + k < Size /\ b + k < Size /\ ~Ended(m, a, b, k, ends)
                      /\ FoldOf(cased, m[a + k]) # FoldOf(cased, m[b + k])}
Difference(m, a, b, n, cased, ends) ==
  LET d == Differ(m, a, b, n, cased, ends)
  IN IF d = {} THEN 0 ELSE m[a + Least(d)] - m[b + Least(d)]

\* What is compared lies in memory, or ends in it.
Comparable(m, a, b, n, ends) ==
  IF ends THEN IsString(m, a) /\ IsString(m, b) ELSE a + n <= Size /\ b + n <= Size

\* Characters in memory, compared.
LEMMA PlacesFolded ==
  ASSUME Size \in Nat, NEW m \in [Addr -> Chars], NEW a \in Nat, NEW b \in Nat, NEW k \in Nat,
         a + k < Size, b + k < Size, NEW cased \in BOOLEAN
  PROVE  /\ EqualChars(cased, m[a + k], m[b + k]) <=> FoldOf(cased, m[a + k]) = FoldOf(cased, m[b + k])
         /\ m[a + k] = m[b + k] => EqualChars(cased, m[a + k], m[b + k])
         /\ EqualChars(cased, m[a + k], m[b + k]) => (m[a + k] = 0 <=> m[b + k] = 0)
         /\ m[a + k] \in Int /\ m[b + k] \in Int
<1>1. a + k \in Addr /\ b + k \in Addr
  BY DEF Addr
<1>2. m[a + k] \in 0 .. 255 /\ m[b + k] \in 0 .. 255
  BY <1>1, StringAssumption
<1>3. m[a + k] \in Int /\ m[b + k] \in Int
  BY <1>2
<1>4. ComparedFolded(cased, m[a + k], m[b + k])
  BY <1>2, CharsFolded
<1> QED BY ONLY <1>3, <1>4 DEF ComparedFolded

\* A comparison stops before it leaves memory.
LEMMA StopsInMemory ==
  ASSUME Size \in Nat, NEW m \in [Addr -> Chars], NEW a \in Nat, NEW b \in Nat, NEW n \in Nat,
         NEW cased \in BOOLEAN, NEW ends \in BOOLEAN, Comparable(m, a, b, n, ends), NEW x \in 0 .. n,
         Stops(0, n, Unequal(m, a, b, n, cased) \cup BothEnd(m, a, b, n, ends), x)
  PROVE  \A k \in 0 .. x : k < n => a + k < Size /\ b + k < Size
<1>1. CASE ~ends
  BY <1>1 DEF Comparable
<1>2. CASE ends
  <2>1. /\ EndOf(m, a) \in a .. Size - 1 /\ m[EndOf(m, a)] = 0
        /\ EndOf(m, b) \in b .. Size - 1 /\ m[EndOf(m, b)] = 0
    BY <1>2, StringEnds DEF Comparable
  <2> DEFINE p == EndOf(m, a) - a  q == EndOf(m, b) - b
  <2>2. p \in Nat /\ q \in Nat /\ a + p < Size /\ b + q < Size /\ m[a + p] = 0 /\ m[b + q] = 0
    BY <2>1
  <2> HIDE DEF p, q
  <2>3. ASSUME NEW k \in 0 .. x - 1
        PROVE  EqualChars(cased, m[a + k], m[b + k]) /\ ~(m[a + k] = 0 /\ m[b + k] = 0)
    <3>1. k \in 0 .. n /\ k \notin Unequal(m, a, b, n, cased) /\ k \notin BothEnd(m, a, b, n, ends)
      BY DEF Stops
    <3> QED BY <1>2, <3>1 DEF Unequal, BothEnd
  <2>4. ~(p < x /\ p <= q)
    <3> SUFFICES ASSUME p < x, p <= q PROVE FALSE
      OBVIOUS
    <3>1. p \in 0 .. x - 1 /\ b + p < Size
      BY <2>2
    <3>2. EqualChars(cased, m[a + p], m[b + p]) => (m[a + p] = 0 <=> m[b + p] = 0)
      BY <2>2, <3>1, PlacesFolded
    <3> QED BY <2>2, <2>3, <3>1, <3>2
  <2>5. ~(q < x /\ q <= p)
    <3> SUFFICES ASSUME q < x, q <= p PROVE FALSE
      OBVIOUS
    <3>1. q \in 0 .. x - 1 /\ a + q < Size
      BY <2>2
    <3>2. EqualChars(cased, m[a + q], m[b + q]) => (m[a + q] = 0 <=> m[b + q] = 0)
      BY <2>2, <3>1, PlacesFolded
    <3> QED BY <2>2, <2>3, <3>1, <3>2
  <2>6. x <= p /\ x <= q
    BY <2>2, <2>4, <2>5
  <2> QED BY <2>2, <2>6
<1> QED BY <1>1, <1>2

\* Comparisons return the difference at the first of those places.
LEMMA ComparisonRight ==
  ASSUME Size \in Nat, NEW m \in [Addr -> Chars], NEW a \in Nat, NEW b \in Nat, NEW n \in Nat,
         NEW cased \in BOOLEAN, NEW ends \in BOOLEAN, Comparable(m, a, b, n, ends)
  PROVE  Comparison(m, a, b, n, cased, ends) = Difference(m, a, b, n, cased, ends)
<1> DEFINE U == Unequal(m, a, b, n, cased)  E == BothEnd(m, a, b, n, ends)
           d == Differ(m, a, b, n, cased, ends)
<1>0. PICK x \in 0 .. n : StopsComparison(m, a, b, n, cased, ends, x)
  BY ComparisonStops
<1>1. /\ Stops(0, n, U \cup E, x)
      /\ Comparison(m, a, b, n, cased, ends)
          = IF x # n /\ x \in U THEN m[a + x] - m[b + x] ELSE 0
  BY <1>0 DEF StopsComparison
<1>2. \A k \in 0 .. x : k < n => a + k < Size /\ b + k < Size
  BY <1>1, StopsInMemory
<1>3. /\ \A k \in 0 .. n : k \in U <=> ~EqualChars(cased, m[a + k], m[b + k])
      /\ \A k \in 0 .. n : k \in E <=> ends /\ m[a + k] = 0 /\ m[b + k] = 0
  BY DEF Unequal, BothEnd
<1>4. /\ \A k \in 0 .. x - 1 : k \notin U /\ k \notin E
      /\ x = n \/ x \in U \/ x \in E
  BY <1>1 DEF Stops
<1> HIDE DEF U, E
<1>5. ASSUME NEW k \in 0 .. n - 1, k \in d
      PROVE  k \in U /\ k >= x /\ ~(k > x /\ x \in E)
  <2>1. /\ a + k < Size /\ b + k < Size /\ ~Ended(m, a, b, k, ends)
        /\ FoldOf(cased, m[a + k]) # FoldOf(cased, m[b + k])
    BY <1>5 DEF Differ
  <2>2. ~EqualChars(cased, m[a + k], m[b + k])
    BY <2>1, PlacesFolded
  <2>3. k \in U
    BY <1>3, <2>2
  <2>4. ~(k < x)
    BY <1>4, <2>3
  <2>5. ~(k > x /\ x \in E)
    BY <1>3, <2>1 DEF Ended
  <2> QED BY <2>3, <2>4, <2>5
<1>6. CASE x # n /\ x \in U
  <2>1. x \in 0 .. n - 1 /\ a + x < Size /\ b + x < Size
    BY <1>2, <1>6
  <2>2. FoldOf(cased, m[a + x]) # FoldOf(cased, m[b + x])
    BY <1>3, <1>6, <2>1, PlacesFolded
  <2>3. ~Ended(m, a, b, x, ends)
    <3> SUFFICES ASSUME NEW j \in 0 .. x - 1, ends, m[a + j] = 0, m[b + j] = 0 PROVE FALSE
      BY DEF Ended
    <3> QED BY <1>3, <1>4
  <2>4. x \in d /\ d \subseteq Int /\ d \subseteq 0 .. n - 1
    BY <2>1, <2>2, <2>3 DEF Differ
  <2>5. \A k \in d : x <= k
    BY <1>5, <2>4
  <2>6. Least(d) = x
    <3> HIDE DEF d
    <3> QED BY <2>4, <2>5, LeastIs
  <2> HIDE DEF d
  <2> QED BY <1>1, <1>6, <2>4, <2>6 DEF d, Difference
<1>7. CASE ~(x # n /\ x \in U)
  <2>1. d \subseteq 0 .. n - 1
    BY DEF Differ
  <2>2. d = {}
    <3> SUFFICES ASSUME NEW k \in d PROVE FALSE
      OBVIOUS
    <3>1. k \in 0 .. n - 1
      BY <2>1
    <3>2. k \in U /\ k >= x /\ ~(k > x /\ x \in E)
      BY <3>1, <1>5
    <3> HIDE DEF d
    <3> QED BY <1>4, <1>7, <3>1, <3>2
  <2> QED BY <1>1, <1>7, <2>2 DEF Difference
<1> QED BY <1>6, <1>7

----------------------------------------------------------------------------
(* Substrings.                                                             *)

FindOf(m, s, sub, cased) == IF cased THEN strstr(m, s, sub) ELSE strcasestr(m, s, sub)
\* The comparison of the search, at p.
Meets(m, p, sub, cased) == Comparison(m, p, sub, strlen(m, sub), cased, TRUE) = 0

\* strstr and strcasestr stop at the end of s, or where the comparison finds sub.
LEMMA FindStops ==
  ASSUME Size \in Nat, NEW m, NEW s \in 0 .. Size, NEW sub, m[sub] # 0, NEW cased \in BOOLEAN
  PROVE  \E x \in s .. Size :
           /\ Stops(s, Size, {p \in Addr : m[p] = 0 \/ Meets(m, p, sub, cased)}, x)
           /\ FindOf(m, s, sub, cased) = IF x = Size \/ m[x] = 0 THEN NULL ELSE x
<1> DEFINE Z == {p \in Addr : m[p] = 0 \/ Meets(m, p, sub, cased)}
           h == [p \in s .. Size |-> IF p = Size \/ m[p] = 0 THEN NULL ELSE p]
           body(f, p) == IF p = Size \/ m[p] = 0 THEN NULL
                         ELSE IF Meets(m, p, sub, cased) THEN p ELSE f[p + 1]
           Eq(f) == f = [p \in s .. Size |-> body(f, p)]
           from == CHOOSE f : Eq(f)
<1>1. \A f : Eq(f) <=> Upwards(f, s, Size, Z, h)
  <2> SUFFICES ASSUME NEW f PROVE Eq(f) <=> Upwards(f, s, Size, Z, h)
    OBVIOUS
  <2>1. ASSUME NEW p \in s .. Size
        PROVE  body(f, p) = IF p = Size \/ p \in Z THEN h[p] ELSE f[p + 1]
    <3>1. p = Size \/ p \in Addr
      BY DEF Addr
    <3>2. p # Size => (p \in Z <=> m[p] = 0 \/ Meets(m, p, sub, cased))
      BY <3>1
    <3>3. h[p] = IF p = Size \/ m[p] = 0 THEN NULL ELSE p
      OBVIOUS
    <3> HIDE DEF Z, h
    <3> QED BY <3>2, <3>3
  <2> HIDE DEF body, Z, h
  <2> QED BY <2>1 DEF Upwards
<1>2. (\E f : Upwards(f, s, Size, Z, h)) => Upwards(from, s, Size, Z, h)
  <2> HIDE DEF Eq
  <2> QED BY <1>1
<1>3. FindOf(m, s, sub, cased) = from[s]
  <2>1. CASE cased
    BY <2>1 DEF FindOf, strstr, Find, Meets, Comparison, strncmp
  <2>2. CASE ~cased
    BY <2>2 DEF FindOf, strcasestr, Find, Meets, Comparison, strncasecmp
  <2> QED BY <2>1, <2>2
<1>4. PICK x \in s .. Size : Stops(s, Size, Z, x) /\ from[s] = h[x]
  <2> HIDE DEF from, Z, h
  <2> QED BY <1>2, UpwardsStops
<1> HIDE DEF from
<1> QED BY <1>3, <1>4

\* The comparison finds sub where sub occurs.
LEMMA MeetsRight ==
  ASSUME Size \in Nat, NEW m \in [Addr -> Chars], NEW p \in Nat, IsString(m, p),
         NEW sub \in Nat, IsString(m, sub), NEW cased \in BOOLEAN
  PROVE  Meets(m, p, sub, cased)
           <=> LET n == EndOf(m, sub) - sub
               IN /\ p + n <= EndOf(m, p)
                  /\ \A k \in 0 .. n - 1 : FoldOf(cased, m[p + k]) = FoldOf(cased, m[sub + k])
<1> DEFINE n == EndOf(m, sub) - sub  e == EndOf(m, p)
           U == Unequal(m, p, sub, n, cased)  E == BothEnd(m, p, sub, n, TRUE)
<1>1. /\ n \in Nat /\ sub + n < Size /\ strlen(m, sub) = n /\ \A k \in 0 .. n - 1 : m[sub + k] # 0
      /\ e \in p .. Size - 1 /\ m[e] = 0 /\ \A y \in p .. e - 1 : m[y] # 0
  BY StringEnds
<1> HIDE DEF n, e
<1>2. PICK x \in 0 .. n : StopsComparison(m, p, sub, n, cased, TRUE, x)
  BY <1>1, ComparisonStops, ZenonT(60)
<1>3. /\ Stops(0, n, U \cup E, x)
      /\ Comparison(m, p, sub, n, cased, TRUE) = IF x # n /\ x \in U THEN m[p + x] - m[sub + x] ELSE 0
  BY <1>2 DEF StopsComparison
<1>4. \A k \in 0 .. x : k < n => p + k < Size /\ sub + k < Size
  <2>1. Comparable(m, p, sub, n, TRUE)
    BY DEF Comparable
  <2> QED BY <1>1, <1>3, <2>1, StopsInMemory
<1>5. /\ \A k \in 0 .. n : k \in U <=> ~EqualChars(cased, m[p + k], m[sub + k])
      /\ \A k \in 0 .. n : k \in E <=> m[p + k] = 0 /\ m[sub + k] = 0
  BY DEF Unequal, BothEnd
<1>6. /\ \A k \in 0 .. x - 1 : k \notin U /\ k \notin E
      /\ x = n \/ x \in U \/ x \in E
  BY <1>3 DEF Stops
<1> HIDE DEF U, E
<1>7. x = n \/ x \in U
  BY <1>1, <1>5, <1>6
<1>8. Meets(m, p, sub, cased) <=> x = n
  <2>1. CASE x = n
    BY <1>1, <1>3, <2>1 DEF Meets
  <2>2. CASE x # n
    <3>1. x \in U /\ x \in Nat /\ x < n
      BY <1>1, <1>7, <2>2
    <3>2. p + x < Size /\ sub + x < Size
      BY <1>1, <1>4, <3>1
    <3>3. m[p + x] # m[sub + x] /\ m[p + x] \in Int /\ m[sub + x] \in Int
      BY <1>5, <3>1, <3>2, PlacesFolded
    <3>4. Comparison(m, p, sub, n, cased, TRUE) = m[p + x] - m[sub + x]
      BY <1>3, <2>2, <3>1
    <3>5. m[p + x] - m[sub + x] # 0
      BY <3>3
    <3>6. Comparison(m, p, sub, n, cased, TRUE) # 0
      BY <3>4, <3>5
    <3> QED BY <1>1, <2>2, <3>6 DEF Meets
  <2> QED BY <2>1, <2>2
<1>9. ASSUME x = n
      PROVE  /\ p + n <= e
             /\ \A k \in 0 .. n - 1 : FoldOf(cased, m[p + k]) = FoldOf(cased, m[sub + k])
  <2>1. ASSUME NEW k \in 0 .. n - 1
        PROVE  m[p + k] # 0 /\ FoldOf(cased, m[p + k]) = FoldOf(cased, m[sub + k])
    <3>1. EqualChars(cased, m[p + k], m[sub + k]) /\ p + k < Size /\ sub + k < Size /\ k \in Nat
      BY <1>1, <1>4, <1>5, <1>6, <1>9
    <3>2. m[sub + k] # 0
      BY <1>1
    <3> QED BY <3>1, <3>2, PlacesFolded
  <2>2. ~(e < p + n)
    <3> SUFFICES ASSUME e < p + n PROVE FALSE
      OBVIOUS
    <3>1. e - p \in 0 .. n - 1 /\ p + (e - p) = e
      BY <1>1
    <3> QED BY <1>1, <2>1, <3>1
  <2> QED BY <1>1, <2>1, <2>2
<1>10. ASSUME p + n <= e,
              \A k \in 0 .. n - 1 : FoldOf(cased, m[p + k]) = FoldOf(cased, m[sub + k])
       PROVE  x = n
  <2> SUFFICES ASSUME x # n PROVE FALSE
    OBVIOUS
  <2>1. x \in U /\ x \in 0 .. n - 1 /\ x \in Nat
    BY <1>1, <1>7
  <2>2. p + x < Size /\ sub + x < Size
    BY <1>1, <1>4, <2>1
  <2>3. EqualChars(cased, m[p + x], m[sub + x])
    BY <1>10, <2>1, <2>2, PlacesFolded
  <2> QED BY <1>5, <2>1, <2>3
<1> QED BY <1>8, <1>9, <1>10 DEF n, e

\* An occurrence in the standard's words, with regard to case or without.
Occurs(m, s, sub, p, cased) ==
  LET n == EndOf(m, sub) - sub
  IN /\ p + n <= EndOf(m, s)
     /\ \A k \in 0 .. n - 1 : FoldOf(cased, m[p + k]) = FoldOf(cased, m[sub + k])

\* A string has the same end from each of its characters on.
LEMMA SameEnd ==
  ASSUME Size \in Nat, NEW m, NEW s \in Nat, IsString(m, s), NEW p \in s .. EndOf(m, s)
  PROVE  p \in Nat /\ IsString(m, p) /\ EndOf(m, p) = EndOf(m, s)
<1> DEFINE e == EndOf(m, s)
<1>1. e \in s .. Size - 1 /\ m[e] = 0 /\ \A y \in s .. e - 1 : m[y] # 0
  BY StringEnds
<1>2. p \in Nat /\ e \in p .. Size - 1 /\ p \in s .. e
  BY <1>1
<1>3. IsString(m, p)
  BY <1>1, <1>2 DEF IsString
<1>4. EndOf(m, p) \in p .. Size - 1 /\ m[EndOf(m, p)] = 0 /\ \A y \in p .. EndOf(m, p) - 1 : m[y] # 0
  BY <1>2, <1>3, StringEnds
<1> DEFINE d == EndOf(m, p)
<1> HIDE DEF e, d
<1>5. d \in Int /\ e \in Int /\ s \in Int
  BY <1>1, <1>4 DEF d
<1>6. ~(d < e)
  BY <1>1, <1>2, <1>4, <1>5 DEF d
<1>7. ~(e < d)
  BY <1>1, <1>2, <1>4, <1>5 DEF d
<1>8. d = e
  BY <1>5, <1>6, <1>7
<1> QED BY <1>2, <1>3, <1>8 DEF d, e

\* strstr and strcasestr find the first occurrence.
LEMMA FindRight ==
  ASSUME Size \in Nat, NEW m \in [Addr -> Chars], NEW s \in Nat, IsString(m, s),
         NEW sub \in Nat, IsString(m, sub), NEW cased \in BOOLEAN
  PROVE  FindOf(m, s, sub, cased) = Least({p \in s .. EndOf(m, s) : Occurs(m, s, sub, p, cased)})
<1> DEFINE e == EndOf(m, s)  n == EndOf(m, sub) - sub
           S == {p \in s .. e : Occurs(m, s, sub, p, cased)}
<1>1. /\ e \in s .. Size - 1 /\ m[e] = 0 /\ (\A y \in s .. e - 1 : m[y] # 0)
      /\ n \in Nat /\ m[sub + n] = 0 /\ (\A k \in 0 .. n - 1 : m[sub + k] # 0)
  BY StringEnds
<1>2. ASSUME NEW p \in s .. e PROVE Meets(m, p, sub, cased) <=> p \in S
  <2>1. p \in Nat /\ IsString(m, p) /\ EndOf(m, p) = EndOf(m, s)
    BY SameEnd
  <2>2. Meets(m, p, sub, cased)
          <=> /\ p + n <= EndOf(m, p)
              /\ \A k \in 0 .. n - 1 : FoldOf(cased, m[p + k]) = FoldOf(cased, m[sub + k])
    BY <2>1, MeetsRight
  <2> QED BY <2>1, <2>2 DEF Occurs
<1>3. \A p \in S : p \in s .. e /\ p + n <= e
  BY DEF Occurs
<1>4. S \subseteq Int
  BY <1>1
<1>5. CASE m[sub] = 0
  <2>1. n = 0
    BY <1>1, <1>5
  <2>2. s \in S
    BY <1>1, <2>1 DEF Occurs
  <2>3. Least(S) = s
    <3>1. \A y \in S : s <= y
      BY <1>3
    <3> HIDE DEF S
    <3> QED BY <1>4, <2>2, <3>1, LeastIs
  <2>4. FindOf(m, s, sub, cased) = s
    BY <1>5 DEF FindOf, strstr, strcasestr, Find
  <2> QED BY <2>3, <2>4
<1>6. CASE m[sub] # 0
  <2>1. n > 0
    <3>1. n = 0 => sub + n = sub
      OBVIOUS
    <3> QED BY <1>1, <1>6, <3>1
  <2>2. PICK x \in s .. Size :
          /\ Stops(s, Size, {p \in Addr : m[p] = 0 \/ Meets(m, p, sub, cased)}, x)
          /\ FindOf(m, s, sub, cased) = IF x = Size \/ m[x] = 0 THEN NULL ELSE x
    <3>1. s \in 0 .. Size
      BY <1>1
    <3> QED BY <1>6, <3>1, FindStops
  <2> HIDE DEF e, n, S
  <2>3. \A y \in s .. x - 1 : m[y] # 0 /\ ~Meets(m, y, sub, cased)
    BY <2>2 DEF Stops, Addr
  <2>4. x \in s .. e
    BY <1>1, <2>3
  <2>5. m[x] = 0 \/ Meets(m, x, sub, cased)
    BY <1>1, <2>2, <2>4 DEF Stops
  <2>6. \A y \in S : y >= x
    BY <1>1, <1>2, <1>3, <2>3
  <2>7. CASE m[x] = 0
    <3>1. x = e
      BY <1>1, <2>4, <2>7
    <3>2. S = {}
      BY <1>1, <1>3, <2>1, <2>6, <3>1
    <3> QED BY <2>2, <2>7, <3>2 DEF Least, S, e
  <2>8. CASE m[x] # 0
    <3>1. x \in S
      BY <1>2, <2>4, <2>5, <2>8
    <3>2. Least(S) = x
      BY <1>4, <2>6, <3>1, LeastIs
    <3>3. x # Size
      BY <1>1, <2>4
    <3> QED BY <2>2, <2>8, <3>2, <3>3 DEF S, e
  <2> QED BY <2>7, <2>8
<1> QED BY <1>5, <1>6

\* strstr and strcasestr are right.
LEMMA SubstringsRight ==
  ASSUME Size \in Nat, NEW m \in [Addr -> Chars] PROVE SubstringsFound(m)
<1> DEFINE same(c) == c
<1>1. SUFFICES ASSUME NEW s \in Strings(m), NEW sub \in Strings(m)
      PROVE  /\ strstr(m, s, sub) = Least({p \in s .. EndOf(m, s) : OccursAt(m, s, sub, p, same)})
             /\ strcasestr(m, s, sub) = Least({p \in s .. EndOf(m, s) : OccursAt(m, s, sub, p, Fold)})
  BY DEF SubstringsFound
<1>2. s \in Nat /\ IsString(m, s) /\ sub \in Nat /\ IsString(m, sub)
  BY DEF Strings, Addr
<1>3. \A p : /\ OccursAt(m, s, sub, p, same) <=> Occurs(m, s, sub, p, TRUE)
             /\ OccursAt(m, s, sub, p, Fold) <=> Occurs(m, s, sub, p, FALSE)
  BY DEF OccursAt, Occurs, FoldOf
<1>4. /\ FindOf(m, s, sub, TRUE) = Least({p \in s .. EndOf(m, s) : Occurs(m, s, sub, p, TRUE)})
      /\ FindOf(m, s, sub, FALSE) = Least({p \in s .. EndOf(m, s) : Occurs(m, s, sub, p, FALSE)})
  BY <1>2, FindRight
<1> QED BY <1>3, <1>4 DEF FindOf

\* The differences the standard asks for are those of the loops.
LEMMA DifferenceIs ==
  ASSUME NEW m, NEW a, NEW b, NEW n, NEW ends \in BOOLEAN
  PROVE  LET same(c) == c IN
         /\ DifferenceOf(m, a, b, n, same, ends) = Difference(m, a, b, n, TRUE, ends)
         /\ DifferenceOf(m, a, b, n, Fold, ends) = Difference(m, a, b, n, FALSE, ends)
<1> DEFINE same(c) == c
           ended(k) == ends /\ \E j \in 0 .. k - 1 : m[a + j] = 0 /\ m[b + j] = 0
           d1 == {k \in 0 .. n - 1 : a + k < Size /\ b + k < Size /\ ~ended(k)
                                     /\ same(m[a + k]) # same(m[b + k])}
           d2 == {k \in 0 .. n - 1 : a + k < Size /\ b + k < Size /\ ~ended(k)
                                     /\ Fold(m[a + k]) # Fold(m[b + k])}
<1>1. d1 = Differ(m, a, b, n, TRUE, ends)
  BY DEF Differ, Ended, FoldOf
<1>2. d2 = Differ(m, a, b, n, FALSE, ends)
  BY DEF Differ, Ended, FoldOf
<1>3. DifferenceOf(m, a, b, n, same, ends) = IF d1 = {} THEN 0 ELSE m[a + Least(d1)] - m[b + Least(d1)]
  BY DEF DifferenceOf
<1>4. DifferenceOf(m, a, b, n, Fold, ends) = IF d2 = {} THEN 0 ELSE m[a + Least(d2)] - m[b + Least(d2)]
  BY DEF DifferenceOf
<1> HIDE DEF d1, d2
<1> QED BY <1>1, <1>2, <1>3, <1>4 DEF Difference

\* The comparisons are right.
LEMMA ComparedRight ==
  ASSUME Size \in Nat, NEW m \in [Addr -> Chars] PROVE Compared(m)
<1> DEFINE same(c) == c
<1>1. ASSUME NEW a \in Nat, NEW b \in Nat, NEW n \in Nat, NEW ends \in BOOLEAN, Comparable(m, a, b, n, ends)
      PROVE  /\ Compare(m, a, b, n, CharEqual, ends) = DifferenceOf(m, a, b, n, same, ends)
             /\ Compare(m, a, b, n, CharCaseEqual, ends) = DifferenceOf(m, a, b, n, Fold, ends)
  <2>1. /\ Comparison(m, a, b, n, TRUE, ends) = Difference(m, a, b, n, TRUE, ends)
        /\ Comparison(m, a, b, n, FALSE, ends) = Difference(m, a, b, n, FALSE, ends)
    <3>1. \A cased \in BOOLEAN : Comparison(m, a, b, n, cased, ends) = Difference(m, a, b, n, cased, ends)
      BY <1>1, ComparisonRight
    <3> QED BY <3>1, Zenon
  <2>2. /\ Comparison(m, a, b, n, TRUE, ends) = Compare(m, a, b, n, CharEqual, ends)
        /\ Comparison(m, a, b, n, FALSE, ends) = Compare(m, a, b, n, CharCaseEqual, ends)
    BY DEF Comparison
  <2>3. /\ DifferenceOf(m, a, b, n, same, ends) = Difference(m, a, b, n, TRUE, ends)
        /\ DifferenceOf(m, a, b, n, Fold, ends) = Difference(m, a, b, n, FALSE, ends)
    BY DifferenceIs
  <2> QED BY <2>1, <2>2, <2>3
<1>2. ASSUME NEW o \in Objects, NEW b \in 0 .. Size - o[2]
      PROVE  /\ memcmp(m, o[1], b, o[2]) = DifferenceOf(m, o[1], b, o[2], same, FALSE)
             /\ memcasecmp(m, o[1], b, o[2]) = DifferenceOf(m, o[1], b, o[2], Fold, FALSE)
  <2>1. o[1] \in Nat /\ o[2] \in Nat /\ b \in Nat /\ Comparable(m, o[1], b, o[2], FALSE)
    BY DEF Objects, Addr, Comparable
  <2> QED BY <1>1, <2>1 DEF memcmp, memcasecmp
<1>3. ASSUME NEW a \in Strings(m), NEW b \in Strings(m), NEW n \in 0 .. Size
      PROVE  /\ strncmp(m, a, b, n) = DifferenceOf(m, a, b, n, same, TRUE)
             /\ strncasecmp(m, a, b, n) = DifferenceOf(m, a, b, n, Fold, TRUE)
  <2>1. a \in Nat /\ b \in Nat /\ n \in Nat /\ Comparable(m, a, b, n, TRUE)
    BY DEF Strings, Addr, Comparable
  <2> QED BY <1>1, <2>1 DEF strncmp, strncasecmp
<1>4. ASSUME NEW a \in Strings(m), NEW b \in Strings(m)
      PROVE  /\ strcmp(m, a, b) = DifferenceOf(m, a, b, Size, same, TRUE)
             /\ strcasecmp(m, a, b) = DifferenceOf(m, a, b, Size, Fold, TRUE)
  <2>1. Size \in 0 .. Size
    OBVIOUS
  <2> QED BY <1>3, <2>1 DEF strcmp, strcasecmp
<1> QED BY <1>2, <1>3, <1>4 DEF Compared

\* Letters are compared without their case, and what lies next to them is not.
LEMMA LettersRight == LettersFolded
<1> SUFFICES ASSUME NEW a \in {0, 64, 65, 90, 91, 96, 97, 122, 123},
                    NEW b \in {0, 64, 65, 90, 91, 96, 97, 122, 123}
             PROVE  CharCaseEqual(a, b) <=> Fold(a) = Fold(b)
  BY DEF LettersFolded
<1>1. ComparedFolded(FALSE, a, b)
  <2>1. a \in 0 .. 255 /\ b \in 0 .. 255
    OBVIOUS
  <2> QED BY <2>1, CharsFolded
<1> QED BY <1>1 DEF ComparedFolded, EqualChars, FoldOf

----------------------------------------------------------------------------
\* A call that only searches is done from the first state on.
SearchInv == call.fn = "search" => pc = "done" /\ mem \in [Addr -> Chars]

\* In memory of every size, whatever characters it holds, and for all arguments C
\* allows, the loops of string.c that only read find what their comments and C
\* say: memchr, strlen, strnlen, strspn, strcspn, strstr and strcasestr, memcmp,
\* memcasecmp, and strcmp and its relatives; memrchr unless the first byte alone
\* is c, strchr and strrchr unless c is the end of the string.
THEOREM SearchesRightCorrect == Spec => []SearchesRight
<1>1. Init => SearchInv
  BY DEF Init, SearchInv
<1>2. SearchInv /\ [Next]_vars => SearchInv'
  <2> SUFFICES ASSUME SearchInv, [Next]_vars, call'.fn = "search"
               PROVE  pc' = "done" /\ mem' \in [Addr -> Chars]
    BY DEF SearchInv
  <2>1. CASE UNCHANGED vars
    BY <2>1 DEF vars, SearchInv
  <2>2. CASE Next
    <3>1. call' = call
      BY <2>2 DEF Next, MemcpyFwd, MemcpyRev, Memset, Memccpy, Strcpy, Strncpy, Strcat, Strncat,
                  Write, PrintText, Again, Return
    <3> QED BY <2>2, <3>1 DEF Next, MemcpyFwd, MemcpyRev, Memset, Memccpy, Strcpy, Strncpy, Strcat,
                  Strncat, Write, PrintText, Runs, Descends
  <2> QED BY <2>1, <2>2
<1>3. SearchInv => SearchesRight
  <2> SUFFICES ASSUME mem \in [Addr -> Chars] PROVE
        /\ ObjectsSearched(mem, Chars) /\ StringsSearched(mem, Chars) /\ SubstringsFound(mem)
        /\ Compared(mem) /\ LettersFolded
    BY DEF SearchInv, SearchesRight
  <2>1. Size \in Nat
    BY StringAssumption
  <2> QED BY <2>1, ObjectsRight, StringsRight, SubstringsRight, ComparedRight, LettersRight
<1> QED BY <1>1, <1>2, <1>3, PTL DEF Spec

----------------------------------------------------------------------------
(* The functions that write: one invariant for each loop.                  *)

Dst == call.dst
Src == call.src
Num == call.n
\* The length of the string at Src, at most Num for strncpy; the place behind
\* the text of Dst.
Text == strlen(old, Src)
TextCut == strnlen(old, Src, Num)
Behind == Dst + strlen(old, Dst)

Typed ==
  /\ Dst \in 0 .. Size /\ Src \in 0 .. Size /\ Num \in 0 .. Size
  /\ old \in [Addr -> Chars] /\ pc \in {"loop", "fill", "done"}

MemsetInv ==
  /\ Dst + Num <= Size /\ i \in 0 .. Num /\ pc \in {"loop", "done"}
  /\ mem = [a \in Addr |-> IF a \in Dst .. Dst + i - 1 THEN call.c ELSE old[a]]
  /\ pc = "done" => i = Num

MemccpyInv ==
  /\ Dst + Num <= Size /\ Src + Num <= Size /\ Apart(Dst, Num, Src, Num) /\ i \in 0 .. Num
  /\ \A j \in 0 .. i - 1 : old[Src + j] # call.c
  /\ \/ pc = "loop" /\ mem = Copied(Dst, Src, i)
     \/ pc = "done" /\ i = Num /\ mem = Copied(Dst, Src, Num) /\ ret = Dst + Num
     \/ pc = "done" /\ i < Num /\ old[Src + i] = call.c /\ mem = Copied(Dst, Src, i + 1)
                    /\ ret = Dst + i + 1

StrcpyInv ==
  /\ IsString(old, Src) /\ Dst + Text + 1 <= Size /\ Apart(Dst, Text + 1, Src, Text + 1)
  /\ i \in 0 .. Text
  /\ \/ pc = "loop" /\ mem = Copied(Dst, Src, i)
     \/ pc = "done" /\ mem = Copied(Dst, Src, Text + 1)

\* Memory when strncpy has filled Dst up to counter k.
Filled(k) ==
  [a \in Addr |-> IF a \in Dst + TextCut .. Dst + k - 1 THEN 0 ELSE Copied(Dst, Src, TextCut)[a]]

StrncpyInv ==
  /\ Dst + Num <= Size /\ Src + Smaller(TextCut + 1, Num) <= Size
  /\ Apart(Dst, Num, Src, Smaller(TextCut + 1, Num))
  /\ \/ pc = "loop" /\ i \in 0 .. TextCut /\ mem = Copied(Dst, Src, i)
     \/ pc = "fill" /\ i \in TextCut .. Num /\ mem = Filled(i)
     \/ pc = "done" /\ mem = Filled(Num)

StrcatInv ==
  /\ IsString(old, Src) /\ IsString(old, Dst)
  /\ Behind + Text + 1 <= Size /\ Apart(Dst, Behind - Dst + Text + 1, Src, Text + 1)
  /\ Text > 0 =>
       /\ i \in 0 .. Text - 1
       /\ \/ pc = "loop" /\ mem = Copied(Behind, Src, i)
          \/ pc = "done" /\ mem = Copied(Behind, Src, Text)

StrncatInv ==
  /\ IsString(old, Dst) /\ Src + Num <= Size /\ Behind + Num + 1 <= Size
  /\ i \in 0 .. Num - Room
  /\ mem \in [Addr -> Chars]
  /\ \A a \in Addr : a < Dst + Room \/ a > Dst + Num => mem[a] = old[a]
  /\ pc = "loop" \/ (pc = "done" /\ mem[Dst + Room] = 0)

\* The first k bytes of Src have been handed to the UART.
Written(k) == out \in Seq(Chars) /\ Len(out) = k /\ \A j \in 1 .. k : out[j] = old[Src + j - 1]

WriteInv ==
  /\ Src + Num <= Size /\ i \in 0 .. Num /\ mem = old /\ Written(i)
  /\ pc = "loop" \/ (pc = "done" /\ i = Num)

PrintInv ==
  /\ IsString(old, Src) /\ i \in 0 .. Text /\ mem = old /\ Written(i)
  /\ pc = "loop" \/ (pc = "done" /\ i = Text)

WriteTextInv ==
  /\ Typed
  /\ call.fn = "memset" => MemsetInv
  /\ call.fn = "memccpy" => MemccpyInv
  /\ call.fn = "strcpy" => StrcpyInv
  /\ call.fn = "strncpy" => StrncpyInv
  /\ call.fn = "strcat" => StrcatInv
  /\ call.fn = "strncat" => StrncatInv
  /\ call.fn = "write" => WriteInv
  /\ call.fn = "print" => PrintInv

----------------------------------------------------------------------------
\* No step changes the call or the memory that is remembered, and only the loop
\* of the function called takes one.
LEMMA StepOfCall ==
  ASSUME [Next]_vars
  PROVE  /\ call' = call /\ old' = old
         /\ \/ UNCHANGED vars
            \/ /\ call.fn = "memset" => Memset
               /\ call.fn = "memccpy" => Memccpy
               /\ call.fn = "strcpy" => Strcpy
               /\ call.fn = "strncpy" => Strncpy
               /\ call.fn = "strcat" => Strcat
               /\ call.fn = "strncat" => Strncat
               /\ call.fn = "write" => Write
               /\ call.fn = "print" => PrintText
<1>1. CASE UNCHANGED vars
  BY <1>1 DEF vars
<1>2. CASE Next
  BY <1>2 DEF Next, MemcpyFwd, MemcpyRev, Memset, Memccpy, Strcpy, Strncpy, Strcat, Strncat,
              Write, PrintText, Again, Return, Runs, Descends
<1> QED BY <1>1, <1>2

\* One more byte is copied, from where nothing has been written.
LEMMA CopyOne ==
  ASSUME Size \in Nat, NEW d \in Nat, NEW s \in Nat, NEW k \in Nat, d + k < Size, s + k < Size,
         s + k \notin d .. d + k - 1, mem = Copied(d, s, k)
  PROVE  /\ mem[s + k] = old[s + k]
         /\ [mem EXCEPT ![d + k] = mem[s + k]] = Copied(d, s, k + 1)
<1>1. s + k \in Addr /\ d + k \in Addr
  BY DEF Addr
<1>2. mem[s + k] = old[s + k]
  BY <1>1 DEF Copied
<1>3. \A a \in Addr : a \in d .. d + (k + 1) - 1 <=> a \in d .. d + k - 1 \/ a = d + k
  BY DEF Addr
<1>4. d + k - d + s = s + k
  OBVIOUS
<1> QED BY <1>1, <1>2, <1>3, <1>4 DEF Copied

\* An iteration of each loop keeps its invariant.
LEMMA MemsetStep ==
  ASSUME Size \in Nat, Typed, MemsetInv, Memset, call' = call, old' = old
  PROVE  MemsetInv'
<1>1. CASE i < Num
  <2>1. /\ i' = i + 1 /\ pc' = pc /\ mem' = [mem EXCEPT ![Dst + i] = call.c] /\ pc = "loop"
    BY <1>1 DEF Memset, Put, Again, Runs, Dst, Num
  <2>2. Dst \in Nat /\ i \in Nat /\ Dst + i \in Addr
    BY <1>1 DEF MemsetInv, Typed, Addr
  <2>3. \A a \in Addr : a \in Dst .. Dst + (i + 1) - 1 <=> a \in Dst .. Dst + i - 1 \/ a = Dst + i
    BY <2>2 DEF Addr
  <2>4. mem' = [a \in Addr |-> IF a \in Dst .. Dst + (i + 1) - 1 THEN call.c ELSE old[a]]
    BY <2>1, <2>2, <2>3 DEF MemsetInv
  <2> QED BY <1>1, <2>1, <2>2, <2>4 DEF MemsetInv, Typed, Dst, Num
<1>2. CASE ~(i < Num)
  BY <1>2 DEF Memset, Quiet, Return, MemsetInv, Typed, Dst, Num
<1> QED BY <1>1, <1>2

\* The byte c is looked for in memory, and found where it was in src before.
LEMMA MemccpyStep ==
  ASSUME Size \in Nat, Typed, MemccpyInv, Memccpy, call' = call, old' = old
  PROVE  MemccpyInv'
<1>1. /\ Dst \in Nat /\ Src \in Nat /\ Num \in Nat /\ i \in 0 .. Num /\ i \in Nat /\ pc = "loop"
      /\ Dst + Num <= Size /\ Src + Num <= Size /\ (Dst + Num <= Src \/ Src + Num <= Dst)
      /\ mem = Copied(Dst, Src, i)
  BY DEF Typed, MemccpyInv, Apart, Memccpy, Runs
<1>2. Dst' = Dst /\ Src' = Src /\ Num' = Num /\ \A k : Copied(Dst, Src, k)' = Copied(Dst, Src, k)
  BY DEF Dst, Src, Num, Copied
<1>3. CASE i < Num
  <2>1. /\ mem[Src + i] = old[Src + i]
        /\ [mem EXCEPT ![Dst + i] = mem[Src + i]] = Copied(Dst, Src, i + 1)
    <3>1. Dst + i < Size /\ Src + i < Size /\ Src + i \notin Dst .. Dst + i - 1
      BY <1>1, <1>3
    <3> QED BY <1>1, <3>1, CopyOne
  <2>2. mem' = Copied(Dst, Src, i + 1)
    BY <1>3, <2>1 DEF Memccpy, Put, Dst, Src, Num
  <2>3. CASE mem[Src + i] = call.c
    <3>1. pc' = "done" /\ i' = i /\ ret' = Dst + i + 1
      BY <1>3, <2>3 DEF Memccpy, Return, Dst, Src, Num
    <3> QED BY <1>1, <1>2, <1>3, <2>1, <2>2, <2>3, <3>1 DEF MemccpyInv, Apart
  <2>4. CASE mem[Src + i] # call.c
    <3>1. pc' = "loop" /\ i' = i + 1
      BY <1>1, <1>3, <2>4 DEF Memccpy, Again, Dst, Src, Num
    <3>2. \A j \in 0 .. i : old[Src + j] # call.c
      BY <1>1, <2>1, <2>4 DEF MemccpyInv
    <3>3. i' \in 0 .. Num /\ \A j \in 0 .. i' - 1 : old[Src + j] # call.c
      BY <1>1, <1>3, <3>1, <3>2
    <3> QED BY <1>1, <1>2, <2>2, <3>1, <3>3 DEF MemccpyInv, Apart
  <2> QED BY <2>3, <2>4
<1>4. CASE ~(i < Num)
  <2>1. pc' = "done" /\ i' = i /\ ret' = Dst + Num /\ mem' = mem /\ i = Num
    BY <1>1, <1>4 DEF Memccpy, Return, Quiet, Dst, Num
  <2> QED BY <1>1, <1>2, <2>1 DEF MemccpyInv, Apart
<1> QED BY <1>3, <1>4

\* The text of a string, and its end.
LEMMA StringText ==
  ASSUME Size \in Nat, NEW m, NEW s \in Nat, IsString(m, s)
  PROVE  /\ strlen(m, s) \in Nat /\ s + strlen(m, s) < Size /\ m[s + strlen(m, s)] = 0
         /\ \A j \in 0 .. strlen(m, s) - 1 : m[s + j] # 0
<1> DEFINE e == EndOf(m, s)
<1>1. /\ e \in s .. Size - 1 /\ m[e] = 0 /\ \A y \in s .. e - 1 : m[y] # 0
      /\ strlen(m, s) = e - s
  BY StringEnds
<1> HIDE DEF e
<1>2. s + (e - s) = e /\ \A j \in 0 .. e - s - 1 : s + j \in s .. e - 1
  BY <1>1
<1> QED BY <1>1, <1>2

\* The loop ends at the end that src had before, because dst lies apart from it.
LEMMA StrcpyStep ==
  ASSUME Size \in Nat, Typed, StrcpyInv, Strcpy, call' = call, old' = old
  PROVE  StrcpyInv'
<1>1. /\ Dst \in Nat /\ Src \in Nat /\ i \in 0 .. Text /\ i \in Nat /\ pc = "loop"
      /\ Dst + Text + 1 <= Size /\ (Dst + (Text + 1) <= Src \/ Src + (Text + 1) <= Dst)
      /\ mem = Copied(Dst, Src, i) /\ IsString(old, Src)
  BY DEF Typed, StrcpyInv, Apart, Strcpy, Runs
<1>2. /\ Dst' = Dst /\ Src' = Src /\ Text' = Text /\ IsString(old, Src)'
      /\ \A k : Copied(Dst, Src, k)' = Copied(Dst, Src, k)
  BY <1>1 DEF Dst, Src, Text, Copied, IsString
<1>3. /\ Text \in Nat /\ Src + Text < Size /\ old[Src + Text] = 0
      /\ \A j \in 0 .. Text - 1 : old[Src + j] # 0
  BY <1>1, StringText DEF Text
<1>4. /\ mem[Src + i] = old[Src + i]
      /\ [mem EXCEPT ![Dst + i] = mem[Src + i]] = Copied(Dst, Src, i + 1)
  <2>1. Dst + i < Size /\ Src + i < Size /\ Src + i \notin Dst .. Dst + i - 1
    BY <1>1, <1>3
  <2> QED BY <1>1, <2>1, CopyOne
<1>5. CASE mem[Src + i] # 0
  <2>1. i < Text
    BY <1>1, <1>3, <1>4, <1>5
  <2>2. mem' = Copied(Dst, Src, i + 1) /\ i' = i + 1 /\ pc' = "loop"
    BY <1>1, <1>4, <1>5 DEF Strcpy, Put, Again, Dst, Src
  <2> QED BY <1>1, <1>2, <1>3, <2>1, <2>2 DEF StrcpyInv, Apart
<1>6. CASE mem[Src + i] = 0
  <2>1. i = Text
    <3>1. i \notin 0 .. Text - 1
      BY <1>3, <1>4, <1>6
    <3> QED BY <1>1, <1>3, <3>1
  <2>2. mem' = Copied(Dst, Src, i + 1) /\ i' = i /\ pc' = "done"
    BY <1>4, <1>6 DEF Strcpy, EndPut, Put, Return, Dst, Src
  <2> QED BY <1>1, <1>2, <2>1, <2>2 DEF StrcpyInv, Apart
<1> QED BY <1>5, <1>6

\* What strncpy takes from src.
LEMMA TextCutIs ==
  ASSUME Num \in Nat
  PROVE  /\ TextCut \in 0 .. Num /\ (TextCut = Num \/ old[Src + TextCut] = 0)
         /\ \A j \in 0 .. TextCut - 1 : old[Src + j] # 0
<1>1. PICK x \in 0 .. Num :
        Stops(0, Num, {k \in 0 .. Num : old[Src + k] = 0}, x) /\ strnlen(old, Src, Num) = x
  BY StrnlenStops
<1>2. \A j \in 0 .. x - 1 : old[Src + j] # 0
  BY <1>1 DEF Stops
<1>3. x = Num \/ old[Src + x] = 0
  BY <1>1 DEF Stops
<1> QED BY <1>1, <1>2, <1>3 DEF TextCut

\* The first loop takes TextCut bytes, the second fills the rest of dst.
LEMMA StrncpyStep ==
  ASSUME Size \in Nat, Typed, StrncpyInv, Strncpy, call' = call, old' = old
  PROVE  StrncpyInv'
<1> DEFINE taken == Smaller(TextCut + 1, Num)
<1>1. /\ Dst \in Nat /\ Src \in Nat /\ Num \in Nat
      /\ Dst + Num <= Size /\ Src + taken <= Size /\ (Dst + Num <= Src \/ Src + taken <= Dst)
  BY DEF Typed, StrncpyInv, Apart
<1>2. /\ Dst' = Dst /\ Src' = Src /\ Num' = Num /\ TextCut' = TextCut /\ taken' = taken
      /\ (\A k : Copied(Dst, Src, k)' = Copied(Dst, Src, k))
  BY DEF Dst, Src, Num, TextCut, Copied, Smaller
<1>3. \A k : Filled(k)' = Filled(k)
  BY <1>2 DEF Filled
<1>4. /\ TextCut \in 0 .. Num /\ (TextCut = Num \/ old[Src + TextCut] = 0)
      /\ \A j \in 0 .. TextCut - 1 : old[Src + j] # 0
  BY <1>1, TextCutIs
<1>5. taken \in Nat /\ \A k \in 0 .. TextCut : k < Num => k < taken
  BY <1>1, <1>4 DEF Smaller
<1>6. (Apart(Dst, Num, Src, taken))' /\ (Dst + Num <= Size)' /\ (Src + taken <= Size)'
  BY <1>1, <1>2 DEF Apart
<1> HIDE DEF taken
<1>7. CASE pc = "loop" /\ i < Num
  <2>1. i \in 0 .. TextCut /\ i \in Nat /\ mem = Copied(Dst, Src, i)
    BY <1>4, <1>7 DEF StrncpyInv
  <2>2. i < taken /\ Dst + i < Size /\ Src + i < Size /\ Src + i \notin Dst .. Dst + i - 1
    BY <1>1, <1>5, <1>7, <2>1
  <2>3. /\ mem[Src + i] = old[Src + i]
        /\ [mem EXCEPT ![Dst + i] = mem[Src + i]] = Copied(Dst, Src, i + 1)
    BY <1>1, <2>1, <2>2, CopyOne
  <2>4. CASE mem[Src + i] # 0
    <3>1. i < TextCut
      BY <1>4, <1>7, <2>1, <2>3, <2>4
    <3>2. mem' = Copied(Dst, Src, i + 1) /\ i' = i + 1 /\ pc' = "loop"
      BY <1>7, <2>3, <2>4 DEF Strncpy, Put, Again, Dst, Src, Num
    <3>3. i' \in 0 .. TextCut
      BY <1>4, <2>1, <3>1, <3>2
    <3> QED BY <1>2, <1>6, <3>2, <3>3 DEF StrncpyInv, taken
  <2>5. CASE mem[Src + i] = 0
    <3>1. i = TextCut
      <4>1. i \notin 0 .. TextCut - 1
        BY <1>4, <2>3, <2>5
      <4> QED BY <1>4, <2>1, <4>1
    <3>2. mem' = mem /\ i' = i /\ pc' = "fill"
      BY <1>7, <2>5 DEF Strncpy, Quiet, Dst, Src, Num
    <3>3. Filled(TextCut) = Copied(Dst, Src, TextCut)
      BY <1>1, <1>4 DEF Filled, Copied
    <3>4. i' \in TextCut .. Num
      BY <1>4, <3>1, <3>2
    <3> QED BY <1>2, <1>3, <1>6, <2>1, <3>1, <3>2, <3>3, <3>4 DEF StrncpyInv, taken
  <2> QED BY <2>4, <2>5
<1>8. CASE pc = "loop" /\ ~(i < Num)
  <2>1. i = TextCut /\ TextCut = Num /\ mem = Copied(Dst, Src, i)
    <3>1. i \in 0 .. TextCut /\ mem = Copied(Dst, Src, i)
      BY <1>8 DEF StrncpyInv
    <3> QED BY <1>1, <1>4, <1>8, <3>1
  <2>2. mem' = mem /\ i' = i /\ pc' = "fill"
    BY <1>8 DEF Strncpy, Quiet, Num
  <2>3. Filled(TextCut) = Copied(Dst, Src, TextCut)
    BY <1>1, <1>4 DEF Filled, Copied
  <2>4. i' \in TextCut .. Num
    BY <1>4, <2>1, <2>2
  <2> QED BY <1>2, <1>3, <1>6, <2>1, <2>2, <2>3, <2>4 DEF StrncpyInv, taken
<1>9. CASE pc = "fill" /\ i < Num
  <2>1. i \in TextCut .. Num /\ mem = Filled(i)
    BY <1>9 DEF StrncpyInv
  <2>2. mem' = [mem EXCEPT ![Dst + i] = 0] /\ i' = i + 1 /\ pc' = "fill"
    BY <1>9 DEF Strncpy, Put, Again, Dst, Num
  <2>3. Dst + i \in Addr /\ i \in Int /\ TextCut \in Int
    BY <1>1, <1>4, <1>9, <2>1 DEF Addr
  <2>4. \A a \in Addr : a \in Dst + TextCut .. Dst + (i + 1) - 1
                          <=> a \in Dst + TextCut .. Dst + i - 1 \/ a = Dst + i
    BY <1>1, <2>1, <2>3 DEF Addr
  <2>5. mem' = Filled(i + 1)
    BY <2>1, <2>2, <2>3, <2>4 DEF Filled
  <2>6. i' \in TextCut .. Num
    BY <1>1, <1>4, <1>9, <2>1, <2>2
  <2> QED BY <1>2, <1>3, <1>6, <2>2, <2>5, <2>6 DEF StrncpyInv, taken
<1>10. CASE pc = "fill" /\ ~(i < Num)
  <2>1. i = Num /\ mem = Filled(i)
    BY <1>1, <1>4, <1>10 DEF StrncpyInv
  <2>2. mem' = mem /\ pc' = "done"
    BY <1>10 DEF Strncpy, Quiet, Return, Num
  <2> QED BY <1>2, <1>3, <1>6, <2>1, <2>2 DEF StrncpyInv, taken
<1> QED BY <1>7, <1>8, <1>9, <1>10 DEF Strncpy

\* The loop looks one byte ahead.
LEMMA StrcatStep ==
  ASSUME Size \in Nat, Typed, StrcatInv, Strcat, call' = call, old' = old
  PROVE  StrcatInv'
<1>0. CASE ~(Text > 0)
  <2>1. /\ Dst' = Dst /\ Src' = Src /\ Text' = Text /\ Behind' = Behind
        /\ IsString(old, Src)' /\ IsString(old, Dst)'
    BY DEF Dst, Src, Text, Behind, IsString, StrcatInv
  <2> QED BY <1>0, <2>1 DEF StrcatInv, Apart
<1> SUFFICES ASSUME Text > 0 PROVE StrcatInv'
  BY <1>0
<1>1. /\ Dst \in Nat /\ Src \in Nat /\ i \in 0 .. Text - 1 /\ i \in Nat
      /\ mem = Copied(Behind, Src, i) /\ IsString(old, Src) /\ IsString(old, Dst) /\ Text > 0
      /\ Behind + Text + 1 <= Size
      /\ (Dst + (Behind - Dst + Text + 1) <= Src \/ Src + (Text + 1) <= Dst)
  BY DEF Typed, StrcatInv, Apart, Strcat, Runs
<1>2. /\ Dst' = Dst /\ Src' = Src /\ Text' = Text /\ Behind' = Behind
      /\ IsString(old, Src)' /\ IsString(old, Dst)'
      /\ \A d, k : Copied(d, Src, k)' = Copied(d, Src, k)
  BY <1>1 DEF Dst, Src, Text, Behind, Copied, IsString
<1>3. /\ Text \in Nat /\ Src + Text < Size /\ old[Src + Text] = 0
      /\ \A j \in 0 .. Text - 1 : old[Src + j] # 0
  BY <1>1, StringText DEF Text
<1>4. Behind \in Nat /\ Behind >= Dst
  BY <1>1, StringText DEF Behind
<1>5. /\ mem[Src + i] = old[Src + i]
      /\ [mem EXCEPT ![Behind + i] = mem[Src + i]] = Copied(Behind, Src, i + 1)
  <2>1. Behind + i < Size /\ Src + i < Size /\ Src + i \notin Behind .. Behind + i - 1
    BY <1>1, <1>3, <1>4
  <2> QED BY <1>1, <1>4, <2>1, CopyOne
<1>6. mem' = Copied(Behind, Src, i + 1)
  BY <1>5 DEF Strcat, Put, Behind, Dst, Src
<1>7. Src + i + 1 \in Addr /\ mem[Src + i + 1] = old[Src + i + 1]
  <2>1. Src + i + 1 \in Addr /\ Src + i + 1 \notin Behind .. Behind + i - 1
    BY <1>1, <1>3, <1>4 DEF Addr
  <2> QED BY <1>1, <2>1 DEF Copied
<1>8. CASE mem[Src + i + 1] # 0
  <2>1. i + 1 # Text
    <3>1. i + 1 = Text => Src + i + 1 = Src + Text
      BY <1>1, <1>3
    <3> QED BY <1>3, <1>7, <1>8, <3>1
  <2>2. i + 1 \in 0 .. Text - 1
    BY <1>1, <1>3, <2>1
  <2>3. i' = i + 1 /\ pc' = "loop"
    BY <1>7, <1>8 DEF Strcat, Again, Src, Runs
  <2> QED BY <1>1, <1>2, <1>6, <2>2, <2>3 DEF StrcatInv, Apart
<1>9. CASE mem[Src + i + 1] = 0
  <2>1. i + 1 = Text
    <3>1. i + 1 \notin 0 .. Text - 1
      <4>1. Src + (i + 1) = Src + i + 1
        BY <1>1
      <4> QED BY <1>3, <1>7, <1>9, <4>1
    <3> QED BY <1>1, <1>3, <3>1
  <2>2. i' = i /\ pc' = "done"
    BY <1>7, <1>9 DEF Strcat, Return, Src
  <2> QED BY <1>1, <1>2, <1>6, <2>1, <2>2 DEF StrcatInv, Apart
<1> QED BY <1>8, <1>9

\* strncat keeps Room characters of dst.
LEMMA RoomIs ==
  ASSUME Size \in Nat, Typed, IsString(old, Dst)
  PROVE  Room \in 0 .. Num /\ Dst + Room < Size /\ \A j \in 0 .. Room - 1 : old[Dst + j] # 0
<1>1. Dst \in Nat /\ Num \in Nat
  BY DEF Typed
<1>2. /\ strlen(old, Dst) \in Nat /\ Dst + strlen(old, Dst) < Size
      /\ \A j \in 0 .. strlen(old, Dst) - 1 : old[Dst + j] # 0
  BY <1>1, StringText
<1>3. Room = Smaller(strlen(old, Dst), Num)
  BY DEF Room, Dst, Num
<1>4. Room \in 0 .. Num /\ Room <= strlen(old, Dst)
  BY <1>1, <1>2, <1>3 DEF Smaller
<1> QED BY <1>1, <1>2, <1>4

\* What lies before Room, and behind the end of dst, stays.
LEMMA StrncatStep ==
  ASSUME Size \in Nat, Typed, StrncatInv, Strncat, call' = call, old' = old
  PROVE  StrncatInv'
<1>1. /\ Dst \in Nat /\ Src \in Nat /\ Num \in Nat /\ i \in 0 .. Num - Room /\ pc = "loop"
      /\ mem \in [Addr -> Chars] /\ IsString(old, Dst)
      /\ Behind + Num + 1 <= Size /\ Src + Num <= Size
      /\ \A a \in Addr : a < Dst + Room \/ a > Dst + Num => mem[a] = old[a]
  BY DEF Typed, StrncatInv, Strncat, Runs
<1>2. /\ Dst' = Dst /\ Src' = Src /\ Num' = Num /\ Behind' = Behind /\ Room' = Room
      /\ IsString(old, Dst)'
  BY <1>1 DEF Dst, Src, Num, Behind, Room, IsString
<1>3. Room \in 0 .. Num /\ Room \in Nat /\ i \in Nat
  BY <1>1, RoomIs
<1>4. Dst + Num < Size
  <2>1. Behind \in Nat /\ Behind >= Dst
    BY <1>1, StringText DEF Behind
  <2> QED BY <1>1, <2>1
<1>5. CASE Room + i < Num
  <2>1. Dst + Room + i \in Addr /\ Src + i \in Addr /\ ~(Dst + Room + i < Dst + Room)
        /\ ~(Dst + Room + i > Dst + Num)
    BY <1>1, <1>3, <1>4, <1>5 DEF Addr
  <2>2. mem' = [mem EXCEPT ![Dst + Room + i] = mem[Src + i]] /\ i' = i + 1 /\ pc' = "loop"
    BY <1>1, <1>5 DEF Strncat, Put, Again, Dst, Src, Num
  <2>3. mem[Src + i] \in Chars
    BY <1>1, <2>1
  <2>4. mem' \in [Addr -> Chars]
    BY <1>1, <2>2, <2>3
  <2>5. \A a \in Addr : a < Dst + Room \/ a > Dst + Num => mem'[a] = old[a]
    BY <1>1, <2>1, <2>2
  <2>6. i' \in 0 .. Num - Room
    BY <1>1, <1>3, <1>5, <2>2
  <2> QED BY <1>1, <1>2, <2>2, <2>4, <2>5, <2>6 DEF StrncatInv
<1>6. CASE ~(Room + i < Num)
  <2>1. Dst + Room \in Addr /\ ~(Dst + Room < Dst + Room) /\ ~(Dst + Room > Dst + Num)
    BY <1>1, <1>3, <1>4 DEF Addr
  <2>2. mem' = [mem EXCEPT ![Dst + Room] = 0] /\ i' = i /\ pc' = "done"
    BY <1>6 DEF Strncat, Put, Return, Dst, Num
  <2>3. mem' \in [Addr -> Chars] /\ mem'[Dst + Room] = 0
    BY <1>1, <2>1, <2>2, StringAssumption
  <2>4. \A a \in Addr : a < Dst + Room \/ a > Dst + Num => mem'[a] = old[a]
    BY <1>1, <2>1, <2>2
  <2> QED BY <1>1, <1>2, <2>2, <2>3, <2>4 DEF StrncatInv
<1> QED BY <1>5, <1>6

\* One more byte is handed over.
LEMMA EmitOne ==
  ASSUME i \in Nat, Written(i), mem = old, mem[Src + i] \in Chars, call' = call, old' = old,
         Emit(mem[call.src + i]), i' = i + 1
  PROVE  Written(i)' /\ mem' = old'
<1>1. /\ out \in Seq(Chars) /\ Len(out) = i /\ \A j \in 1 .. i : out[j] = old[Src + j - 1]
      /\ out' = Append(out, old[Src + i]) /\ mem' = old' /\ Src' = Src /\ old[Src + i] \in Chars
  BY DEF Written, Emit, Src
<1>2. out' \in Seq(Chars) /\ Len(out') = i + 1
  BY <1>1
<1>3. ASSUME NEW j \in 1 .. i + 1 PROVE out'[j] = old[Src + j - 1]
  <2>1. CASE j = i + 1
    <3>1. out'[j] = old[Src + i]
      BY <1>1, <2>1
    <3>2. Src + j - 1 = Src + i
      BY <2>1
    <3> QED BY <3>1, <3>2
  <2>2. CASE j # i + 1
    <3>1. j \in 1 .. i /\ j \in 1 .. Len(out)
      BY <1>1, <2>2
    <3>2. out'[j] = out[j]
      BY <1>1, <3>1
    <3> QED BY <1>1, <3>1, <3>2
  <2> QED BY <2>1, <2>2
<1> QED BY <1>1, <1>2, <1>3 DEF Written

\* write hands over n bytes.
LEMMA WriteStep ==
  ASSUME Size \in Nat, Typed, WriteInv, Write, call' = call, old' = old
  PROVE  WriteInv'
<1>1. /\ Src \in Nat /\ Num \in Nat /\ Src + Num <= Size /\ i \in 0 .. Num /\ i \in Nat
      /\ mem = old /\ Written(i) /\ old \in [Addr -> Chars] /\ pc = "loop"
  BY DEF Typed, WriteInv, Write, Runs
<1>2. Src' = Src /\ Num' = Num
  BY DEF Src, Num
<1>3. CASE i < Num
  <2>1. Emit(mem[call.src + i]) /\ i' = i + 1 /\ pc' = "loop"
    BY <1>1, <1>3 DEF Write, Again, Num
  <2>2. mem[Src + i] \in Chars
    <3>1. Src + i \in Addr
      BY <1>1, <1>3 DEF Addr
    <3> QED BY <1>1, <3>1
  <2>3. Written(i)' /\ mem' = old'
    BY <1>1, <2>1, <2>2, EmitOne
  <2>4. i' \in 0 .. Num
    BY <1>1, <1>3, <2>1
  <2> QED BY <1>1, <1>2, <2>1, <2>3, <2>4 DEF WriteInv
<1>4. CASE ~(i < Num)
  <2>1. i' = i /\ pc' = "done" /\ mem' = mem /\ out' = out /\ i = Num
    BY <1>1, <1>4 DEF Write, Quiet, Return, Num
  <2> QED BY <1>1, <1>2, <2>1 DEF WriteInv, Written
<1> QED BY <1>3, <1>4

\* print hands over the text.
LEMMA PrintStep ==
  ASSUME Size \in Nat, Typed, PrintInv, PrintText, call' = call, old' = old
  PROVE  PrintInv'
<1>1. /\ Src \in Nat /\ IsString(old, Src) /\ i \in 0 .. Text /\ i \in Nat
      /\ mem = old /\ Written(i) /\ old \in [Addr -> Chars] /\ pc = "loop"
  BY DEF Typed, PrintInv, PrintText, Runs
<1>2. Src' = Src /\ Text' = Text /\ IsString(old, Src)'
  BY <1>1 DEF Src, Text, IsString
<1>3. /\ Text \in Nat /\ Src + Text < Size /\ old[Src + Text] = 0
      /\ \A j \in 0 .. Text - 1 : old[Src + j] # 0
  BY <1>1, StringText DEF Text
<1>4. CASE mem[call.src + i] # 0
  <2>1. Emit(mem[call.src + i]) /\ i' = i + 1 /\ pc' = "loop"
    BY <1>1, <1>4 DEF PrintText, Again
  <2>2. mem[Src + i] \in Chars
    <3>1. Src + i \in Addr
      BY <1>1, <1>3 DEF Addr
    <3> QED BY <1>1, <3>1
  <2>3. Written(i)' /\ mem' = old'
    BY <1>1, <2>1, <2>2, EmitOne
  <2>4. i < Text
    BY <1>1, <1>3, <1>4 DEF Src
  <2>5. i' \in 0 .. Text
    BY <1>1, <1>3, <2>1, <2>4
  <2> QED BY <1>1, <1>2, <2>1, <2>3, <2>5 DEF PrintInv
<1>5. CASE ~(mem[call.src + i] # 0)
  <2>1. i = Text
    <3>1. i \notin 0 .. Text - 1
      BY <1>1, <1>3, <1>5 DEF Src
    <3> QED BY <1>1, <1>3, <3>1
  <2>2. i' = i /\ pc' = "done" /\ mem' = mem /\ out' = out
    BY <1>5 DEF PrintText, Quiet, Return
  <2> QED BY <1>1, <1>2, <2>1, <2>2 DEF PrintInv, Written
<1> QED BY <1>4, <1>5

\* What C asks of the caller makes each invariant true at the time of the call.
LEMMA WriteTextInit == Init => WriteTextInv
<1> SUFFICES ASSUME Init PROVE WriteTextInv
  OBVIOUS
<1>1. Size \in Nat
  BY StringAssumption
<1>2. /\ mem \in [Addr -> Chars] /\ old = mem /\ out = <<>> /\ Valid(call, old)
      /\ call.fn # "search" => pc = "loop"
      /\ pc \in {"loop", "done"}
      /\ call.fn # "memmove" => i = 0
  BY DEF Init, Descends
<1>3. Dst \in 0 .. Size /\ Src \in 0 .. Size /\ Num \in 0 .. Size
  <2>1. CASE call \in Copies
    BY <2>1 DEF Copies, Call, Place, Dst, Src, Num
  <2>2. CASE call \in Others
    BY <1>1, <2>2 DEF Others, Call, Place, Addr, Dst, Src, Num
  <2> QED BY <2>1, <2>2 DEF Init
<1>4. Dst \in Nat /\ Src \in Nat /\ Num \in Nat
  BY <1>1, <1>3
<1>5. \A d \in Nat, s \in Nat : Copied(d, s, 0) = old
  <2> SUFFICES ASSUME NEW d \in Nat, NEW s \in Nat PROVE Copied(d, s, 0) = old
    OBVIOUS
  <2>1. \A a \in Addr : a \notin d .. d + 0 - 1
    OBVIOUS
  <2> QED BY <1>2, <2>1 DEF Copied
<1>6. Typed
  BY <1>2, <1>3 DEF Typed
<1>7. ASSUME call.fn = "memset" PROVE MemsetInv
  <2>1. Dst + Num <= Size
    BY <1>2, <1>7 DEF Valid, Dst, Num
  <2>2. mem = [a \in Addr |-> IF a \in Dst .. Dst + 0 - 1 THEN call.c ELSE old[a]]
    BY <1>2, <1>4
  <2> QED BY <1>2, <1>4, <1>7, <2>1, <2>2 DEF MemsetInv
<1>8. ASSUME call.fn = "memccpy" PROVE MemccpyInv
  <2>1. Dst + Num <= Size /\ Src + Num <= Size /\ Apart(Dst, Num, Src, Num)
    BY <1>2, <1>8 DEF Valid, Dst, Src, Num
  <2> QED BY <1>2, <1>4, <1>5, <1>8, <2>1 DEF MemccpyInv
<1>9. ASSUME call.fn = "strcpy" PROVE StrcpyInv
  <2>1. IsString(old, Src) /\ Dst + (Text + 1) <= Size /\ Apart(Dst, Text + 1, Src, Text + 1)
    BY <1>2, <1>9 DEF Valid, Dst, Src, Text
  <2>2. Text \in Nat
    BY <1>1, <1>4, <2>1, StringText DEF Text
  <2> QED BY <1>2, <1>4, <1>5, <1>9, <2>1, <2>2 DEF StrcpyInv
<1>10. ASSUME call.fn = "strncpy" PROVE StrncpyInv
  <2>1. /\ Dst + Num <= Size /\ Src + Smaller(TextCut + 1, Num) <= Size
        /\ Apart(Dst, Num, Src, Smaller(TextCut + 1, Num))
    BY <1>2, <1>10 DEF Valid, Dst, Src, Num, TextCut
  <2>2. TextCut \in 0 .. Num
    BY <1>4, TextCutIs
  <2> QED BY <1>2, <1>4, <1>5, <1>10, <2>1, <2>2 DEF StrncpyInv
<1>11. ASSUME call.fn = "strcat" PROVE StrcatInv
  <2> DEFINE d == strlen(old, Dst)
  <2>1. /\ IsString(old, Src) /\ IsString(old, Dst)
        /\ Dst + (d + Text + 1) <= Size
        /\ Apart(Dst, d + Text + 1, Src, Text + 1)
    BY <1>2, <1>11 DEF Valid, Dst, Src, Text
  <2>2. Text \in Nat /\ d \in Nat /\ Behind = Dst + d
    BY <1>1, <1>4, <2>1, StringText DEF Text, Behind
  <2>3. /\ Behind \in Nat /\ Behind + Text + 1 <= Size /\ Behind - Dst = d
        /\ Text > 0 => 0 \in 0 .. Text - 1
    BY <1>4, <2>1, <2>2
  <2> HIDE DEF d
  <2> QED BY <1>2, <1>4, <1>5, <1>11, <2>1, <2>3 DEF StrcatInv
<1>12. ASSUME call.fn = "strncat" PROVE StrncatInv
  <2> DEFINE d == strlen(old, Dst)
  <2>1. IsString(old, Dst) /\ Src + Num <= Size /\ Dst + (d + Num + 1) <= Size
    BY <1>2, <1>12 DEF Valid, Dst, Src, Num
  <2>2. d \in Nat /\ Behind = Dst + d
    BY <1>1, <1>4, <2>1, StringText DEF Behind
  <2>3. Behind + Num + 1 <= Size
    BY <1>4, <2>1, <2>2
  <2>4. 0 \in 0 .. Num - Room
    BY <1>1, <1>4, <1>6, <2>1, RoomIs
  <2> QED BY <1>2, <1>12, <2>1, <2>3, <2>4 DEF StrncatInv
<1>13. Written(0)
  BY <1>2 DEF Written
<1>14. ASSUME call.fn = "write" PROVE WriteInv
  <2>1. Src + Num <= Size
    BY <1>2, <1>14 DEF Valid, Src, Num
  <2> QED BY <1>2, <1>4, <1>13, <1>14, <2>1 DEF WriteInv
<1>15. ASSUME call.fn = "print" PROVE PrintInv
  <2>1. IsString(old, Src)
    BY <1>2, <1>15 DEF Valid, Src
  <2>2. Text \in Nat
    BY <1>1, <1>4, <2>1, StringText DEF Text
  <2> QED BY <1>2, <1>4, <1>13, <1>15, <2>1, <2>2 DEF PrintInv
<1> QED BY <1>6, <1>7, <1>8, <1>9, <1>10, <1>11, <1>12, <1>14, <1>15 DEF WriteTextInv

\* Every step keeps the invariants.
LEMMA WriteTextNext == WriteTextInv /\ [Next]_vars => WriteTextInv'
<1> SUFFICES ASSUME WriteTextInv, [Next]_vars PROVE WriteTextInv'
  OBVIOUS
<1>1. Size \in Nat /\ Typed
  BY StringAssumption DEF WriteTextInv
<1>2. call' = call /\ old' = old
  BY StepOfCall
<1>3. Dst' = Dst /\ Src' = Src /\ Num' = Num
  BY <1>2 DEF Dst, Src, Num
<1>4. pc' \in {"loop", "fill", "done"}
  <2>1. CASE UNCHANGED vars
    BY <1>1, <2>1 DEF vars, Typed
  <2>2. CASE Next
    BY <1>1, <2>2 DEF Next, MemcpyFwd, MemcpyRev, Memset, Memccpy, Strcpy, Strncpy, Strcat,
                      Strncat, Write, PrintText, Again, Return, Typed
  <2> QED BY <2>1, <2>2
<1>5. Typed'
  BY <1>1, <1>2, <1>3, <1>4 DEF Typed
<1>6. CASE UNCHANGED vars
  BY <1>6 DEF vars, WriteTextInv, Typed, MemsetInv, MemccpyInv, StrcpyInv, StrncpyInv, StrcatInv,
              StrncatInv, WriteInv, PrintInv, Written, Filled, Copied, IsString, Apart, Smaller, Room,
              Dst, Src, Num, Text, TextCut, Behind
<1>7. CASE ~UNCHANGED vars
  <2>1. /\ call.fn = "memset" => MemsetInv'
        /\ call.fn = "memccpy" => MemccpyInv'
        /\ call.fn = "strcpy" => StrcpyInv'
        /\ call.fn = "strncpy" => StrncpyInv'
    BY <1>1, <1>2, <1>7, StepOfCall, MemsetStep, MemccpyStep, StrcpyStep, StrncpyStep DEF WriteTextInv
  <2>2. /\ call.fn = "strcat" => StrcatInv'
        /\ call.fn = "strncat" => StrncatInv'
        /\ call.fn = "write" => WriteInv'
        /\ call.fn = "print" => PrintInv'
    BY <1>1, <1>2, <1>7, StepOfCall, StrcatStep, StrncatStep, WriteStep, PrintStep DEF WriteTextInv
  <2> QED BY <1>2, <1>5, <2>1, <2>2 DEF WriteTextInv
<1> QED BY <1>6, <1>7

\* At the end of each loop its function has done what C asks for.
LEMMA WriteTextImplies == WriteTextInv => WritesText
<1> SUFFICES ASSUME WriteTextInv, pc = "done" PROVE WritesText
  BY DEF WritesText, Returned
<1>1. Size \in Nat /\ Typed /\ Dst \in Nat /\ Src \in Nat /\ Num \in Nat
  BY StringAssumption DEF WriteTextInv, Typed
<1>2. ASSUME call.fn = "memset"
      PROVE  mem = [a \in Addr |-> IF a \in Dst .. Dst + Num - 1 THEN call.c ELSE old[a]]
  BY <1>2 DEF WriteTextInv, MemsetInv
<1>3. ASSUME call.fn = "memccpy"
      PROVE  LET at == memchr(old, Src, call.c, Num)
                 k == IF at = NULL THEN Num ELSE at - Src + 1
             IN mem = Copied(Dst, Src, k) /\ (at # NULL => ret = Dst + k)
  <2>1. /\ i \in 0 .. Num /\ \A j \in 0 .. i - 1 : old[Src + j] # call.c
        /\ \/ i = Num /\ mem = Copied(Dst, Src, Num) /\ ret = Dst + Num
           \/ i < Num /\ old[Src + i] = call.c /\ mem = Copied(Dst, Src, i + 1) /\ ret = Dst + i + 1
    BY <1>3 DEF WriteTextInv, MemccpyInv
  <2> DEFINE Z == {p \in Src .. Src + Num : old[p] = call.c}
  <2>2. PICK x \in Src .. Src + Num :
          /\ Stops(Src, Src + Num, Z, x)
          /\ memchr(old, Src, call.c, Num) = IF x = Src + Num THEN NULL ELSE x
    <3>1. Src \in Int /\ Num \in Nat
      BY <1>1
    <3> QED BY <3>1, MemchrStops
  <2>3. \A y \in Src .. Src + i - 1 : y \notin Z
    <3> SUFFICES ASSUME NEW y \in Src .. Src + i - 1, old[y] = call.c PROVE FALSE
      OBVIOUS
    <3>1. y - Src \in 0 .. i - 1 /\ Src + (y - Src) = y
      BY <1>1, <2>1
    <3> QED BY <2>1, <3>1
  <2>4. Src + i \in Src .. Src + Num /\ (i = Num \/ Src + i \in Z)
    BY <1>1, <2>1
  <2>5. x = Src + i
    <3>1. Stops(Src, Src + Num, Z, Src + i)
      BY <1>1, <2>1, <2>3, <2>4 DEF Stops
    <3>2. Src \in Int /\ Src + Num \in Int
      BY <1>1
    <3> HIDE DEF Z
    <3> QED BY <2>2, <3>1, <3>2, StopUnique
  <2>6. x # NULL /\ (x = Src + Num <=> i = Num) /\ x - Src + 1 = i + 1
    BY <1>1, <2>1, <2>5 DEF NULL
  <2>7. CASE i = Num
    <3>1. memchr(old, Src, call.c, Num) = NULL
      BY <2>2, <2>6, <2>7
    <3> QED BY <2>1, <2>7, <3>1
  <2>8. CASE i # Num
    <3>1. memchr(old, Src, call.c, Num) = x
      BY <2>2, <2>6, <2>8
    <3>2. ret = Dst + (i + 1)
      BY <1>1, <2>1, <2>8
    <3> QED BY <2>1, <2>6, <2>8, <3>1, <3>2
  <2> QED BY <2>7, <2>8
<1>4. ASSUME call.fn = "strcpy" PROVE mem = Copied(Dst, Src, strlen(old, Src) + 1)
  BY <1>4 DEF WriteTextInv, StrcpyInv, Text
<1>5. ASSUME call.fn = "strncpy" PROVE mem = Filled(Num)
  BY <1>5 DEF WriteTextInv, StrncpyInv
<1>6. ASSUME call.fn = "strcat", Text > 0
      PROVE  \A a \in Addr \ {Behind + Text} : mem[a] = Copied(Behind, Src, Text + 1)[a]
  <2>1. IsString(old, Src) /\ IsString(old, Dst) /\ mem = Copied(Behind, Src, Text)
    BY <1>6 DEF WriteTextInv, StrcatInv
  <2>2. Text \in Nat /\ Behind \in Nat
    BY <1>1, <2>1, StringText DEF Text, Behind
  <2>3. \A a \in Addr \ {Behind + Text} :
          a \in Behind .. Behind + Text - 1 <=> a \in Behind .. Behind + (Text + 1) - 1
    BY <1>1, <2>2 DEF Addr
  <2> QED BY <2>1, <2>3 DEF Copied
<1>7. ASSUME call.fn = "strncat"
      PROVE  \A a \in Addr : a < Dst \/ a > Behind + Num => mem[a] = old[a]
  <2>1. /\ IsString(old, Dst) /\ mem[Dst + Room] = 0
        /\ \A a \in Addr : a < Dst + Room \/ a > Dst + Num => mem[a] = old[a]
    BY <1>7 DEF WriteTextInv, StrncatInv
  <2>2. Room \in 0 .. Num /\ Dst + Room < Size /\ \A j \in 0 .. Room - 1 : old[Dst + j] # 0
    BY <1>1, <2>1, RoomIs
  <2>3. Behind \in Nat /\ Behind >= Dst
    BY <1>1, <2>1, StringText DEF Behind
  <2>4. \A a \in Addr : a < Dst \/ a > Behind + Num => a < Dst + Room \/ a > Dst + Num
    BY <1>1, <2>2, <2>3 DEF Addr
  <2> QED BY <2>1, <2>4
<1>8. ASSUME NEW k \in Nat, Written(k) PROVE out = [j \in 1 .. k |-> old[Src + j - 1]]
  <2>1. out \in Seq(Chars) /\ Len(out) = k /\ \A j \in 1 .. k : out[j] = old[Src + j - 1]
    BY <1>8 DEF Written
  <2>2. out = [j \in 1 .. Len(out) |-> out[j]]
    BY <2>1
  <2> QED BY <2>1, <2>2
<1>9. ASSUME call.fn = "write" PROVE out = [j \in 1 .. Num |-> old[Src + j - 1]]
  <2>1. Written(Num)
    BY <1>9 DEF WriteTextInv, WriteInv, Written
  <2> QED BY <1>1, <1>8, <2>1
<1>10. ASSUME call.fn = "print" PROVE out = [j \in 1 .. Text |-> old[Src + j - 1]]
  <2>1. IsString(old, Src) /\ Written(Text)
    BY <1>10 DEF WriteTextInv, PrintInv, Written
  <2>2. Text \in Nat
    BY <1>1, <2>1, StringText DEF Text
  <2> QED BY <1>8, <2>1, <2>2
<1>11. /\ Returned({"memset"}) =>
            mem = [a \in Addr |-> IF a \in Dst .. Dst + Num - 1 THEN call.c ELSE old[a]]
       /\ Returned({"memccpy"}) =>
            LET at == memchr(old, Src, call.c, Num)
                k == IF at = NULL THEN Num ELSE at - Src + 1
            IN mem = Copied(Dst, Src, k) /\ (at # NULL => ret = Dst + k)
       /\ Returned({"strcpy"}) => mem = Copied(Dst, Src, strlen(old, Src) + 1)
  BY <1>2, <1>3, <1>4 DEF Returned
<1>12. /\ Returned({"strncpy"}) => mem = Filled(Num)
       /\ Returned({"strcat"}) /\ Text > 0 =>
            \A a \in Addr \ {Behind + Text} : mem[a] = Copied(Behind, Src, Text + 1)[a]
  BY <1>5, <1>6 DEF Returned
<1>13. Returned({"strncat"}) =>
         \A a \in Addr : a < Dst \/ a > Behind + Num => mem[a] = old[a]
  BY <1>7 DEF Returned
<1>14. Returned({"write", "print"}) =>
         out = [j \in 1 .. IF call.fn = "print" THEN Text ELSE Num |-> old[Src + j - 1]]
  BY <1>9, <1>10 DEF Returned
<1> QED BY <1>11, <1>12, <1>13, <1>14
        DEF WritesText, Concatenated, CatEnd, Filled, TextCut, Behind, Text, Dst, Src, Num

\* In memory of every size, and for all arguments C allows: memset, memccpy, strcpy
\* and strncpy leave in memory what their comments and C say and nothing else,
\* strcat puts a text that is not empty behind dst and touches nothing else but
\* the place of its end, strncat touches nothing but what C gives it, and write
\* and print hand the UART each byte once and in order.
THEOREM WritesTextCorrect == Spec => []WritesText
<1>1. Init => WriteTextInv
  BY WriteTextInit
<1>2. WriteTextInv /\ [Next]_vars => WriteTextInv'
  BY WriteTextNext
<1>3. WriteTextInv => WritesText
  BY WriteTextImplies
<1> QED BY <1>1, <1>2, <1>3, PTL DEF Spec
=============================================================================

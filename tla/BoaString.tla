------------------------------ MODULE BoaString ------------------------------
(***************************************************************************)
(* The functions of prog/common/src/string.c that write memory, and those  *)
(* of print.c that write to the UART.  One step is one iteration of a      *)
(* loop.  A call satisfies what C asks of the caller: its objects lie in   *)
(* memory, strings have an end, and objects only overlap for memmove.      *)
(***************************************************************************)
EXTENDS BoaSearch, Sequences

CONSTANT Chars  \* The characters in memory.

ASSUME StringAssumption ==
  Size \in Nat /\ Chars \subseteq 0 .. 255 /\ 0 \in Chars

VARIABLES
  call,  \* The function called, and its arguments.
  mem,   \* Memory.
  out,   \* What was written to UART0.fifo.
  i,     \* The loop's counter.
  pc,    \* "loop", "fill" in the second loop of strncpy, or "done".
  ret,   \* The value returned.
  old    \* Memory at the time of the call.

vars == <<call, mem, out, i, pc, ret, old>>

----------------------------------------------------------------------------
(* Calls.                                                                  *)

Call(fn, dst, src, n, c) == [fn |-> fn, dst |-> dst, src |-> src, n |-> n, c |-> c]
Place == 0 .. Size
Apart(a, k, b, l) == a + k <= b \/ b + l <= a

\* Without the arguments a function does not have.
Copies ==
  {Call(fn, d, s, n, 0) : fn \in {"memcpy", "memmove", "strncpy", "strncat"},
                          d \in Place, s \in Place, n \in Place}
    \cup {Call("memccpy", d, s, n, c) : d \in Place, s \in Place, n \in Place, c \in Chars}
Others ==
  {Call(fn, d, s, 0, 0) : fn \in {"strcpy", "strcat"}, d \in Addr, s \in Addr}
    \cup {Call("memset", d, 0, n, c) : d \in Place, n \in Place, c \in Chars}
    \cup {Call("write", 0, s, n, 0) : s \in Place, n \in Place}
    \cup {Call("print", 0, s, 0, 0) : s \in Addr}
    \cup {Call("search", 0, 0, 0, 0)}

Smaller(a, b) == IF a < b THEN a ELSE b

\* What C asks of the caller; of strncat also that src is n bytes long, because
\* so many are copied whatever its length.
Valid(q, m) ==
  LET d == q.dst s == q.src n == q.n
      fits(a, k) == a + k <= Size
      copies(k, l) == fits(d, k) /\ fits(s, l) /\ Apart(d, k, s, l)
  IN CASE q.fn = "memmove" -> fits(d, n) /\ fits(s, n)
       [] q.fn \in {"memcpy", "memccpy"} -> copies(n, n)
       [] q.fn = "memset" -> fits(d, n)
       [] q.fn = "write" -> fits(s, n)
       [] q.fn = "print" -> IsString(m, s)
       [] q.fn = "strcpy" -> IsString(m, s) /\ copies(strlen(m, s) + 1, strlen(m, s) + 1)
       [] q.fn = "strncpy" -> (IsString(m, s) \/ fits(s, n)) /\ copies(n, Smaller(strnlen(m, s, n) + 1, n))
       [] q.fn = "strcat" ->
            /\ IsString(m, s) /\ IsString(m, d)
            /\ copies(strlen(m, d) + strlen(m, s) + 1, strlen(m, s) + 1)
       [] q.fn = "strncat" ->
            /\ d < Size /\ IsString(m, d) /\ fits(s, n)
            /\ copies(strlen(m, d) + n + 1, n)
       [] q.fn = "search" -> TRUE

\* Fault for the checks: memory is always copied from its first byte on.
DescendsNever(q) == FALSE
\* memmove: dst lies above src.
Descends(q) == q.fn = "memmove" /\ q.dst > q.src

Init ==
  /\ mem \in [Addr -> Chars] /\ old = mem
  /\ \/ call \in Copies
     \/ call \in Others
  /\ Valid(call, mem)
  /\ out = <<>> /\ ret = NULL
  /\ i = (IF Descends(call) THEN call.n - 1 ELSE 0)
  /\ pc = IF call.fn = "search" THEN "done" ELSE "loop"

----------------------------------------------------------------------------
(* Loops.                                                                  *)

Runs(fn) == pc = "loop" /\ call.fn = fn
Put(a, b) == mem' = [mem EXCEPT ![a] = b] /\ UNCHANGED out
Emit(b) == out' = Append(out, b) /\ UNCHANGED mem
Quiet == UNCHANGED <<mem, out>>
\* Fault for the checks: the counter stays.
AgainStays(k) == UNCHANGED <<i, pc, ret, call, old>>
Again(k) == i' = k /\ UNCHANGED <<pc, ret, call, old>>
Return(value) == ret' = value /\ pc' = "done" /\ UNCHANGED <<i, call, old>>

\* memcpy, and memmove downwards: __memcpy_fwd.
MemcpyFwd ==
  /\ pc = "loop" /\ call.fn \in {"memcpy", "memmove"} /\ ~Descends(call)
  /\ IF i < call.n THEN Put(call.dst + i, mem[call.src + i]) /\ Again(i + 1)
     ELSE Quiet /\ Return(call.dst)

\* memmove upwards: __memcpy_rev.
MemcpyRev ==
  /\ pc = "loop" /\ Descends(call)
  /\ IF i >= 0 THEN Put(call.dst + i, mem[call.src + i]) /\ Again(i - 1)
     ELSE Quiet /\ Return(call.dst)

Memset ==
  /\ Runs("memset")
  /\ IF i < call.n THEN Put(call.dst + i, call.c) /\ Again(i + 1)
     ELSE Quiet /\ Return(call.dst)

\* Without an occurrence of c it returns the end of dst, and not NULL.
Memccpy ==
  /\ Runs("memccpy")
  /\ IF i < call.n
     THEN /\ Put(call.dst + i, mem[call.src + i])
          /\ IF mem[call.src + i] = call.c THEN Return(call.dst + i + 1) ELSE Again(i + 1)
     ELSE Quiet /\ Return(call.dst + call.n)

\* Fault for the checks: the end of the string is not copied.
EndPutNever(a) == Quiet
EndPut(a) == Put(a, 0)

Strcpy ==
  /\ Runs("strcpy")
  /\ IF mem[call.src + i] # 0 THEN Put(call.dst + i, mem[call.src + i]) /\ Again(i + 1)
     ELSE EndPut(call.dst + i) /\ Return(call.dst)

Strncpy ==
  /\ call.fn = "strncpy"
  /\ \/ /\ pc = "loop"
        /\ IF i < call.n /\ mem[call.src + i] # 0
           THEN Put(call.dst + i, mem[call.src + i]) /\ Again(i + 1)
           ELSE pc' = "fill" /\ Quiet /\ UNCHANGED <<i, ret, call, old>>
     \/ /\ pc = "fill"
        /\ IF i < call.n THEN Put(call.dst + i, 0) /\ Again(i + 1)
           ELSE Quiet /\ Return(call.dst)

\* The first loop has found the end of dst; nothing is put behind the text.  The
\* end of src is looked for behind its first character: the loop runs past an
\* empty src, and out of memory at the latest.
Strcat ==
  /\ Runs("strcat")
  /\ Put(call.dst + strlen(old, call.dst) + i, mem[call.src + i])
  /\ IF call.src + i + 1 \in Addr /\ mem[call.src + i + 1] # 0 THEN Again(i + 1)
     ELSE Return(call.dst)

\* len of strncat.
Room == Smaller(strlen(old, call.dst), call.n)

\* The end is put at the place where src was copied to.
Strncat ==
  /\ Runs("strncat")
  /\ IF Room + i < call.n
     THEN Put(call.dst + Room + i, mem[call.src + i]) /\ Again(i + 1)
     ELSE Put(call.dst + Room, 0) /\ Return(call.dst)

\* print.c.
Write ==
  /\ Runs("write")
  /\ IF i < call.n THEN Emit(mem[call.src + i]) /\ Again(i + 1) ELSE Quiet /\ Return(NULL)

PrintText ==
  /\ Runs("print")
  /\ IF mem[call.src + i] # 0 THEN Emit(mem[call.src + i]) /\ Again(i + 1)
     ELSE Quiet /\ Return(NULL)

Next ==
  \/ MemcpyFwd \/ MemcpyRev \/ Memset \/ Memccpy \/ Strcpy \/ Strncpy \/ Strcat \/ Strncat
  \/ Write \/ PrintText
Spec == Init /\ [][Next]_vars
\* The processor runs on.
FairSpec == Spec /\ WF_vars(Next)

----------------------------------------------------------------------------
(* Properties.                                                             *)

Returned(fns) == pc = "done" /\ call.fn \in fns

\* Memory after k bytes were copied from s to d, and nothing else was touched.
Copied(d, s, k) ==
  [a \in Addr |-> IF a \in d .. d + k - 1 THEN old[a - d + s] ELSE old[a]]

\* memcpy and memmove copy what was in src before, however the two overlap
\* ("Gaurantees correct copying behaviour for overlapping").
MovesWhole ==
  Returned({"memcpy", "memmove"}) =>
    mem = Copied(call.dst, call.src, call.n) /\ ret = call.dst

\* Where in memory the two texts of strcat end together.
CatEnd == call.dst + strlen(old, call.dst) + strlen(old, call.src)
\* Memory after strcat, from its comment and C: src, with its end, behind dst.
Concatenated == Copied(call.dst + strlen(old, call.dst), call.src, strlen(old, call.src) + 1)
\* Memory after strncat, likewise: k characters of src, and an end unless
\* these are all that may be copied ("dst will have no NULL terminator").
ConcatenatedBounded ==
  LET k == strnlen(old, call.src, call.n)
  IN Copied(call.dst + strlen(old, call.dst), call.src, Smaller(k + 1, call.n))

\* memset, memccpy, strcpy and strncpy leave in memory what their comments and C
\* ask for, and nothing else; memccpy returns the place behind c.  strcat puts a
\* text that is not empty behind that of dst, and changes nothing else but the
\* byte its end belongs to; strncat touches nothing but what C gives it.  write
\* and print hand each character to the UART once and in order.
WritesText ==
  LET dst == call.dst src == call.src n == call.n IN
  /\ Returned({"memset"}) =>
       mem = [a \in Addr |-> IF a \in dst .. dst + n - 1 THEN call.c ELSE old[a]]
  /\ Returned({"memccpy"}) =>
       LET at == memchr(old, src, call.c, n)
           k == IF at = NULL THEN n ELSE at - src + 1
       IN mem = Copied(dst, src, k) /\ (at # NULL => ret = dst + k)
  /\ Returned({"strcpy"}) => mem = Copied(dst, src, strlen(old, src) + 1)
  /\ Returned({"strncpy"}) =>
       LET k == strnlen(old, src, n)
       IN mem = [a \in Addr |-> IF a \in dst + k .. dst + n - 1 THEN 0
                                ELSE Copied(dst, src, k)[a]]
  /\ Returned({"strcat"}) /\ strlen(old, src) > 0 =>
       \A a \in Addr \ {CatEnd} : mem[a] = Concatenated[a]
  /\ Returned({"strncat"}) =>
       \A a \in Addr : a < dst \/ a > dst + strlen(old, dst) + n => mem[a] = old[a]
  /\ Returned({"write", "print"}) =>
       out = [k \in 1 .. IF call.fn = "print" THEN strlen(old, src) ELSE n |-> old[src + k - 1]]

\* memccpy tells that it has not found c ("or NULL if `__c` was not found").
MissIsTold ==
  Returned({"memccpy"}) /\ memchr(old, call.src, call.c, call.n) = NULL => ret = NULL

\* strcat joins two strings to one ("Concatenate the c-string `__src` onto the
\* c-string `__dst`").
Joins == Returned({"strcat"}) => mem = Concatenated

\* strncat adds n characters of src, or all there are ("Concatenate at most
\* `__len` bytes of the c-string `__src` onto the c-string `__dst`").
JoinsBounded == Returned({"strncat"}) => mem = ConcatenatedBounded

\* The searches and comparisons find what their comments and C say, for every
\* memory and all arguments, but for memrchr where only the first byte is c, and
\* for strchr and strrchr where c is the end of a string.
SearchesRight ==
  call.fn = "search" =>
    /\ ObjectsSearched(mem, Chars) /\ StringsSearched(mem, Chars) /\ SubstringsFound(mem)
    /\ Compared(mem) /\ LettersFolded

\* memrchr finds the last of the bytes that are c ("searching `__len` bytes").
LastIsFound == call.fn = "search" => LastByteFound(mem, Chars)

\* Every call returns.
Returns == <>(pc = "done")
=============================================================================

------------------------------ MODULE BoaSearch ------------------------------
(***************************************************************************)
(* The functions of prog/common/src/string.c that only read memory, loop   *)
(* by loop, and what they are meant to compute.                            *)
(*                                                                         *)
(* Memory m is a function from addresses to characters, which are unsigned *)
(* on this machine.  c is a character as well.                             *)
(***************************************************************************)
EXTENDS Integers, FiniteSets

CONSTANT Size  \* Bytes of memory.

Addr == 0 .. Size - 1
NULL == -1

----------------------------------------------------------------------------
(* Characters.                                                             *)

\* c & 0xdf.
Upper(c) == IF (c \div 32) % 2 = 1 THEN c - 32 ELSE c

\* Fault for the checks: bit 5 is ignored whether the character is a letter or not.
CharCaseEqualAll(a, b) == Upper(a) = Upper(b)
\* __charcaseequal.
CharCaseEqual(a, b) == IF Upper(a) \in 65 .. 90 THEN Upper(a) = Upper(b) ELSE a = b
CharEqual(a, b) == a = b

----------------------------------------------------------------------------
(* Searches.  A loop over a string stops at the end of memory at the       *)
(* latest, which no string reaches.                                        *)

memchr(m, s, c, n) ==
  LET from[p \in s .. s + n] ==
        IF p = s + n THEN NULL ELSE IF m[p] = c THEN p ELSE from[p + 1]
  IN from[s]

\* For n > 0.  The loop ends before the first byte is looked at.
memrchr(m, s, c, n) ==
  LET from[p \in s .. s + n - 1] ==
        IF p = s THEN NULL ELSE IF m[p] = c THEN p ELSE from[p - 1]
  IN from[s + n - 1]

strlen(m, s) ==
  LET from[p \in s .. Size] == IF p = Size \/ m[p] = 0 THEN p ELSE from[p + 1]
  IN from[s] - s

strnlen(m, s, n) ==
  LET from[k \in 0 .. n] == IF k = n \/ m[s + k] = 0 THEN k ELSE from[k + 1]
  IN from[0]

strchr(m, s, c) ==
  LET from[p \in s .. Size] ==
        IF p = Size \/ m[p] = 0 THEN NULL ELSE IF m[p] = c THEN p ELSE from[p + 1]
  IN from[s]

\* found, when ptr is p.
strrchr(m, s, c) ==
  LET found[p \in s .. Size - 1] ==
        IF p = s THEN NULL ELSE IF m[p - 1] = c THEN p - 1 ELSE found[p - 1]
  IN found[s + strlen(m, s)]

\* How many bytes of s, from the first, are (or are not) among those of t.
Span(m, s, t, among) ==
  LET listed(b) == \E x \in 0 .. strlen(m, t) - 1 : m[t + x] = b
      from[k \in 0 .. Size - s] ==
        IF k = Size - s \/ m[s + k] = 0 \/ listed(m[s + k]) # among THEN k ELSE from[k + 1]
  IN from[0]
strspn(m, s, accept) == Span(m, s, accept, TRUE)
strcspn(m, s, reject) == Span(m, s, reject, FALSE)

----------------------------------------------------------------------------
(* Comparisons.                                                            *)

\* The first difference in n bytes, or before the end of both strings.
Compare(m, a, b, n, equal(_, _), ends) ==
  LET from[k \in 0 .. n] ==
        IF k = n THEN 0
        ELSE IF ~equal(m[a + k], m[b + k]) THEN m[a + k] - m[b + k]
        ELSE IF ends /\ m[a + k] = 0 /\ m[b + k] = 0 THEN 0 ELSE from[k + 1]
  IN from[0]

memcmp(m, a, b, n) == Compare(m, a, b, n, CharEqual, FALSE)
memcasecmp(m, a, b, n) == Compare(m, a, b, n, CharCaseEqual, FALSE)
strncmp(m, a, b, n) == Compare(m, a, b, n, CharEqual, TRUE)
strncasecmp(m, a, b, n) == Compare(m, a, b, n, CharCaseEqual, TRUE)
\* Memory ends before the largest number is reached.
strcmp(m, a, b) == strncmp(m, a, b, Size)
strcasecmp(m, a, b) == strncasecmp(m, a, b, Size)

\* strstr and strcasestr.
Find(m, s, sub, compare(_, _, _, _)) ==
  LET from[p \in s .. Size] ==
        IF p = Size \/ m[p] = 0 THEN NULL
        ELSE IF compare(m, p, sub, strlen(m, sub)) = 0 THEN p ELSE from[p + 1]
  IN IF m[sub] = 0 THEN s ELSE from[s]
strstr(m, s, sub) == Find(m, s, sub, strncmp)
strcasestr(m, s, sub) == Find(m, s, sub, strncasecmp)

----------------------------------------------------------------------------
(* What the comments in the code promise, and the C standard defines.      *)

IsString(m, s) == \E p \in s .. Size - 1 : m[p] = 0
Strings(m) == {s \in Addr : IsString(m, s)}
\* Places and lengths of objects in memory.
Objects == {o \in Addr \X (0 .. Size) : o[1] + o[2] <= Size}

Least(S) == IF S = {} THEN NULL ELSE CHOOSE x \in S : \A y \in S : x <= y
Greatest(S) == IF S = {} THEN NULL ELSE CHOOSE x \in S : \A y \in S : x >= y

EndOf(m, s) == Least({p \in s .. Size - 1 : m[p] = 0})

Fold(c) == IF c \in 97 .. 122 THEN c - 32 ELSE c

\* memchr, strnlen: the first occurrence.  memrchr: the last one, unless that is
\* the first byte of all (LastByteFound).
ObjectsSearched(m, Chars) ==
  \A o \in Objects : LET s == o[1] n == o[2] place == s .. s + n - 1 IN
    /\ strnlen(m, s, n) = IF IsString(m, s) /\ EndOf(m, s) < s + n THEN EndOf(m, s) - s ELSE n
    /\ \A c \in Chars :
         /\ memchr(m, s, c, n) = Least({p \in place : m[p] = c})
         /\ LET hits == {p \in place : m[p] = c}
            IN n > 0 /\ hits # {s} => memrchr(m, s, c, n) = Greatest(hits)

\* memrchr: the last occurrence in all of the bytes searched.
LastByteFound(m, Chars) ==
  \A o \in Objects : LET s == o[1] n == o[2] IN
    \A c \in Chars : n > 0 =>
      memrchr(m, s, c, n) = Greatest({p \in s .. s + n - 1 : m[p] = c})

\* strlen, strchr, strrchr, strspn, strcspn.  C lets strchr and strrchr search for
\* the end of the string as well, which these do not find: only other characters
\* are considered.
StringsSearched(m, Chars) ==
  \A s \in Strings(m) : LET text == s .. EndOf(m, s) - 1 IN
    /\ strlen(m, s) = Cardinality(text)
    /\ \A c \in Chars \ {0} :
         /\ strchr(m, s, c) = Least({p \in text : m[p] = c})
         /\ strrchr(m, s, c) = Greatest({p \in text : m[p] = c})
    /\ \A t \in Strings(m) : LET set == {m[p] : p \in t .. EndOf(m, t) - 1} IN
         /\ strspn(m, s, t) = Cardinality({p \in text : \A q \in s .. p : m[q] \in set})
         /\ strcspn(m, s, t) = Cardinality({p \in text : \A q \in s .. p : m[q] \notin set})

\* An occurrence of the string sub in the string s, up to fold.
OccursAt(m, s, sub, p, fold(_)) ==
  LET n == EndOf(m, sub) - sub
  IN p + n <= EndOf(m, s) /\ \A k \in 0 .. n - 1 : fold(m[p + k]) = fold(m[sub + k])

SubstringsFound(m) ==
  LET same(c) == c IN
  \A s, sub \in Strings(m) : LET place == s .. EndOf(m, s) IN
    /\ strstr(m, s, sub) = Least({p \in place : OccursAt(m, s, sub, p, same)})
    /\ strcasestr(m, s, sub) = Least({p \in place : OccursAt(m, s, sub, p, Fold)})

\* The difference of two sequences of bytes at the first place, of the first n,
\* at which they differ up to fold and up to their common end.
DifferenceOf(m, a, b, n, fold(_), ends) ==
  LET ended(k) == ends /\ \E j \in 0 .. k - 1 : m[a + j] = 0 /\ m[b + j] = 0
      differ == {k \in 0 .. n - 1 : a + k < Size /\ b + k < Size /\ ~ended(k)
                                    /\ fold(m[a + k]) # fold(m[b + k])}
  IN IF differ = {} THEN 0 ELSE m[a + Least(differ)] - m[b + Least(differ)]

Compared(m) ==
  LET same(c) == c IN
  /\ \A o \in Objects : \A b \in 0 .. Size - o[2] : LET a == o[1] n == o[2] IN
       /\ memcmp(m, a, b, n) = DifferenceOf(m, a, b, n, same, FALSE)
       /\ memcasecmp(m, a, b, n) = DifferenceOf(m, a, b, n, Fold, FALSE)
  /\ \A a, b \in Strings(m) :
       /\ strcmp(m, a, b) = DifferenceOf(m, a, b, Size, same, TRUE)
       /\ strcasecmp(m, a, b) = DifferenceOf(m, a, b, Size, Fold, TRUE)
       /\ \A n \in 0 .. Size :
            /\ strncmp(m, a, b, n) = DifferenceOf(m, a, b, n, same, TRUE)
            /\ strncasecmp(m, a, b, n) = DifferenceOf(m, a, b, n, Fold, TRUE)

\* Letters and what lies next to them.
LettersFolded ==
  \A a, b \in {0, 64, 65, 90, 91, 96, 97, 122, 123} :
    CharCaseEqual(a, b) <=> Fold(a) = Fold(b)
=============================================================================

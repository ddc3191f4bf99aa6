------------------------------- MODULE BoaText -------------------------------
(***************************************************************************)
(* Numbers and text: putd and putx of prog/common/src/print.c, and of the  *)
(* programmer the decoding of its arguments, the hexadecimal dump and the  *)
(* placing of an ELF file's segments.                                      *)
(***************************************************************************)
EXTENDS Integers, Sequences, SequencesExt, FiniteSetsExt

CONSTANTS
  Cols,     \* HEXDUMP_COLS (16 in the code).
  Symbols   \* Characters of arguments.

----------------------------------------------------------------------------
(* Numbers to the UART.                                                    *)

\* The last n digits of a number, the highest first.
Digits(value, base, n) == [k \in 1 .. n |-> (value \div base^(n - k)) % base]

putd(value, decimals) == Digits(value, 10, Min({decimals, 10}))
putx(value, decimals) == Digits(value, 16, Min({decimals, 8}))

\* The number that digits s stand for.
Number(s, base) ==
  LET upto[k \in 0 .. Len(s)] == IF k = 0 THEN 0 ELSE base * upto[k - 1] + s[k]
  IN upto[Len(s)]

\* putd and putx print a number that has no more digits than asked for as it is,
\* and of a larger one the last digits.
NumbersPrinted ==
  \A value \in {0, 9, 10, 15, 16, 31, 255, 256, 4095} : \A n \in 1 .. 4 :
    /\ Number(putd(value, n), 10) = value % 10^n /\ Len(putd(value, n)) = n
    /\ Number(putx(value, n), 16) = value % 16^n /\ Len(putx(value, n)) = n

----------------------------------------------------------------------------
(* Arguments: sequences of characters.                                     *)

DigitOf ==
  [ch \in {"0", "1", "9", "a", "f"} |->
     CASE ch = "0" -> 0 [] ch = "1" -> 1 [] ch = "9" -> 9 [] ch = "a" -> 10 [] ch = "f" -> 15]
IsDigit(ch, base) == ch \in DOMAIN DigitOf /\ DigitOf[ch] < base

Rest(raw, k) == SubSeq(raw, k + 1, Len(raw))
Prefixed(raw) == Len(raw) > 1 /\ raw[1] = "0" /\ raw[2] = "x"

\* strtoull of the C library: a sign, in hexadecimal a prefix that digits
\* follow, and digits.  `end' is the number of characters used, 0 if there are
\* no digits.
strtoull(raw, base) ==
  LET sign == IF raw # <<>> /\ raw[1] \in {"-", "+"} THEN 1 ELSE 0
      skips == /\ base = 16 /\ Prefixed(Rest(raw, sign))
               /\ Len(raw) > sign + 2 /\ IsDigit(raw[sign + 3], 16)
      start == IF skips THEN sign + 2 ELSE sign
      used[k \in 0 .. Len(raw) - start] ==
        IF start + k < Len(raw) /\ IsDigit(raw[start + k + 1], base) THEN used[k + 1] ELSE k
      n == used[0]
      value == Number([k \in 1 .. n |-> DigitOf[raw[start + k]]], base)
  IN [end |-> IF n = 0 THEN 0 ELSE start + n,
      value |-> IF raw # <<>> /\ raw[1] = "-" THEN -value ELSE value]

Invalid == [ok |-> FALSE, value |-> 0]
\* The whole argument has to be a number.
Whole(raw, base) ==
  LET number == strtoull(raw, base)
  IN IF number.end < Len(raw) THEN Invalid ELSE [ok |-> TRUE, value |-> number.value]

decode_hex(raw) ==
  LET digits == IF Prefixed(raw) THEN Rest(raw, 2) ELSE raw
  IN IF digits = <<>> THEN Invalid ELSE Whole(digits, 16)

\* An empty argument is zero.
decode_num(raw) == IF Prefixed(raw) THEN decode_hex(Rest(raw, 2)) ELSE Whole(raw, 10)

\* Digits, with or without 0x before them.
Plain(raw, base) == raw # <<>> /\ \A k \in DOMAIN raw : IsDigit(raw[k], base)
PlainHex(raw) == Plain(raw, 16) \/ (Prefixed(raw) /\ Plain(Rest(raw, 2), 16))
DigitsIn(raw) == [k \in DOMAIN raw |-> DigitOf[raw[k]]]

\* An argument written the usual way is understood; one that ends in anything but
\* a digit is refused, whatever it begins with.
ArgumentsDecoded ==
  \A raw \in BoundedSeq(Symbols, 4) :
    LET hex == decode_hex(raw) num == decode_num(raw) bare == Rest(raw, 2) IN
    /\ Plain(raw, 16) => hex = [ok |-> TRUE, value |-> Number(DigitsIn(raw), 16)]
    /\ Plain(raw, 10) => num = [ok |-> TRUE, value |-> Number(DigitsIn(raw), 10)]
    /\ Prefixed(raw) /\ Plain(bare, 16) => hex = num /\ num = decode_hex(bare)
    /\ hex.ok => IsDigit(raw[Len(raw)], 16)
    /\ num.ok /\ raw # <<>> => IsDigit(raw[Len(raw)], 16)

\* f_write of a number: its lowest byte first, with all 64 bits of its sign.
ByteOf(value, k) ==
  IF k > 3 THEN IF value < 0 THEN 255 ELSE 0 ELSE (value \div 256^k) % 256
WriteData(raw, length) ==
  LET signed == raw[1] = "-"
      number == decode_num(IF signed THEN Rest(raw, 1) ELSE raw)
      value == IF signed THEN -number.value ELSE number.value
      byte(k) == IF k <= 8 THEN ByteOf(value, k - 1) ELSE 0
  IN IF number.ok THEN [k \in 1 .. length |-> byte(k)] ELSE <<>>

\* A number is written as the two's complement of the length asked for, and as
\* nothing where it is no number.
ValuesPrepared ==
  \A raw \in {raw \in BoundedSeq(Symbols, 3) : raw # <<>> /\ raw[1] \in {"0", "1", "9"}} :
    LET num == decode_num(raw) IN
    \A length \in 1 .. 3 :
      LET plus == WriteData(raw, length) minus == WriteData(<<"-">> \o raw, length)
      IN IF ~num.ok THEN plus = <<>> /\ minus = <<>>
         ELSE /\ Number(Reverse(plus), 256) = num.value % 256^length
              /\ Number(Reverse(minus), 256) = (-num.value) % 256^length

----------------------------------------------------------------------------
(* The dump of f_read, for at least two bytes.                             *)

clog2(x) == LET from[q \in 0 .. 30] == IF 2^q < x THEN from[q + 1] ELSE q IN from[0]

Rows(length) == (length - 1) \div Cols + 1
\* Digits of the offset a row begins with.
Width(length) == (clog2(length) - 1) \div 4 + 1
Offset(row) == row * Cols
\* The places of the bytes a row shows.
Shown(row, length) == {Offset(row) + col : col \in {col \in 0 .. Cols - 1 : Offset(row) + col < length}}

\* Every byte is shown in one row, and the offsets of all rows have as many
\* digits.
DumpWhole ==
  \A length \in 2 .. 300 :
    LET rows == 0 .. Rows(length) - 1 IN
    /\ UNION {Shown(row, length) : row \in rows} = 0 .. length - 1
    /\ \A row \in rows : Shown(row, length) # {} /\ Offset(row) < 16^Width(length)

----------------------------------------------------------------------------
(* kbelfx_seg_alloc: one block of memory for all segments.                 *)

AddrMin(segs) == Min({segs[k].vaddr_req : k \in DOMAIN segs})
\* Fault for the checks: the end of the last segment is taken for that of all.
AddrMaxLast(segs) == segs[Len(segs)].vaddr_req + segs[Len(segs)].size
AddrMax(segs) == Max({segs[k].vaddr_req + segs[k].size : k \in DOMAIN segs})
\* The size asked of malloc, and where it puts each segment.
BlockOf(segs) == AddrMax(segs) - AddrMin(segs)
Laddr(segs, block, k) == block + segs[k].vaddr_req - AddrMin(segs)

\* Every segment lies in the block, and segments lie there as they do in the
\* computer's memory.
SegmentsPlaced ==
  \A segs \in BoundedSeq([vaddr_req : {4, 5, 7}, size : 0 .. 3], 3) \ {<<>>} :
    \A j, k \in DOMAIN segs :
      /\ Laddr(segs, 100, k) >= 100
      /\ Laddr(segs, 100, k) + segs[k].size <= 100 + BlockOf(segs)
      /\ Laddr(segs, 100, k) - Laddr(segs, 100, j) = segs[k].vaddr_req - segs[j].vaddr_req
=============================================================================

------------------------------ MODULE Conversions ------------------------------
(***************************************************************************)
(* The kernel's conversions: the numbers of fmtWrite and sfmtGet (io.c),   *)
(* the octal fields of an archive's header and the dates ls shows          *)
(* (ustar.c), and the sum that free prints (sys.c).                        *)
(*                                                                         *)
(* A character is a string of length one.  A word is DIGITS hexadecimal    *)
(* digits wide; the code's has 8.                                          *)
(***************************************************************************)
EXTENDS Integers, Sequences, SequencesExt

CONSTANT DIGITS

ASSUME ConversionsAssumption == DIGITS \in Nat \ {0}

VARIABLE call  \* the call that has just returned: what it was given and gave

\* b to the n-th
Power(b, n) == LET power[k \in Nat] == IF k = 0 THEN 1 ELSE b * power[k - 1] IN power[n]

WORD == Power(16, DIGITS)
HALF == WORD \div 2

\* The int that a word holds
Signed(n) == IF n % WORD < HALF THEN n % WORD ELSE (n % WORD) - WORD

Ints  == -HALF .. HALF - 1
Words == 0 .. WORD - 1

-----------------------------------------------------------------------------
(* Numbers *)

hexChars == <<"0", "1", "2", "3", "4", "5", "6", "7",
              "8", "9", "A", "B", "C", "D", "E", "F">>

\* The digits of n > 0, the last one found first and then put in order
Numeral(n, base) ==
  LET digits[k \in Nat] ==
        IF k = 0 THEN <<>> ELSE Append(digits[k \div base], hexChars[(k % base) + 1])
  IN digits[n]

Times(c, n) == [i \in 1 .. n |-> c]
AtLeast(a, b) == IF a < b THEN b ELSE a

\* Variant: the digits are taken before the sign.
intToStrUnsigned(n) == IF n = 0 THEN <<"0">> ELSE Numeral(n % WORD, 10)

\* The least int is its own negation and has no digits.
intToStr(n) ==
  IF n = 0 THEN <<"0">>
  ELSE LET m == IF n < 0 THEN Signed(-n) ELSE n
       IN (IF n < 0 THEN <<"-">> ELSE <<>>) \o (IF m > 0 THEN Numeral(m, 10) ELSE <<>>)

\* The %d of fmtWrite, with its width; the padding goes before the sign.
Decimal(n, width, pad) ==
  LET s == intToStr(n) IN Times(pad, AtLeast(0, width - Len(s))) \o s

\* The %x of fmtWrite pads with zeros, to the digits of a word at most.
hexToStr(n, width) ==
  LET s == IF n = 0 THEN <<"0">> ELSE Numeral(n, 16)
      wide == IF width < DIGITS THEN width ELSE DIGITS
  IN Times("0", AtLeast(0, wide - Len(s))) \o s

DigitOf(c) ==
  IF c \in Range(hexChars) THEN (CHOOSE i \in 1 .. 16 : hexChars[i] = c) - 1 ELSE -1
IsDigit(c) == DigitOf(c) \in 0 .. 9

\* atoi reads a sign and digits up to the first other character.
atoi(s) ==
  LET negative == s # <<>> /\ s[1] = "-"
      t == IF negative THEN Tail(s) ELSE s
      value[k \in 0 .. Len(t)] ==
        IF k = 0 THEN 0 ELSE Signed(value[k - 1] * 10 + DigitOf(t[k]))
      Digits(k) == \A i \in 1 .. k : IsDigit(t[i])
      last == CHOOSE k \in 0 .. Len(t) :
                Digits(k) /\ (k < Len(t) => ~IsDigit(t[k + 1]))
  IN Signed(value[last] * (IF negative THEN -1 ELSE 1))

\* An octal field of a header
oct2bin(s) ==
  LET value[k \in 0 .. Len(s)] ==
        IF k = 0 THEN 0 ELSE Signed(value[k - 1] * 8 + DigitOf(s[k]))
  IN value[Len(s)]

\* left[k] is what is left of n when the last k digits are stored.
bin2oct_padded(n, width) ==
  LET left[k \in Nat] == IF k = 0 THEN n ELSE left[k - 1] \div 8
  IN [i \in 1 .. width |-> hexChars[(left[width - i] % 8) + 1]]

\* The memory of the E820 entries that are good RAM, in 64 bits and then in 32
getTotalMem(entries) ==
  LET total[i \in 0 .. Len(entries)] ==
        IF i = 0 THEN 0
        ELSE (total[i - 1] + IF entries[i].type = 1 THEN entries[i].length ELSE 0)
             % (WORD * WORD)
  IN total[Len(entries)] % WORD

-----------------------------------------------------------------------------
(* Dates *)

\* Variant: every fourth year.
LeapJulian(year) == year % 4 = 0

Leap(year) == year % 4 = 0 /\ (year % 100 # 0 \/ year % 400 = 0)

DaysPerMonth == <<31, 28, 31, 30, 31, 30, 31, 31, 30, 31, 30, 31>>

\* The days of 1970 on, a year at a time, then a month at a time: t is the
\* year or month reached and the days left.
unix2date(days, rem) ==
  LET year[t \in Nat \X Nat] ==
        LET n == IF Leap(t[1]) THEN 366 ELSE 365
        IN IF t[2] < n THEN t ELSE year[<<t[1] + 1, t[2] - n>>]
      y == year[<<1970, days>>]
      month[t \in (1 .. 13) \X Nat] ==
        LET n == IF t[1] = 2 /\ Leap(y[1]) THEN 29 ELSE DaysPerMonth[t[1]]
        IN IF t[1] = 13 \/ t[2] < n THEN t ELSE month[<<t[1] + 1, t[2] - n>>]
      md == month[<<1, y[2]>>]
  IN [year |-> y[1], month |-> md[1], day |-> md[2] + 1,
      hour |-> rem \div 3600, minute |-> (rem % 3600) \div 60, second |-> rem % 60]

-----------------------------------------------------------------------------
NoCall == [op |-> "none"]

ConversionsInit == call = NoCall

\* One call of each; whoever called goes on with the result.
PrintDecimal(n, width, pad) ==
  call' = [op |-> "decimal", n |-> n, width |-> width, pad |-> pad,
           text |-> Decimal(n, width, pad)]
PrintHex(n, width) ==
  call' = [op |-> "hex", n |-> n, width |-> width, text |-> hexToStr(n, width)]
StoreField(n, width) ==
  call' = [op |-> "field", n |-> n, width |-> width, text |-> bin2oct_padded(n, width)]
AddMemory(entries) ==
  call' = [op |-> "total", entries |-> entries, total |-> getTotalMem(entries)]
ShowDate(days, rem) ==
  call' = [op |-> "date", days |-> days, rem |-> rem, date |-> unix2date(days, rem)]

GoOn == call # NoCall /\ call' = NoCall

SecondsPerDay == 24 * 60 * 60
SecondsOfDay == 0 .. SecondsPerDay - 1

\* Whatever is converted: a model of a few numbers takes its steps from these.
ConversionsNext ==
  \/ \E n \in Ints, width \in Nat, pad \in {" ", "0"} : PrintDecimal(n, width, pad)
  \/ \E n \in Words, width \in Nat : PrintHex(n, width)
  \/ \E n \in Words, width \in Nat : StoreField(n, width)
  \/ \E entries \in Seq([type : Nat, length : Nat]) : AddMemory(entries)
  \/ \E days \in Nat, rem \in SecondsOfDay : ShowDate(days, rem)
  \/ GoOn

ConversionsSpec == ConversionsInit /\ [][ConversionsNext]_call

-----------------------------------------------------------------------------
\* What a row of digits denotes, and the good RAM there is, for any word
Denoted(s, base) ==
  LET value[k \in 0 .. Len(s)] ==
        IF k = 0 THEN 0 ELSE value[k - 1] * base + DigitOf(s[k])
  IN value[Len(s)]
GoodRam(entries) ==
  LET sum[i \in 0 .. Len(entries)] ==
        IF i = 0 THEN 0 ELSE sum[i - 1] + IF entries[i].type = 1 THEN entries[i].length ELSE 0
  IN sum[Len(entries)]

(* Every number survives being written: a decimal without zeros in front   *)
(* of its sign is read back as the same int, all but the least, which is   *)
(* written as a lone sign; a hexadecimal denotes the word, however wide; a *)
(* field of a header holds as many octal digits as it has and is read back *)
(* as an int; and the memory found is the sum, as long as that fits a word *)
(* (io.c:246-312, ustar.c:53-94, sys.c:29-46).                             *)
DecimalSurvives ==
  /\ Len(call.text) >= call.width
  /\ call.width = 0 \/ (call.pad = "0" /\ call.n >= 0)
       => atoi(call.text) = IF call.n = -HALF THEN 0 ELSE call.n
HexSurvives == Len(call.text) <= DIGITS /\ Denoted(call.text, 16) = call.n
FieldSurvives == oct2bin(call.text) = Signed(call.n % Power(8, call.width))
TotalIsSum == GoodRam(call.entries) < WORD => call.total = GoodRam(call.entries)

NumbersSurvive ==
  /\ call.op = "decimal" => DecimalSurvives
  /\ call.op = "hex" => HexSurvives
  /\ call.op = "field" => FieldSurvives
  /\ call.op = "total" => TotalIsSum

\* The calendar, counted and not stepped through: the days from 1970-01-01
LeapYearsTo(y) == y \div 4 - y \div 100 + y \div 400
LastDay(y, m) == IF m \in {4, 6, 9, 11} THEN 30 ELSE IF m # 2 THEN 31
                 ELSE 28 + LeapYearsTo(y) - LeapYearsTo(y - 1)
DayNumber(y, m, d) ==
  LET before[k \in 1 .. 12] == IF k = 1 THEN 0 ELSE before[k - 1] + LastDay(y, k - 1)
  IN 365 * (y - 1970) + LeapYearsTo(y - 1) - LeapYearsTo(1969) + before[m] + d - 1

(* ls shows the day and the time of day that the header's seconds stand    *)
(* for, from 1970 to the end of a 32-bit clock in 2106: leap years, and    *)
(* 2100, which is none, included (ustar.c:18-51).                          *)
DatesAreCalendar ==
  call.op = "date" =>
    LET t == call.date
    IN /\ t.month \in 1 .. 12 /\ t.day \in 1 .. LastDay(t.year, t.month)
       /\ DayNumber(t.year, t.month, t.day) = call.days
       /\ t.hour \in 0 .. 23 /\ t.minute \in 0 .. 59 /\ t.second \in 0 .. 59
       /\ (t.hour * 60 + t.minute) * 60 + t.second = call.rem

=============================================================================

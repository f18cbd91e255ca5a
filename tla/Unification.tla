----------------------------- MODULE Unification -----------------------------
(***************************************************************************)
(* The numbers in the fields of a publication, as unification.cc reads and *)
(* judges them: dates, pages, ISBNs and ISSNs; and the names of authors.   *)
(***************************************************************************)
EXTENDS Integers, Sequences, SequencesExt

(***************************************************************************)
(* Dates.  A month is a number, 0 stands for any text that names none.     *)
(***************************************************************************)
LeapYear(y) == y % 4 = 0 /\ (y % 100 # 0 \/ y % 400 = 0)

\* Mutant of MaxDays: February has the days of a year divisible by four.
MaxDaysJulian(y, m) ==
    CASE m = 2                   -> IF y % 4 = 0 THEN 29 ELSE 28
      [] m \in {4, 6, 7, 9, 11}  -> 30
      [] m \in {1, 3, 5, 8, 10, 12} -> 31
      [] OTHER                   -> 0

\* July has 30 days in the code
MaxDays(y, m) ==
    CASE m = 2                   -> IF LeapYear(y) THEN 29 ELSE 28
      [] m \in {4, 6, 7, 9, 11}  -> 30
      [] m \in {1, 3, 5, 8, 10, 12} -> 31
      [] OTHER                   -> 0

DayIsAccepted(y, m, d) == 1 <= d /\ d <= MaxDays(y, m)

YearIsAccepted(y) == 1700 <= y /\ y <= 2030

(***************************************************************************)
(* Pages: the numbers that are found in the text, of which the first two   *)
(* count.  One number stands for one page.                                 *)
(***************************************************************************)
PageRange(numbers) ==
    CASE Len(numbers) = 0 -> <<0, 0>>
      [] Len(numbers) = 1 -> <<numbers[1], numbers[1]>>
      [] OTHER            -> <<numbers[1], numbers[2]>>

RangeIsAccepted(range) == range[1] # 0 /\ range[1] <= range[2]

RangeText(range) == IF range[1] = range[2] THEN <<range[1]>> ELSE range

NumberOfPages(range) == 1 + (range[2] - range[1])

(***************************************************************************)
(* ISBNs and ISSNs are texts of these characters.  A multi-byte character  *)
(* is two or three of AByte.                                               *)
(***************************************************************************)
Digits == 0 .. 9
X      == 10
Hyphen == 11
AByte  == 12   \* a byte of a character that is not ASCII
Other  == 13

(***************************************************************************)
(* The digits of a text.  A byte that is not ASCII is skipped together     *)
(* with whatever follows it; X counts at the end only.  Where the code     *)
(* gives up, the result ends in Other.                                     *)
(***************************************************************************)
PureNumber(text) ==
    LET from[i \in 1 .. Len(text) + 2] ==
            IF i > Len(text) THEN <<>>
            ELSE CASE text[i] = AByte /\ i < Len(text) -> from[i + 2]
                   [] \/ text[i] \in Digits
                      \/ text[i] = X /\ i = Len(text)  -> <<text[i]>> \o from[i + 1]
                   [] text[i] = Hyphen                 -> from[i + 1]
                   [] OTHER                            -> <<Other>>
    IN  from[1]

HasInvalidCharacters(number) == number # <<>> /\ Last(number) = Other

(***************************************************************************)
(* The weighted sums of the digits before the last one, and the digit that *)
(* has to follow.  X is ten.                                               *)
(***************************************************************************)
\* Mutant of Sum10: two weights are mixed up.
Sum10Mixed(n) ==
    10 * n[1] + 9 * n[2] + 8 * n[3] + 7 * n[4] + 6 * n[5]
        + 5 * n[6] + 4 * n[7] + 2 * n[8] + 2 * n[9]

Sum10(n) ==
    10 * n[1] + 9 * n[2] + 8 * n[3] + 7 * n[4] + 6 * n[5]
        + 5 * n[6] + 4 * n[7] + 3 * n[8] + 2 * n[9]

Sum8(n) ==
    8 * n[1] + 7 * n[2] + 6 * n[3] + 5 * n[4] + 4 * n[5]
        + 3 * n[6] + 2 * n[7]

Sum13(n) ==
    n[1] + 3 * n[2] + n[3] + 3 * n[4] + n[5] + 3 * n[6]
        + n[7] + 3 * n[8] + n[9] + 3 * n[10] + n[11] + 3 * n[12]

CheckDigit(sum, modulus) == (modulus - (sum % modulus)) % modulus

ISBNIsAccepted(text) ==
    LET n == PureNumber(text)
    IN  /\ ~HasInvalidCharacters(n)
        /\ \/ Len(n) = 10 /\ n[10] = CheckDigit(Sum10(n), 11)
           \/ Len(n) = 13 /\ n[13] = CheckDigit(Sum13(n), 10)

ISSNIsAccepted(text) ==
    LET n == PureNumber(text)
    IN  ~HasInvalidCharacters(n) /\ Len(n) = 8 /\ n[8] = CheckDigit(Sum8(n), 11)

(***************************************************************************)
(* Names of authors.  A name is a sequence of words in one of three forms: *)
(* "{...}" in braces, "Family, Given" with family words before the comma,  *)
(* or "Given Family".                                                      *)
(***************************************************************************)
SplitAuthor(name) ==
    LET n == Len(name.words)
    IN  CASE name.form = "braced" ->
                 [family |-> name.words, given |-> <<>>]
          [] name.form = "comma" ->
                 [family |-> SubSeq(name.words, 1, name.family),
                  given  |-> SubSeq(name.words, name.family + 1, n)]
          [] name.form = "plain" ->
                 [family |-> SubSeq(name.words, n, n),
                  given  |-> SubSeq(name.words, 1, n - 1)]

\* The name that takes the place of the old one: without its comma
JoinedAuthor(name) ==
    LET parts == SplitAuthor(name)
    IN  IF name.form = "braced" THEN name
        ELSE [form |-> "plain", words |-> parts.given \o parts.family]
=============================================================================

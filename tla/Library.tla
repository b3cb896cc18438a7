------------------------------ MODULE Library ------------------------------
(***************************************************************************)
(* The C library of the PSX kernel (psxbios.cpp): strings, memory blocks   *)
(* and conversions.  A call runs to its end at once: an operator here is   *)
(* the loop of a call, over a window of RAM with zeros on both sides, and  *)
(* gives what the call leaves in RAM and in the registers.  An action is a *)
(* call that writes.                                                       *)
(*                                                                         *)
(* Address 0 is the null pointer.  A count is signed; -1 stands for what   *)
(* is above 2^31.                                                          *)
(***************************************************************************)
EXTENDS Integers, Sequences

CONSTANTS
  Size,     \* cells of the window
  Bytes     \* what they may hold, of 0 .. 255, with 0

Cells == 1 .. Size
Pointers == 0 .. Size
Counts == -1 .. Size

VARIABLE ram

At(m, p) == IF p \in Cells THEN m[p] ELSE 0
Put(m, p, b) == IF p \in Cells THEN [m EXCEPT ![p] = b] ELSE m

(* char is signed.                                                         *)
Signed(b) == IF b >= 128 THEN b - 256 ELSE b

Init == ram \in [Cells -> Bytes]
-----------------------------------------------------------------------------
(* Blocks of memory.                                                       *)

Forward(m, d, s, n) ==
  LET after[k \in 0 .. n] ==
        IF k = 0 THEN m
        ELSE LET last == after[k - 1] IN Put(last, d + k - 1, At(last, s + k - 1))
  IN after[n]

Backward(m, d, s, n) ==
  LET after[k \in 0 .. n] ==
        IF k = 0 THEN m
        ELSE LET last == after[k - 1] IN Put(last, d - k, At(last, s - k))
  IN after[n]

Filled(m, d, b, n) ==
  LET after[k \in 0 .. n] == IF k = 0 THEN m ELSE Put(after[k - 1], d + k - 1, b)
  IN after[n]

memcpy(m, d, s, n) == IF d = 0 \/ n < 0 THEN m ELSE Forward(m, d, s, n)

bcopy(m, s, d, n) == IF s = 0 \/ n < 0 THEN m ELSE Forward(m, d, s, n)

memset(m, d, b, n) == IF n <= 0 \/ d = 0 THEN m ELSE Filled(m, d, b, n)

bzero(m, d, n) == memset(m, d, 0, n)

(* Mutant: the overlap is looked for on the wrong side.                    *)
memmoveForward(m, d, s, n) ==
  IF d = 0 \/ n < 0 THEN m
  ELSE IF d <= s /\ d + n > s THEN Backward(m, d + n + 1, s + n + 1, n + 1)
  ELSE Forward(m, d, s, n)

(* Where the blocks overlap it copies one byte more, as the kernel does.   *)
memmove(m, d, s, n) ==
  IF d = 0 \/ n < 0 THEN m
  ELSE IF s <= d /\ s + n > d THEN Backward(m, d + n + 1, s + n + 1, n + 1)
  ELSE Forward(m, d, s, n)

(* The difference is that of the bytes after the first two that differ.    *)
bcmp(m, p, q, n) ==
  LET compared[k \in 0 .. n] ==
        IF k = n THEN 0
        ELSE IF At(m, p + k) # At(m, q + k)
        THEN Signed(At(m, p + k + 1)) - Signed(At(m, q + k + 1))
        ELSE compared[k + 1]
  IN IF p = 0 \/ q = 0 \/ n <= 0 THEN 0 ELSE compared[0]
-----------------------------------------------------------------------------
(* Strings.                                                                *)

(* The first place from p on that holds none of the bytes.                 *)
Behind(m, p, bytes) ==
  LET end[k \in p .. Size + 1] == IF At(m, k) \in bytes THEN end[k + 1] ELSE k
  IN end[p]

End(m, p) == Behind(m, p, 1 .. 255)

strlen(m, p) == End(m, p) - p

(* The end is copied, too.                                                 *)
StringCopied(m, d, s) == Forward(m, d, s, strlen(m, s) + 1)

strcpy(m, d, s) == IF d = 0 \/ s = 0 THEN m ELSE StringCopied(m, d, s)

strcat(m, d, s) == IF d = 0 \/ s = 0 THEN m ELSE StringCopied(m, End(m, d), s)

(* One character too many is taken back.                                   *)
Appended(m, d, s, n) ==
  LET taken[k \in 0 .. Size] ==
        IF At(m, s + k) = 0 \/ n - k - 1 < 0 THEN k ELSE taken[k + 1]
  IN Put(Forward(m, d, s, taken[0] + 1), d + taken[0], 0)

strncat(m, d, s, n) == IF d = 0 \/ s = 0 THEN m ELSE Appended(m, End(m, d), s, n)

(* Behind the end of the source the destination is filled with zeros.      *)
strncpy(m, d, s, n) ==
  LET after[k \in 0 .. n] ==
        IF k = 0 THEN [ram |-> m, ended |-> FALSE]
        ELSE LET last == after[k - 1]
                 b == IF last.ended THEN 0 ELSE At(last.ram, s + k - 1)
             IN [ram |-> Put(last.ram, d + k - 1, b), ended |-> b = 0]
  IN IF d = 0 \/ s = 0 \/ n <= 0 THEN m ELSE after[n].ram

(* The answer if one of the pointers is null.                              *)
NullCompared(p, q) == IF p = 0 /\ q = 0 THEN 0 ELSE IF p = 0 THEN -1 ELSE 1

(* n characters are equal; moved is what is added to a0 and a1.            *)
Compared(m, p, q) ==
  LET compared[n \in 0 .. Size] ==
        LET x == At(m, p + n)
            y == At(m, q + n)
        IN IF x # y THEN [v0 |-> Signed(x) - Signed(y), v1 |-> n, moved |-> n]
           ELSE IF x = 0 THEN [v0 |-> 0, v1 |-> n, moved |-> n + 1]
           ELSE compared[n + 1]
  IN compared[0]

(* v1 keeps what it had if a pointer is null.                              *)
strcmp(m, p, q) ==
  IF p = 0 \/ q = 0 THEN [v0 |-> NullCompared(p, q), v1 |-> 0, moved |-> 0]
  ELSE Compared(m, p, q)

FirstCompared(m, p, q, n) ==
  LET compared[k \in 0 .. Size] ==
        LET x == At(m, p + k)
            y == At(m, q + k)
            left == n - k - 1
            result == [v0 |-> 0, v1 |-> left + 1, moved |-> k, a2 |-> left]
        IN IF left < 0 THEN result
           ELSE IF x # y THEN [result EXCEPT !.v0 = Signed(x) - Signed(y)]
           ELSE IF x = 0 THEN result
           ELSE compared[k + 1]
  IN compared[0]

strncmp(m, p, q, n) ==
  IF p = 0 \/ q = 0
  THEN [v0 |-> NullCompared(p, q), v1 |-> 0, moved |-> 0, a2 |-> n]
  ELSE FirstCompared(m, p, q, n)
-----------------------------------------------------------------------------
(* Searches.  A character is compared as an int: that of a string is       *)
(* signed, c is what the program passes.                                   *)

index(m, p, c) ==
  LET found[k \in p .. Size + 1] ==
        IF Signed(At(m, k)) = c THEN k ELSE IF At(m, k) = 0 THEN 0 ELSE found[k + 1]
  IN IF p = 0 THEN 0 ELSE found[p]

(* No pointer: the result is whatever v0 held.                             *)
Kept == -1

(* The last one among the first k characters, the end being one of them.   *)
rindex(m, p, c) ==
  LET last[k \in 0 .. strlen(m, p) + 1] ==
        IF k = 0 THEN 0 ELSE IF Signed(At(m, p + k - 1)) = c THEN p + k - 1 ELSE last[k - 1]
  IN IF p = 0 THEN Kept ELSE last[strlen(m, p) + 1]

memchr(m, p, c, n) ==
  LET found[k \in 0 .. n] ==
        IF k = n THEN 0
        ELSE IF Signed(At(m, p + k)) = Signed(c % 256) THEN p + k
        ELSE found[k + 1]
  IN IF p = 0 \/ n < 0 THEN Kept ELSE found[0]

(* The characters of string q.                                             *)
Characters(m, q) == {At(m, k) : k \in q .. End(m, q) - 1}

(* The characters from p on that are in string q, or that are not.         *)
strspn(m, p, q) == Behind(m, p, Characters(m, q)) - p
strcspn(m, p, q) == Behind(m, p, (1 .. 255) \ Characters(m, q)) - p

(* Not found: the string itself, as in the kernel.                         *)
strpbrk(m, p, q) ==
  LET found == p + strcspn(m, p, q)
  IN IF At(m, found) = 0 THEN p ELSE found

(* String q starts at p.                                                   *)
Prefix(m, p, q) ==
  LET agree[k \in 0 .. Size] ==
        IF At(m, q + k) # 0 /\ At(m, p + k) = At(m, q + k) THEN agree[k + 1] ELSE k
  IN At(m, q + agree[0]) = 0

(* Nothing is found in an empty string, not even the empty string.         *)
strstr(m, p, q) ==
  LET found[k \in p .. Size + 1] ==
        IF At(m, k) = 0 THEN 0 ELSE IF Prefix(m, k, q) THEN k ELSE found[k + 1]
  IN found[p]

(* The host's strtok: the first token of a string.  A null pointer is the  *)
(* address 0 of RAM to it: it starts a search there, and goes on with none. *)
strtok(m, p, q) ==
  LET first == p + strspn(m, p, q)
      behind == first + strcspn(m, first, q)
  IN IF p = 0 \/ At(m, first) = 0 THEN [ram |-> m, v0 |-> 0]
     ELSE [ram |-> IF At(m, behind) = 0 THEN m ELSE Put(m, behind, 0), v0 |-> first]
-----------------------------------------------------------------------------
(* Conversions.                                                            *)

Blanks == {32, 9}
Minus == 45
Plus == 43
Digits == 48 .. 57
IsDigit(b) == b \in Digits
IsUpper(b) == b \in 65 .. 90
IsLower(b) == b \in 97 .. 122

Number(m, p) ==
  LET number[k \in 0 .. Behind(m, p, Digits) - p] ==
        IF k = 0 THEN 0 ELSE number[k - 1] * 10 + At(m, p + k - 1) - 48
  IN number[Behind(m, p, Digits) - p]

(* Blanks, at most one sign, digits.                                       *)
atoi(m, p) ==
  LET sign == Behind(m, p, Blanks)
  IN IF At(m, sign) = Minus THEN -Number(m, sign + 1)
     ELSE IF At(m, sign) = Plus THEN Number(m, sign + 1)
     ELSE Number(m, sign)

(* Words are w bits wide: the least of them has no absolute value.         *)
abs(x, w) == (IF x >= 2 ^ (w - 1) THEN -x ELSE x) % 2 ^ w

todigit(c) ==
  IF IsDigit(c) THEN c - 48
  ELSE IF IsLower(c) THEN c - 32
  ELSE IF IsUpper(c) THEN c - 65 + 10
  ELSE IF c >= 128 THEN -1
  ELSE 9999999

toupper(c) == IF IsLower(c) THEN c - 32 ELSE Signed(c)
tolower(c) == IF IsUpper(c) THEN c + 32 ELSE Signed(c)
-----------------------------------------------------------------------------
(* The calls that write.  A string call on strings that overlap would      *)
(* overtake the end it looks for, so programs make none (MayCopy).         *)

MayCopy(d, s) == d # 0 /\ s # 0 => ~(s < End(ram, d) + 1 /\ d <= End(ram, s))

Strcpy(d, s) == MayCopy(d, s) /\ ram' = strcpy(ram, d, s)
Strcat(d, s) == MayCopy(d, s) /\ ram' = strcat(ram, d, s)
Strncpy(d, s, n) == ram' = strncpy(ram, d, s, n)
Strncat(d, s, n) == MayCopy(d, s) /\ ram' = strncat(ram, d, s, n)
Memcpy(d, s, n) == ram' = memcpy(ram, d, s, n)
Bcopy(s, d, n) == ram' = bcopy(ram, s, d, n)
Memmove(d, s, n) == ram' = memmove(ram, d, s, n)
Memset(d, b, n) == ram' = memset(ram, d, b, n)
Bzero(d, n) == ram' = bzero(ram, d, n)
Strtok(p, q) == ram' = strtok(ram, p, q).ram

Next ==
  \E d \in Pointers :
    \/ \E n \in Counts : Bzero(d, n) \/ \E b \in Bytes : Memset(d, b, n)
    \/ \E s \in Pointers :
         \/ Strcpy(d, s) \/ Strcat(d, s) \/ Strtok(d, s)
         \/ \E n \in Counts :
              \/ Strncpy(d, s, n) \/ Strncat(d, s, n)
              \/ Memcpy(d, s, n) \/ Bcopy(s, d, n) \/ Memmove(d, s, n)

Spec == Init /\ [][Next]_ram
-----------------------------------------------------------------------------
TypeOK == ram \in [Cells -> Bytes]

(* What the results are compared with: strings as sequences.               *)
String(m, p) == [k \in 1 .. strlen(m, p) |-> At(m, p + k - 1)]
Cut(x, n) == [k \in {j \in DOMAIN x : j <= n} |-> x[k]]
CharAt(x, k) == IF k \in DOMAIN x THEN Signed(x[k]) ELSE 0
Common(x, y) ==
  CHOOSE n \in 0 .. Len(x) :
    /\ n <= Len(y) /\ Cut(x, n) = Cut(y, n)
    /\ n = Len(x) \/ n = Len(y) \/ x[n + 1] # y[n + 1]
Precedes(x, y) == \E n \in 0 .. Len(x) :
  Cut(x, n) = Cut(y, n) /\ CharAt(x, n + 1) < CharAt(y, n + 1)
Least(S) == IF S = {} THEN 0 ELSE CHOOSE k \in S : \A j \in S : k <= j
Greatest(S) == IF S = {} THEN 0 ELSE CHOOSE k \in S : \A j \in S : j <= k

(* strcmp is the order of strings by their first difference, with signed   *)
(* characters; it says how far the strings agree.  strncmp is strcmp of    *)
(* the strings cut to n characters, and looks at none behind them.  bcmp,  *)
(* which compares the bytes behind the first two that differ, may miss a   *)
(* difference, but finds none between blocks that are equal.               *)
CompareIsOrder ==
  \A p, q \in Cells :
    LET x == String(ram, p)
        y == String(ram, q)
        whole == strcmp(ram, p, q)
    IN /\ whole.v0 = 0 <=> x = y
       /\ whole.v0 < 0 <=> Precedes(x, y)
       /\ whole.v1 = Common(x, y)
       /\ x # y => At(ram, p + whole.moved) # At(ram, q + whole.moved)
       /\ \A n \in Counts :
            LET first == strncmp(ram, p, q, n)
            IN /\ bcmp(ram, p, q, n) # 0 => \E k \in 0 .. n - 1 : At(ram, p + k) # At(ram, q + k)
               /\ first.v0 = 0 <=> Cut(x, n) = Cut(y, n)
               /\ first.v0 < 0 <=> Precedes(Cut(x, n), Cut(y, n))
               /\ first.moved = IF n < 0 THEN 0 ELSE Common(Cut(x, n), Cut(y, n))

(* Each search finds the first, or the last, place there is.  A character  *)
(* from 128 on is found in a string only if it was passed with its sign.   *)
FoundFirst ==
  \A p \in Cells :
    /\ \A c \in Bytes \cup {Signed(b) : b \in Bytes} :
         LET places == {k \in p .. End(ram, p) : Signed(At(ram, k)) = c}
         IN /\ index(ram, p, c) = Least(places)
            /\ rindex(ram, p, c) = Greatest(places)
            /\ c >= 128 => places = {}
            /\ \A n \in 0 .. Size :
                 memchr(ram, p, c, n)
                   = Least({k \in p .. p + n - 1 : At(ram, k) = c % 256})
    /\ \A q \in Cells :
         LET x == String(ram, p)
             y == String(ram, q)
             chars == {y[k] : k \in DOMAIN y}
             others == {k \in DOMAIN x : x[k] \notin chars}
             token == strtok(ram, p, q)
         IN /\ strspn(ram, p, q) = Least(others \cup {Len(x) + 1}) - 1
            /\ strpbrk(ram, p, q)
                 = IF others = DOMAIN x THEN p ELSE p + Least(DOMAIN x \ others) - 1
            /\ strstr(ram, p, q)
                 = Least({k \in p .. End(ram, p) - 1 : Cut(String(ram, k), Len(y)) = y})
            /\ token.v0 = 0 <=> others = {}
            /\ token.v0 # 0 =>
                 LET word == String(token.ram, token.v0)
                 IN /\ token.v0 = p + Least(others) - 1
                    /\ word # <<>> /\ {word[k] : k \in DOMAIN word} \cap chars = {}

(* memmove leaves at the destination what the source was, whatever their   *)
(* overlap, and touches nothing else but one byte behind it.  memcpy and   *)
(* bcopy do the same without that byte; a destination within the source    *)
(* gets the bytes in front of it over and over.                            *)
MovedWhole ==
  \A d, s \in Cells, n \in Counts :
    LET moved == memmove(ram, d, s, n)
        copied == memcpy(ram, d, s, n)
        behind == s <= d /\ d < s + n
    IN /\ bcopy(ram, s, d, n) = copied
       /\ \A k \in Cells :
            IF k \in d .. d + n - 1
            THEN /\ moved[k] = At(ram, s + k - d)
                 /\ copied[k] = At(ram, s + IF behind /\ d # s THEN (k - d) % (d - s) ELSE k - d)
            ELSE /\ moved[k] # ram[k] => behind /\ k = d + n
                 /\ copied[k] = ram[k]

(* The string calls build the strings they promise and write nothing else: *)
(* strncpy exactly n bytes, strncat at most n and the end.                 *)
StringsBuilt ==
  \A d, s \in Cells :
    LET x == String(ram, d)
        y == String(ram, s)
        Writes(m, first, last) == \A k \in Cells \ (first .. last) : m[k] = ram[k]
        Builds(m, z) == d + Len(z) <= Size + 1 => String(m, d) = z
    IN MayCopy(d, s) =>
         /\ Builds(strcpy(ram, d, s), y)
         /\ Writes(strcpy(ram, d, s), d, d + Len(y))
         /\ Builds(strcat(ram, d, s), x \o y)
         /\ \A n \in 0 .. Size :
              /\ Builds(strncat(ram, d, s, n), x \o Cut(y, n))
              /\ Writes(strncat(ram, d, s, n), d + Len(x), d + Len(x \o Cut(y, n)))
              /\ Writes(strncpy(ram, d, s, n), d, d + n - 1)
              /\ \A k \in Cells \cap (d .. d + n - 1) :
                   strncpy(ram, d, s, n)[k] = IF k - d < Len(y) THEN y[k - d + 1] ELSE 0

(* Capitals are digits, small letters are not; case conversion is its own  *)
(* inverse on letters.                                                     *)
CharactersConverted ==
  \A c \in 0 .. 255 :
    /\ todigit(c) \in 0 .. 35 <=> IsDigit(c) \/ IsUpper(c)
    /\ IsUpper(c) => toupper(tolower(c)) = c
    /\ IsLower(c) => tolower(toupper(c)) = c
    /\ abs(c, 8) < 128 <=> c # 128

(* The value of a place of a number.                                       *)
Ten[k \in 0 .. 9] == IF k = 0 THEN 1 ELSE 10 * Ten[k - 1]

(* atoi reads the digits behind blanks and at most one sign: each digit of *)
(* its result is that of the string.  (No word overflows with up to nine.) *)
NumbersRead ==
  /\ CharactersConverted
  /\ \A p \in Cells :
       LET sign == Least({k \in p .. Size + 1 : At(ram, k) \notin Blanks})
           first == IF At(ram, sign) \in {Minus, Plus} THEN sign + 1 ELSE sign
           behind == Least({k \in first .. Size + 1 : ~IsDigit(At(ram, k))})
           value == IF At(ram, sign) = Minus THEN -atoi(ram, p) ELSE atoi(ram, p)
       IN behind - first <= 9 =>
            /\ value \in 0 .. Ten[behind - first] - 1
            /\ \A k \in first .. behind - 1 :
                 (value \div Ten[behind - k - 1]) % 10 = At(ram, k) - 48

(* The calls on memory do what they are to do, on every memory they can be *)
(* made on.                                                                *)
MemoryAsDefined ==
  CompareIsOrder /\ FoundFirst /\ MovedWhole /\ StringsBuilt /\ NumbersRead
=============================================================================

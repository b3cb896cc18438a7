------------------------------ MODULE Console ------------------------------
(***************************************************************************)
(* The standard output of the PSX kernel (psxbios.cpp): putchar, puts,     *)
(* putc and write to descriptor 1, and printf, which gather characters in  *)
(* stdoutbuf and show it line by line.                                     *)
(*                                                                         *)
(* Characters are strings of one letter; "n" and "r" stand for '\n' and    *)
(* '\r', "d", "x", "s" and "c" are those of printf, which stand for all.   *)
(***************************************************************************)
EXTENDS Integers, Sequences, SequencesExt

CONSTANTS
  Formats,      \* the formats programs print with
  Strings,      \* the strings they print
  Arguments,    \* what they pass for a conversion: a character and a string
  MaxText,      \* the output that is looked at: characters,
  MaxShown      \* and lines

VARIABLES
  stdoutbuf,    \* the line that is not shown yet
  shown,        \* the lines given to SysPrintf
  text          \* history: the lines the program has printed, the last one open

vars == <<stdoutbuf, shown, text>>

Digits == {"0", "1"}
Number == <<"7">>

Init == stdoutbuf = <<>> /\ shown = <<>> /\ text = <<<<>>>>
-----------------------------------------------------------------------------
(* The output: the line and what is shown.                                 *)
Output == [buf |-> stdoutbuf, lines |-> shown]

Shown(out) == [buf |-> <<>>, lines |-> Append(out.lines, out.buf)]
Added(out, c) == [out EXCEPT !.buf = Append(out.buf, c)]

(* A blank line is not shown.                                              *)
raw_putc(out, c) ==
  IF c = "n" THEN IF out.buf = <<>> THEN out ELSE Shown(out)
  ELSE IF c = "r" THEN out
  ELSE Added(out, c)

PutInLine(out, c) ==
  IF c = "n" THEN Shown(out) ELSE IF c = "r" THEN out ELSE Added(out, c)

(* A string, character by character.                                       *)
Spelled(out, str) ==
  LET put[k \in 0 .. Len(str)] == IF k = 0 THEN out ELSE PutInLine(put[k - 1], str[k])
  IN  put[Len(str)]

(* Mutant: a string ends the line.                                         *)
raw_putsLine(out, str) == Shown(Spelled(out, str))

(* Here a blank line is shown, and an empty string is shown as one.        *)
raw_puts(out, str) ==
  IF str = <<>> THEN [out EXCEPT !.lines = Append(out.lines, <<>>)] ELSE Spelled(out, str)

Written(out, str) ==
  LET put[k \in 0 .. Len(str)] == IF k = 0 THEN out ELSE raw_putc(put[k - 1], str[k])
  IN  put[Len(str)]

(* What a conversion prints of its argument.                               *)
Converted(out, c, arg) ==
  CASE c \in {"d", "x"} -> raw_puts(out, Number)
    [] c = "c" -> raw_putc(out, arg.char)
    [] c = "s" -> raw_puts(out, arg.string)
    [] OTHER -> out

(* The character at place k of a format: behind its end lies what was      *)
(* printed before, here the end of another string.                         *)
FormatAt(f, k) == IF k <= Len(f) THEN f[k] ELSE "end"

(* Place j is that of the letter of a conversion that starts before k.     *)
Ends(f, k, j) ==
  /\ FormatAt(f, j) \notin Digits \cup {".", "l"}
  /\ \A m \in k .. j - 1 : FormatAt(f, m) \in Digits \cup {".", "l"}

Letter(f, k) == CHOOSE j \in k .. Len(f) + 1 : Ends(f, k, j)

(* One turn of the loop, which goes on from place at of the format with    *)
(* the argument arg.  Of "%%" one character is printed and one left, which *)
(* starts a conversion.                                                    *)
Turn(f, args, loop) ==
  LET k == loop.at
      letter == Letter(f, k + 1)
      c == FormatAt(f, letter)
  IN IF k > Len(f) THEN loop
     ELSE IF f[k] # "%" THEN [loop EXCEPT !.out = raw_putc(loop.out, f[k]), !.at = k + 1]
     ELSE IF FormatAt(f, k + 1) = "%"
     THEN [loop EXCEPT !.out = raw_putc(loop.out, "%"), !.at = k + 1]
     ELSE [out |-> Converted(loop.out, c, args[loop.arg]), at |-> letter + 1,
           arg |-> IF c \in {"d", "x", "c", "s"} THEN loop.arg + 1 ELSE loop.arg]

(* There are no more turns than characters.                                *)
Formatted(out, f, args) ==
  LET loop[i \in 0 .. Len(f)] ==
        IF i = 0 THEN [out |-> out, at |-> 1, arg |-> 1] ELSE Turn(f, args, loop[i - 1])
  IN  loop[Len(f)].out
-----------------------------------------------------------------------------
(* What a program means by a call: the lines of its output.  Nothing here  *)
(* knows of stdoutbuf.                                                     *)
NextLines(lines, c) ==
  CASE c = "n" -> Append(lines, <<>>)
    [] c = "r" -> lines
    [] OTHER -> [lines EXCEPT ![Len(lines)] = Append(lines[Len(lines)], c)]

Lines(lines, str) ==
  LET after[k \in 0 .. Len(str)] == IF k = 0 THEN lines ELSE NextLines(after[k - 1], str[k])
  IN  after[Len(str)]

(* Of a format, the characters outside of its conversions, and for each    *)
(* conversion the next argument by its letter.                             *)
Inside(f, k) == \E j \in 1 .. k - 1 : f[j] = "%" /\ k <= Letter(f, j + 1)

ByLetter(c, arg) ==
  CASE c = "c" -> <<arg.char>> [] c = "s" -> arg.string [] OTHER -> Number

Meant(f, args) ==
  LET meant[k \in 0 .. Len(f)] ==
        IF k = 0 THEN [text |-> <<>>, used |-> 0]
        ELSE LET m == meant[k - 1]
             IN IF f[k] = "%"
                THEN [text |-> m.text \o ByLetter(f[Letter(f, k + 1)], args[m.used + 1]),
                      used |-> m.used + 1]
                ELSE IF Inside(f, k) THEN m ELSE [m EXCEPT !.text = m.text \o <<f[k]>>]
  IN  meant[Len(f)].text

Prints(out, str) ==
  /\ text' = Lines(text, str)
  /\ stdoutbuf' = out.buf /\ shown' = out.lines
  /\ Len(FlattenSeq(text')) <= MaxText /\ Len(shown') + Len(text') <= MaxShown
-----------------------------------------------------------------------------
Putchar(c) == Prints(raw_putc(Output, c), <<c>>)

Puts(str) == Prints(raw_puts(Output, str), str)

(* write and putc, to descriptor 1.                                        *)
Write(str) == Prints(Written(Output, str), str)

(* Programs print no "%%", which takes the next character with it, and no  *)
(* format that breaks off in a conversion, which runs on behind its end    *)
(* (MayPrint).                                                             *)
MayPrint(f) ==
  \A k \in DOMAIN f : f[k] = "%" =>
    \E j \in k + 1 .. Len(f) :
      /\ f[j] \in {"d", "x", "c", "s"}
      /\ \A m \in k + 1 .. j - 1 : f[m] \in Digits \cup {".", "l"}

Printf(f, args) == Prints(Formatted(Output, f, args), Meant(f, args))

Next ==
  \/ \E c \in {"b", "n", "r"} : Putchar(c)
  \/ \E str \in Strings : Puts(str) \/ Write(str)
  \/ \E f \in Formats :
       MayPrint(f) /\ \E args \in [1 .. Len(f) -> Arguments] : Printf(f, args)

Spec == Init /\ [][Next]_vars
-----------------------------------------------------------------------------
(* The lines that are not blank.                                           *)
Full(lines) ==
  LET full[k \in 0 .. Len(lines)] ==
        IF k = 0 THEN <<>>
        ELSE IF lines[k] = <<>> THEN full[k - 1] ELSE Append(full[k - 1], lines[k])
  IN  full[Len(lines)]

(* What is shown are the lines of the program in its order, but for blank  *)
(* ones, and what is not shown is the line it has not ended, through       *)
(* whichever of the calls they came.                                       *)
LinesInOrder ==
  /\ Full(shown) = Full(SubSeq(text, 1, Len(text) - 1))
  /\ stdoutbuf = text[Len(text)]
=============================================================================

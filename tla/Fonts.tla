------------------------------- MODULE Fonts --------------------------------
(***************************************************************************)
(* The kernel's font (psxbios.cpp, sjisfont.h): two tables of glyphs in    *)
(* ROM, one of signs and one of kanji, and Krom2RawAdd, which tells where  *)
(* the glyph of a character is.  Addresses are those in the ROM.           *)
(*                                                                         *)
(* A character of JIS X 0208 is a row and a cell, of 1 .. 94; programs     *)
(* name it by its Shift-JIS code.                                          *)
(***************************************************************************)
EXTENDS Integers, FiniteSets

VARIABLES
  char,      \* the character the program asks for
  glyph      \* what it is told

vars == <<char, glyph>>

(* A glyph is 15 rows of two bytes; the font's last row is blank.          *)
GlyphSize == \h1E
DrawnSize == 28

(* The fonts, uncompressed to their places: address and number of bytes.   *)
font_8140 == [at |-> \h66000, size |-> 15718]
font_889f == [at |-> \h69D68, size |-> 88948]
Fonts == {font_8140, font_889f}

(* The first code of a run, and where its glyphs begin.                    *)
table_8140 ==
 {<<\h8140, \h0000>>, <<\h8180, \h0762>>, <<\h81AD, \h0CC6>>, <<\h81B8, \h0CA8>>,
  <<\h81C0, \h0F00>>, <<\h81C8, \h0D98>>, <<\h81CF, \h10C2>>, <<\h81DA, \h0E6A>>,
  <<\h81E9, \h13CE>>, <<\h81F0, \h102C>>, <<\h81F8, \h1590>>, <<\h81FC, \h111C>>,
  <<\h81FD, \h1626>>, <<\h824F, \h113A>>, <<\h8259, \h20EE>>, <<\h8260, \h1266>>,
  <<\h827A, \h24CC>>, <<\h8281, \h1572>>, <<\h829B, \h28AA>>, <<\h829F, \h187E>>,
  <<\h82F2, \h32DC>>, <<\h8340, \h2238>>, <<\h837F, \h4362>>, <<\h8380, \h299A>>,
  <<\h8397, \h4632>>, <<\h839F, \h2C4C>>, <<\h83B7, \h49F2>>, <<\h83BF, \h2F1C>>,
  <<\h83D7, \h4DB2>>, <<\h8440, \h31EC>>, <<\h8461, \h5DDE>>, <<\h8470, \h35CA>>,
  <<\h847F, \h6162>>, <<\h8480, \h378C>>, <<\h8492, \h639C>>, <<\h849F, \h39A8>>}

table_889f ==
 {<<\h889F, \h3D68>>, <<\h8900, \h40EC>>, <<\h897F, \h4FB0>>, <<\h8A00, \h56F4>>,
  <<\h8A7F, \h65B8>>, <<\h8B00, \h6CFC>>, <<\h8B7F, \h7BC0>>, <<\h8C00, \h8304>>,
  <<\h8C7F, \h91C8>>, <<\h8D00, \h990C>>, <<\h8D7F, \hA7D0>>, <<\h8E00, \hAF14>>,
  <<\h8E7F, \hBDD8>>, <<\h8F00, \hC51C>>, <<\h8F7F, \hD3E0>>, <<\h9000, \hDB24>>,
  <<\h907F, \hE9E8>>, <<\h9100, \hF12C>>, <<\h917F, \hFFF0>>, <<\h9200, \h10734>>,
  <<\h927F, \h115F8>>, <<\h9300, \h11D3C>>, <<\h937F, \h12C00>>, <<\h9400, \h13344>>,
  <<\h947F, \h14208>>, <<\h9500, \h1494C>>, <<\h957F, \h15810>>, <<\h9600, \h15F54>>,
  <<\h967F, \h16E18>>, <<\h9700, \h1755C>>, <<\h977F, \h18420>>, <<\h9800, \h18B64>>}

None == -1

(* The run of a code is the last one that begins at or before it.          *)
InRun(table, code) ==
  LET run == CHOOSE r \in table :
               r[1] <= code /\ \A s \in table : s[1] <= code => s[1] <= r[1]
  IN \h66000 + (code - run[1]) * GlyphSize + run[2]

(* Mutant: the run that begins at the code is not looked at.               *)
Krom2RawAddBefore(code) ==
  IF code \in \h8140 .. \h84BE THEN InRun({r \in table_8140 : r[1] \in {\h8140} \cup 0 .. code - 1}, code)
  ELSE IF code \in \h889F .. \h9872 THEN InRun(table_889f, code)
  ELSE None

Krom2RawAdd(code) ==
  IF code \in \h8140 .. \h84BE THEN InRun(table_8140, code)
  ELSE IF code \in \h889F .. \h9872 THEN InRun(table_889f, code)
  ELSE None
-----------------------------------------------------------------------------
(* The characters of the standard up to the kanji of level 1: by row, the  *)
(* cells that are taken.                                                   *)
Cells(row) ==
  CASE row = 1 -> 1 .. 94
    [] row = 2 -> 1 .. 14 \cup 26 .. 33 \cup 42 .. 48 \cup 60 .. 74 \cup 82 .. 89 \cup {94}
    [] row = 3 -> 16 .. 25 \cup 33 .. 58 \cup 65 .. 90
    [] row = 4 -> 1 .. 83
    [] row = 5 -> 1 .. 86
    [] row = 6 -> 1 .. 24 \cup 33 .. 56
    [] row = 7 -> 1 .. 33 \cup 49 .. 81
    [] row = 8 -> 1 .. 32
    [] row \in 16 .. 46 -> 1 .. 94
    [] row = 47 -> 1 .. 51
    [] OTHER -> {}

Rows == 1 .. 8 \cup 16 .. 47

(* Two rows share a first byte; no second byte is 7F.                      *)
ShiftJis(c) ==
  LET first == \h81 + (c.row - 1) \div 2
      second == IF c.row % 2 = 0 THEN \h9E + c.cell
                ELSE IF c.cell <= 63 THEN \h3F + c.cell ELSE \h40 + c.cell
  IN first * 256 + second

(* How many characters of the row come before the cell, and which is the   *)
(* first one of a row.                                                     *)
Before(c) == Cardinality({k \in Cells(c.row) : k < c.cell})
FirstCell(row) == CHOOSE k \in Cells(row) : \A j \in Cells(row) : k <= j

Init ==
  /\ char \in {[row |-> r, cell |-> FirstCell(r)] : r \in Rows}
  /\ glyph = Krom2RawAdd(ShiftJis(char))

(* The program asks for the characters of a row one after another.         *)
Ask ==
  \E k \in Cells(char.row) :
    /\ Before([char EXCEPT !.cell = k]) = Before(char) + 1
    /\ char' = [char EXCEPT !.cell = k]
    /\ glyph' = Krom2RawAdd(ShiftJis(char'))

Spec == Init /\ [][Ask]_vars
-----------------------------------------------------------------------------
(* The glyphs of the rows before.                                          *)
RowStart(row) ==
  LET sizes[r \in 0 .. 47] == IF r = 0 THEN 0 ELSE Cardinality(Cells(r)) + sizes[r - 1]
  IN sizes[row - 1]

(* Every character has a glyph of its own: in the order of the standard    *)
(* they follow one another through the two fonts, and each is whole within *)
(* one of them.                                                            *)
GlyphsInOrder ==
  /\ glyph = font_8140.at + (RowStart(char.row) + Before(char)) * GlyphSize
  /\ \E f \in Fonts : f.at <= glyph /\ glyph + DrawnSize <= f.at + f.size
=============================================================================

--------------------------- MODULE SqlScannerTables ---------------------------
(***************************************************************************)
(* The tables of the scanner in src/parser/lex.yy.c, number by number.     *)
(* table[i] of the code is At(table, i) here, because sequences count from *)
(* one.                                                                    *)
(***************************************************************************)
EXTENDS Integers, Sequences

At(table, i) == table[i + 1]

(* yy_ec puts characters the automaton cannot tell apart in one class.     *)
(* Here a class has one character: " " is also the tab, "0" every digit,   *)
(* "G" the letters of either case that no keyword has, and "other" every   *)
(* character the language has no use for.  Class 0 is the end of the       *)
(* buffer.                                                                 *)
Characters == <<
  "other", " ", "newline", "return", "'", "(", ")", "*", "+", ",", "-", ".",
  "/", "0", ";", "<", "=", ">", "A", "B", "C", "D", "E", "F", "G", "H", "I",
  "J", "L", "M", "N", "O", "P", "R", "S", "T", "U", "V", "W", "X", "_", "a",
  "b", "c", "d", "e", "f", "h", "i", "j", "l", "m", "n", "o", "p", "r", "s",
  "t", "u", "v", "w", "x">>

yy_ec == [c \in {Characters[i] : i \in DOMAIN Characters} |->
            CHOOSE i \in DOMAIN Characters : Characters[i] = c]

(* The rule a state accepts, 0 for none. *)
yy_accept == <<
  0, 0, 0, 0, 0, 41, 39, 6, 7, 7, 39, 34, 39, 39, 39, 36, 34, 34, 35, 35, 35,
  35, 35, 35, 35, 35, 35, 35, 35, 35, 35, 35, 3, 4, 6, 7, 0, 38, 36, 5, 1,
  37, 32, 33, 31, 35, 35, 35, 35, 35, 35, 35, 35, 35, 35, 35, 35, 35, 35, 35,
  35, 35, 35, 2, 5, 37, 27, 35, 35, 35, 35, 35, 35, 35, 35, 35, 35, 35, 23,
  35, 35, 21, 35, 35, 35, 35, 35, 24, 35, 35, 13, 12, 29, 35, 18, 30, 35, 35,
  15, 28, 35, 8, 35, 35, 35, 35, 35, 35, 25, 26, 35, 35, 11, 35, 35, 19, 10,
  17, 14, 22, 9, 20, 16, 0>>

(* The compressed transitions. *)
yy_meta == <<
  0, 1, 1, 2, 1, 1, 1, 1, 1, 1, 1, 1, 1, 1, 3, 1, 1, 1, 1, 3, 3, 3, 3, 3, 3,
  3, 3, 3, 3, 3, 3, 3, 3, 3, 3, 3, 3, 3, 3, 3, 3, 3, 3, 3, 3, 3, 3, 3, 3, 3,
  3, 3, 3, 3, 3, 3, 3, 3, 3, 3, 3, 3, 3>>

yy_base == <<
  0, 0, 0, 223, 220, 223, 243, 219, 243, 217, 214, 243, 204, 52, 209, 53, 51,
  198, 33, 0, 44, 48, 33, 45, 52, 46, 48, 61, 64, 48, 66, 62, 243, 201, 211,
  243, 124, 243, 77, 0, 243, 105, 243, 243, 243, 0, 68, 74, 74, 76, 80, 87,
  83, 85, 89, 106, 94, 94, 90, 104, 103, 102, 103, 243, 0, 62, 0, 98, 116,
  115, 125, 117, 119, 137, 129, 127, 134, 139, 133, 135, 144, 0, 131, 142,
  149, 136, 140, 0, 139, 140, 0, 0, 0, 142, 0, 0, 143, 150, 0, 0, 165, 0,
  166, 158, 176, 178, 179, 180, 0, 0, 171, 172, 175, 181, 176, 0, 0, 0, 0, 0,
  0, 0, 0, 243, 233, 236, 69, 239>>

yy_def == <<
  0, 123, 1, 124, 124, 123, 123, 123, 123, 123, 125, 123, 123, 123, 123, 123,
  123, 123, 126, 126, 126, 126, 126, 126, 126, 126, 126, 126, 126, 126, 126,
  126, 123, 123, 123, 123, 125, 123, 123, 127, 123, 123, 123, 123, 123, 126,
  126, 126, 126, 126, 126, 126, 126, 126, 126, 126, 126, 126, 126, 126, 126,
  126, 126, 123, 127, 123, 126, 126, 126, 126, 126, 126, 126, 126, 126, 126,
  126, 126, 126, 126, 126, 126, 126, 126, 126, 126, 126, 126, 126, 126, 126,
  126, 126, 126, 126, 126, 126, 126, 126, 126, 126, 126, 126, 126, 126, 126,
  126, 126, 126, 126, 126, 126, 126, 126, 126, 126, 126, 126, 126, 126, 126,
  126, 126, 0, 123, 123, 123, 123>>

yy_nxt == <<
  0, 6, 7, 8, 9, 10, 11, 11, 11, 12, 11, 13, 11, 14, 15, 11, 16, 11, 17, 18,
  19, 20, 21, 22, 23, 19, 24, 25, 26, 19, 19, 19, 19, 19, 19, 27, 28, 29, 30,
  31, 19, 6, 18, 19, 20, 21, 22, 23, 24, 25, 26, 19, 19, 19, 19, 19, 19, 27,
  28, 29, 30, 31, 19, 39, 46, 41, 38, 38, 42, 43, 47, 49, 45, 51, 52, 54, 65,
  55, 48, 53, 56, 60, 50, 59, 57, 61, 46, 58, 62, 41, 66, 38, 47, 67, 49, 51,
  52, 68, 54, 55, 48, 53, 56, 60, 50, 69, 59, 57, 61, 58, 62, 70, 71, 66, 72,
  73, 67, 74, 75, 65, 68, 79, 82, 80, 83, 84, 86, 69, 76, 37, 81, 85, 87, 70,
  71, 88, 72, 73, 89, 74, 75, 77, 78, 79, 82, 80, 90, 83, 84, 86, 91, 76, 81,
  85, 87, 92, 93, 96, 88, 94, 95, 89, 97, 77, 78, 98, 99, 100, 103, 90, 101,
  102, 91, 104, 105, 106, 107, 92, 108, 93, 96, 94, 95, 109, 110, 97, 111,
  98, 99, 112, 100, 103, 101, 102, 113, 104, 105, 106, 107, 114, 108, 115,
  116, 117, 121, 109, 110, 118, 119, 111, 120, 122, 112, 34, 63, 44, 113, 40,
  38, 37, 35, 34, 114, 123, 115, 116, 117, 121, 33, 118, 119, 33, 120, 122,
  32, 32, 32, 36, 36, 36, 64, 123, 64, 5, 123, 123, 123, 123, 123, 123, 123,
  123, 123, 123, 123, 123, 123, 123, 123, 123, 123, 123, 123, 123, 123, 123,
  123, 123, 123, 123, 123, 123, 123, 123, 123, 123, 123, 123, 123, 123, 123,
  123, 123, 123, 123, 123, 123, 123, 123, 123, 123, 123, 123, 123, 123, 123,
  123, 123, 123, 123, 123, 123, 123, 123, 123, 123>>

yy_chk == <<
  0, 1, 1, 1, 1, 1, 1, 1, 1, 1, 1, 1, 1, 1, 1, 1, 1, 1, 1, 1, 1, 1, 1, 1, 1,
  1, 1, 1, 1, 1, 1, 1, 1, 1, 1, 1, 1, 1, 1, 1, 1, 1, 1, 1, 1, 1, 1, 1, 1, 1,
  1, 1, 1, 1, 1, 1, 1, 1, 1, 1, 1, 1, 1, 13, 18, 15, 13, 15, 16, 16, 20, 21,
  126, 22, 23, 24, 65, 25, 20, 23, 26, 29, 21, 28, 27, 30, 18, 27, 31, 38,
  46, 38, 20, 47, 21, 22, 23, 48, 24, 25, 20, 23, 26, 29, 21, 49, 28, 27, 30,
  27, 31, 49, 50, 46, 51, 52, 47, 53, 54, 41, 48, 56, 58, 57, 59, 60, 62, 49,
  55, 36, 57, 61, 67, 49, 50, 68, 51, 52, 69, 53, 54, 55, 55, 56, 58, 57, 70,
  59, 60, 62, 71, 55, 57, 61, 67, 72, 73, 76, 68, 74, 75, 69, 77, 55, 55, 78,
  79, 80, 84, 70, 82, 83, 71, 85, 86, 88, 89, 72, 93, 73, 76, 74, 75, 96, 97,
  77, 100, 78, 79, 102, 80, 84, 82, 83, 103, 85, 86, 88, 89, 104, 93, 105,
  106, 107, 113, 96, 97, 110, 111, 100, 112, 114, 102, 34, 33, 17, 103, 14,
  12, 10, 9, 7, 104, 5, 105, 106, 107, 113, 4, 110, 111, 3, 112, 114, 124,
  124, 124, 125, 125, 125, 127, 0, 127, 123, 123, 123, 123, 123, 123, 123,
  123, 123, 123, 123, 123, 123, 123, 123, 123, 123, 123, 123, 123, 123, 123,
  123, 123, 123, 123, 123, 123, 123, 123, 123, 123, 123, 123, 123, 123, 123,
  123, 123, 123, 123, 123, 123, 123, 123, 123, 123, 123, 123, 123, 123, 123,
  123, 123, 123, 123, 123, 123, 123, 123, 123, 123, 123>>

YY_JAMBASE == 243       \* the base of states without transitions
YY_TEMPLATES == 124     \* from here on, states are templates
YY_NUM_RULES == 40
YY_END_OF_BUFFER == 41
==============================================================================

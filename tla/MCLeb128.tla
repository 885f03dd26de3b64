------------------------------ MODULE MCLeb128 ------------------------------
(***************************************************************************)
(* Groups of three bits in integers of 4, 8 and 10: like 8, 32 and 64 bits *)
(* over 7, their widths are 1, more than 1 and 1 above a multiple.         *)
(***************************************************************************)
EXTENDS Leb128

\* Two of the three codes above EmptyType; the third is no type.
MCValueTypes == {6, 7}
=============================================================================

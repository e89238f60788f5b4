----------------------------- MODULE MCConsole -----------------------------
(***************************************************************************)
(* A screen of two rows and five columns, a command line of two            *)
(* characters, and short texts.                                            *)
(***************************************************************************)
EXTENDS Console

MCStart == At(Left, 10)
MCSuperText == <<<<"v">>, <<"s", NL>>>>
MCGroupText == <<<<"g">>>>
MCNames == <<"n">>
MCFile == <<"h">>
MCFileWithNewline == <<"h", NL>>

AllKeys == {"c", "d", "e", "h", "l", "x", Blank, BS, NL, TAB}
MCChar == AllKeys \cup {"g", "m", "n", "s", "v", ">"}

=============================================================================

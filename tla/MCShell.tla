------------------------------- MODULE MCShell --------------------------------
(* An instance of Shell: three slots, lines of one character.  "p" is an      *)
(* application and "P", which takes a shift, the desktop.  Enter comes from   *)
(* both devices.                                                              *)
EXTENDS Shell

MCKind(l) == CASE l = <<112>> -> "app" [] l = <<80>> -> "desktop" [] OTHER -> "other"
\* p, Enter, right and down arrow, E0
MCScanCodes == {25, 28, 77, 80, 224}
\* Enter, Escape, delete
MCSerialChars == {13, 27, 127}
=============================================================================

--------------------------- MODULE MCOshConnection ---------------------------
(* Instances of OshConnection for TLC. *)
EXTENDS OshConnection

\* Text, a control character, a line feed; ESC and backslash, alone and in a
\* colour sequence and a code of its own.
OutputsMC ==
    SeqOf({97, BEL, 10, ESC, Backslash}, 2)
      \cup {<<97, 98, 99>>, <<97, BEL, 98>>, <<ESC, 91, 109, 97>>, <<Backslash, LetterX, 52, 49>>}
==============================================================================

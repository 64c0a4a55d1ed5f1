--------------------------- MODULE MCBufferMarks ---------------------------
(***************************************************************************)
(* BufferMarks with the status buffer and two others, for messages that    *)
(* are highlights, the user's own, or redirected.                          *)
(***************************************************************************)
EXTENDS BufferMarks

FlagSets == {{"Highlight"}, {"Self"}, {"Redirected"}}

\* The two buffers that are not the status buffer are treated alike.
Symmetry == Permutations(Targets \ {Status})

\* The third message comes only while all marks agree with the backlog.
Odd == lax # {} \/ orphans # {} \/ ~open
ThirdByTheBook == received = 3 => ~Odd
=============================================================================

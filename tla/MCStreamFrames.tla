--------------------------- MODULE MCStreamFrames ---------------------------
(***************************************************************************)
(* Instance of StreamFrames for TLC, in tenths of frames per second: no    *)
(* events, targets above, below and not dividing the source rate, zero and *)
(* tiny ones, two events of one name, and unknown source rates.            *)
(***************************************************************************)
EXTENDS StreamFrames

E(name, target) == [name |-> name, target_fps |-> target]

Lists ==
  {<<>>, <<E("a", 20), E("b", 0)>>, <<E("a", 40), E("b", 90)>>, <<E("a", 1)>>,
   <<E("a", 20), E("b", 30), E("a", 25)>>}
=============================================================================

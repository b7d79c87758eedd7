--------------------------- MODULE MCServerLinks -----------------------------
(* ServerLinks for TLC.                                                      *)
EXTENDS ServerLinks

\* A client shares the descriptors while links are lost and made again; a
\* notification meets a lost link and the next one; two of them meet on one link.
ThreeLoads ==
  {[pushes |-> 2, notes |-> 0, clients |-> 1, drops |-> 2],
   [pushes |-> 2, notes |-> 1, clients |-> 0, drops |-> 1],
   [pushes |-> 1, notes |-> 2, clients |-> 0, drops |-> 0]}
=============================================================================

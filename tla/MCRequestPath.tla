--------------------------- MODULE MCRequestPath -----------------------------
(* RequestPath for TLC: requests and socket numbers are interchangeable, and *)
(* so are clients of a kind.                                                *)
EXTENDS RequestPath, TLC

PathSymmetry == Permutations(Requests) \cup Permutations(Fds)
                \cup Permutations(PbConns) \cup Permutations(HttpConns)

\* Two clients may be there at a time, but when the third has come only one.
AtATime ==
  (\A c \in Conns : state[c] # "new") =>
    \A c, d \in Conns : state[c] = "open" /\ state[d] = "open" => c = d
=============================================================================

------------------------------ MODULE MCFraming ------------------------------
(* Framing for TLC: streams put together of messages and stray bytes.       *)
EXTENDS Framing

\* Messages: an empty one, one with a tag in its body, one whose body begins
\* like a message, one too long for the reader; a header whose message may not
\* come, or not be as long as it says; and stray bytes.
Pieces == {Framed(0, <<>>), Framed(2, <<Tag7E, TagAA>>), Framed(3, <<Tag7E, TagAA, Copy(4)>>),
           Framed(6, <<Other, Tag7E, TagAA, Copy(0), Other, Other>>),
           Framed(1, <<>>), <<Other>>, <<Tag7E>>, <<TagAA>>}

Joined == {a \o b \o c : a \in Pieces, b \in Pieces, c \in Pieces}

AllStreams == {s \in Joined : WellFormed(s)}
=============================================================================

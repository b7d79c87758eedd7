------------------------------ MODULE Framing --------------------------------
(***************************************************************************)
(* How net_server::read cuts the stream of a connection into messages.     *)
(* The event loop reads some bytes into the evbuffer and takes messages    *)
(* from its front until there is no whole one (handle_data).  A front that *)
(* is no header makes handle_head look for the next 0x7E 0xAA: it walks    *)
(* over the first extent of the evbuffer as it was when it looked, while   *)
(* it drains the evbuffer under its feet.                                  *)
(*                                                                         *)
(* The stream is a sequence of units: the two bytes of the server's tag,   *)
(* the rest of a header (which holds the client's tag and pb_length) as    *)
(* one unit, and other bytes.  HEADER_LEN is 3 of these.  Payloads are any *)
(* bytes, so what reads like the rest of a header may also be a copy of    *)
(* one; the reader looks at the tags only and cannot tell them apart.  The *)
(* evbuffer is the stretch of the stream that is read and not drained, cut *)
(* into extents, never empty ones; libevent puts what it reads behind the  *)
(* last extent, into a new one, or some here and the rest there.  A        *)
(* message is named by the place of the rest of its header.                *)
(***************************************************************************)
EXTENDS Integers, Sequences

CONSTANTS Streams,       \* what a connection may bring
          BufferSize     \* TCP_BUFFER_SIZE: a message may not be longer

HeaderLen == 3

Byte(kind) == [kind |-> kind, len |-> 0]
Tag7E == Byte("7E")
TagAA == Byte("AA")
Other == Byte("other")
\* A message: what its header announces may be less than follows.
Rest(len) == [kind |-> "rest", len |-> len]
Framed(len, body) == <<Tag7E, TagAA, Rest(len)>> \o body
\* Bytes of a payload, or stray ones, that read like the rest of a header.
Copy(len) == [kind |-> "copy", len |-> len]

Units == [kind : {"7E", "AA", "other", "rest", "copy"}, len : Nat]

\* The peer's own headers are whole, and it begins none inside another message.
WellFormed(s) ==
  \A p \in DOMAIN s : s[p].kind = "rest" =>
    /\ p >= HeaderLen /\ s[p - 2] = Tag7E /\ s[p - 1] = TagAA
    /\ \A q \in DOMAIN s : p < q /\ q <= p + s[p].len + 2 => s[q].kind # "rest"

ASSUME FramingAssumption ==
  Streams \subseteq Seq(Units) /\ (\A s \in Streams : WellFormed(s)) /\ BufferSize \in Nat

VARIABLES
  stream,        \* everything the connection brings
  from, upto,    \* m_evbuffer holds the units behind `from' up to `upto'
  cuts,          \* where its extents end
  pc,            \* "idle", or where in "read_head", "peek" or "scan"
  base, edge,    \* the extent handle_head walks over, in the same way
  steps,         \* how far it has walked
  dead,          \* is that extent's memory given back?
  got,           \* the messages given to the pool
  harm           \* history: how far the connection was read when the reader last
                 \* passed over a 0x7E, or took a copy for a header

bufVars  == <<from, cuts>>
walkVars == <<base, edge, steps, dead>>
framingVars == <<stream, bufVars, upto, pc, walkVars, got, harm>>

FramingTypeOK ==
  /\ stream \in Seq(Units) /\ WellFormed(stream)
  /\ from \in 0 .. upto /\ upto \in 0 .. Len(stream)
  /\ cuts \subseteq from + 1 .. upto /\ (from < upto => upto \in cuts)
  /\ pc \in {"idle", "read_head", "peek", "scan"}
  /\ base \in 0 .. edge /\ edge \in 0 .. upto /\ steps \in 0 .. edge - base
  /\ dead \in BOOLEAN /\ harm \in 0 .. upto
  /\ got \in Seq(Nat)

FramingInit ==
  /\ stream \in Streams /\ from = 0 /\ upto = 0 /\ cuts = {}
  /\ pc = "idle" /\ base = 0 /\ edge = 0 /\ steps = 0 /\ dead = FALSE
  /\ got = <<>> /\ harm = 0

-----------------------------------------------------------------------------
(* The evbuffer.                                                           *)

Avail == upto - from

\* evbuffer_drain
Drained(n) == IF n < Avail THEN from + n ELSE upto
Drain(n) == from' = Drained(n) /\ cuts' = {c \in cuts : c > Drained(n)}

\* Is there a header at the front, and the message it announces?
Tagged == Avail >= 2 /\ stream[from + 1] = Tag7E /\ stream[from + 2] = TagAA
Header == Tagged /\ Avail >= HeaderLen /\ stream[from + HeaderLen].kind \in {"rest", "copy"}
Length == HeaderLen + stream[from + HeaderLen].len
Whole  == Header /\ Avail >= Length

\* Is the header at the front none of the peer's?
Lured == Header /\ stream[from + HeaderLen].kind = "copy"

-----------------------------------------------------------------------------
\* read_data: one evbuffer_read, then handle_data.
Read ==
  /\ pc = "idle"
  /\ upto' \in upto + 1 .. Len(stream)
  /\ \/ cuts' = cuts \cup {upto'}
     \/ \E m \in upto + 1 .. upto' : cuts' = (cuts \ {upto}) \cup {m, upto'}
  /\ pc' = "read_head"
  /\ UNCHANGED <<stream, from, walkVars, got, harm>>

\* read_head, or the message it announced, is not all there.
Wait ==
  /\ pc = "read_head"
  /\ Avail < HeaderLen \/ (Header /\ ~ Whole)
  /\ pc' = "idle"
  /\ UNCHANGED <<stream, bufVars, upto, walkVars, got, harm>>

\* Mutant: one message of a read is enough.
Take_One ==
  /\ pc = "read_head" /\ Whole /\ Length <= BufferSize
  /\ got' = Append(got, from + HeaderLen)
  /\ Drain(Length)
  /\ pc' = "idle"
  /\ harm' = IF Lured THEN upto ELSE harm
  /\ UNCHANGED <<stream, upto, walkVars>>

\* read_msg, add_task
Take ==
  /\ pc = "read_head" /\ Whole /\ Length <= BufferSize
  /\ got' = Append(got, from + HeaderLen)
  /\ Drain(Length)
  /\ pc' = IF Avail = Length THEN "idle" ELSE "read_head"
  /\ harm' = IF Lured THEN upto ELSE harm
  /\ UNCHANGED <<stream, upto, walkVars>>

\* A message that is too long is passed over.
Oversized ==
  /\ pc = "read_head" /\ Whole /\ Length > BufferSize
  /\ Drain(Length)
  /\ harm' = IF Lured THEN upto ELSE harm
  /\ UNCHANGED <<stream, upto, pc, walkVars, got>>

\* The front is no header; the tag of the server alone is drained.
Astray ==
  /\ pc = "read_head" /\ Avail >= HeaderLen /\ ~ Header
  /\ IF Tagged THEN Drain(2) ELSE UNCHANGED bufVars
  /\ pc' = "peek"
  /\ UNCHANGED <<stream, upto, walkVars, got, harm>>

-----------------------------------------------------------------------------
(* handle_head                                                             *)

Peek ==
  /\ pc = "peek"
  /\ IF Avail = 0 THEN pc' = "idle" /\ UNCHANGED walkVars
     ELSE /\ pc' = "scan" /\ base' = from /\ steps' = 0 /\ dead' = FALSE
          /\ edge' \in {c \in cuts : \A d \in cuts : c <= d}
  /\ UNCHANGED <<stream, bufVars, upto, got, harm>>

Walking == pc = "scan" /\ steps < edge - base

\* Does the byte the walk looks at pass for 0x7E?  Memory that was given back
\* may hold anything.
Looks7E(yes) == ~ dead => (yes <=> stream[base + steps + 1] = Tag7E)

Pass ==
  /\ Walking /\ Looks7E(FALSE)
  /\ steps' = steps + 1
  /\ UNCHANGED <<stream, bufVars, upto, pc, base, edge, dead, got, harm>>

\* Mutant: always the second byte.
AAPlace_Second(f) == f + 2

\* Where it looks for 0xAA when it has drained the evbuffer to f: at the first
\* byte if the 0x7E was the last of the extent, else at the second.
AAPlace(f) == IF steps = edge - base - 1 THEN f + 1 ELSE f + 2

\* Behind the end of the first extent lies anything.
TakenForAA(f, yes) ==
  AAPlace(f) = f + 1 \/ f + 1 \notin cuts => (yes <=> stream[AAPlace(f)] = TagAA)

FindTag ==
  /\ Walking /\ Looks7E(TRUE)
  /\ steps < Avail /\ TakenForAA(from + steps, TRUE)
  /\ Drain(steps)
  /\ pc' = "read_head"
  /\ UNCHANGED <<stream, upto, walkVars, got, harm>>

FindStray ==
  LET f == from + steps IN
  /\ Walking /\ Looks7E(TRUE)
  /\ steps < Avail /\ TakenForAA(f, FALSE)
  /\ Drain(steps + 1)
  /\ steps' = steps + 1
  \* draining an extent to its end gives its memory back
  /\ dead' = (dead \/ \E c \in cuts : c <= f + 1)
  /\ harm' = upto
  /\ UNCHANGED <<stream, upto, pc, base, edge, got>>

FindEnd ==
  /\ Walking /\ Looks7E(TRUE)
  /\ steps >= Avail
  /\ Drain(steps)
  /\ pc' = "idle"
  /\ UNCHANGED <<stream, upto, walkVars, got, harm>>

\* Mutant: the extent stays where it is.
NextExtent_Same ==
  /\ pc = "scan" /\ steps = edge - base
  /\ pc' = "peek"
  /\ UNCHANGED <<stream, bufVars, upto, walkVars, got, harm>>

NextExtent ==
  /\ pc = "scan" /\ steps = edge - base
  /\ Drain(edge - base)
  /\ pc' = "peek"
  /\ UNCHANGED <<stream, upto, walkVars, got, harm>>

FramingNext ==
  \/ Read \/ Wait \/ Take \/ Oversized \/ Astray
  \/ Peek \/ Pass \/ FindTag \/ FindStray \/ FindEnd \/ NextExtent

FramingSafety == FramingInit /\ [][FramingNext]_framingVars

\* The event loop runs; readable sockets are read.
FramingSpec == FramingSafety /\ WF_framingVars(FramingNext)

-----------------------------------------------------------------------------
\* The peer's messages that end before the stream does and are not too long.
Messages ==
  {p \in DOMAIN stream : /\ stream[p].kind = "rest" /\ p + stream[p].len <= Len(stream)
                         /\ HeaderLen + stream[p].len <= BufferSize}

\* However the stream is cut into reads and extents, a message of a connection
\* reaches the pool, unless its first byte was already read when the reader passed
\* over a 0x7E whose 0xAA it did not see (there was none, it was in another extent
\* or had not come yet), or when it took a copy in a payload for a header.  Neither
\* costs a message that comes later.  A copy at the front announces what it likes.
NothingLost ==
  pc = "idle" /\ upto = Len(stream) /\ ~ Lured =>
    \A p \in Messages : p - 2 > harm => \E n \in DOMAIN got : got[n] = p

\* What is given to the pool follows a header or the copy of one, is all there and
\* not too long, and lies behind what was given before.
InOrder ==
  /\ \A n \in DOMAIN got :
       /\ got[n] \in DOMAIN stream /\ stream[got[n]].kind \in {"rest", "copy"}
       /\ got[n] + stream[got[n]].len <= Len(stream)
       /\ HeaderLen + stream[got[n]].len <= BufferSize
  /\ \A m, n \in DOMAIN got : m < n => got[m] + stream[got[m]].len < got[n] - 2

\* A peer that sends nothing but messages, whatever their payloads hold, loses none
\* and the pool gets nothing else.
Unharmed ==
  (\A u \in DOMAIN stream : \E p \in DOMAIN stream :
      stream[p].kind = "rest" /\ p - 2 <= u /\ u <= p + stream[p].len) =>
    harm = 0 /\ \A n \in DOMAIN got : got[n] \in Messages

\* The event loop never goes back to sleep on a message it has.
NoMessageWaits == pc = "idle" => ~ Whole

\* The pool gets the messages of a connection: all but those the two accidents
\* cost, in order, once each, and as soon as they are there.
MessagesDelivered == NothingLost /\ InOrder /\ Unharmed /\ NoMessageWaits

\* Until the search passes over a 0x7E, it looks at nothing but the first extent of
\* the evbuffer, neither at memory that is given back nor behind the extent's end.
\* After that it may do both.
InsideExtent ==
  Walking /\ harm # upto =>
    /\ ~ dead
    /\ {base + steps + 1, AAPlace(from + steps)} \subseteq from + 1 .. edge
    /\ edge \in cuts /\ \A c \in cuts : edge <= c

\* The search for a tag ends, and the event loop gets to the end of the stream.
ReadToEnd == <>(pc = "idle" /\ upto = Len(stream))
=============================================================================

---------------------------- MODULE SocketProofs ----------------------------
(***************************************************************************)
(* Proofs about the two directions of a socket: Framing, which cuts what a *)
(* connection brings into messages, for every stream and every way it is   *)
(* cut into reads and extents; and ResponseQueue, which sends what the     *)
(* handlers answer, for every set of answers and peers and every size of   *)
(* answer and socket buffer.                                               *)
(***************************************************************************)
EXTENDS Framing, ResponseQueue, TLAPS

-----------------------------------------------------------------------------
(* Framing.                                                                *)

\* The event loop sleeps on less than a header, or on a message that is not all
\* there.
IdleWaits == pc = "idle" => Avail < HeaderLen \/ (Header /\ ~ Whole)

\* What the pool got lies before the evbuffer, one message behind the other.
GotBehind ==
  /\ InOrder
  /\ \A n \in DOMAIN got : got[n] + stream[got[n]].len <= from

\* The front of the evbuffer lies in no message that was read since the last
\* accident, and those of them before it are in the pool or were too long.
Kept ==
  \A p \in DOMAIN stream : stream[p].kind = "rest" /\ p - 2 > harm =>
    \/ from < p - 2
    \/ /\ p + stream[p].len <= from
       /\ HeaderLen + stream[p].len <= BufferSize => \E n \in DOMAIN got : got[n] = p

\* Unless there was an accident since the last read, the search for a tag has
\* drained nothing, there is no 0x7E where it has been, and it is in the first extent.
Searched ==
  harm # upto /\ pc = "scan" =>
    /\ ~ dead /\ base = from /\ \A k \in 1 .. steps : stream[base + k] # Tag7E
    /\ edge \in cuts /\ \A c \in cuts : edge <= c

\* The peer sends nothing but messages.
OwnOnly ==
  \A u \in DOMAIN stream : \E p \in DOMAIN stream :
    stream[p].kind = "rest" /\ p - 2 <= u /\ u <= p + stream[p].len

\* Then the front is always a message of its own.
NeverAstray ==
  OwnOnly =>
    pc \in {"idle", "read_head"} /\ harm = 0 /\ \A n \in DOMAIN got : got[n] \in Messages

CutInv == FramingTypeOK /\ IdleWaits /\ GotBehind /\ Kept /\ Searched /\ NeverAstray

LEMMA UnitsOf ==
  ASSUME FramingTypeOK
  PROVE  /\ DOMAIN stream = 1 .. Len(stream) /\ Len(stream) \in Nat
         /\ \A p \in DOMAIN stream : stream[p] \in Units /\ stream[p].len \in Nat /\ p \in Nat
         /\ from \in Nat /\ upto \in Nat /\ from <= upto /\ upto <= Len(stream)
         /\ base \in Nat /\ edge \in Nat /\ steps \in Nat
         /\ base <= edge /\ edge <= upto /\ steps <= edge - base
         /\ cuts \subseteq from + 1 .. upto /\ harm \in Nat /\ harm <= upto
<1>1. stream \in Seq(Units) /\ upto \in 0 .. Len(stream) /\ from \in 0 .. upto
      /\ edge \in 0 .. upto /\ base \in 0 .. edge /\ steps \in 0 .. edge - base
      /\ cuts \subseteq from + 1 .. upto /\ harm \in 0 .. upto
  BY DEF FramingTypeOK
<1>2. DOMAIN stream = 1 .. Len(stream) /\ Len(stream) \in Nat
      /\ \A p \in DOMAIN stream : stream[p] \in Units /\ p \in Nat
  BY <1>1
<1>3. \A u \in Units : u.len \in Nat
  BY DEF Units
<1> QED BY <1>1, <1>2, <1>3

\* evbuffer_drain takes n units from the front, or all there are.
LEMMA Drains ==
  ASSUME FramingTypeOK, NEW n \in Nat, Drain(n), upto' = upto
  PROVE  /\ from' \in 0 .. upto' /\ from <= from'
         /\ cuts' \subseteq from' + 1 .. upto' /\ (from' < upto' => upto' \in cuts')
         /\ n <= Avail => from' = from + n
         /\ n >= Avail => from' = upto
<1>1. from \in Nat /\ upto \in Nat /\ from <= upto /\ cuts \subseteq from + 1 .. upto
  BY UnitsOf
<1>2. from < upto => upto \in cuts
  BY DEF FramingTypeOK
<1>3. /\ from' \in Nat /\ from <= from' /\ from' <= upto
      /\ n <= Avail => from' = from + n
      /\ n >= Avail => from' = upto
  BY <1>1 DEF Drain, Drained, Avail
<1>4. cuts' = {c \in cuts : c > from'}
  BY DEF Drain
<1>5. cuts' \subseteq from' + 1 .. upto'
  <2> SUFFICES ASSUME NEW c \in cuts' PROVE c \in from' + 1 .. upto'
      OBVIOUS
  <2>1. c \in cuts /\ c > from'
    BY <1>4
  <2>2. c \in Nat /\ c <= upto
    BY <1>1, <2>1
  <2>3. \A f \in Nat : c > f /\ c <= upto => c \in f + 1 .. upto
    BY <1>1, <2>2
  <2> QED BY <1>3, <2>1, <2>2, <2>3
<1>6. from' < upto' => upto' \in cuts'
  BY <1>1, <1>2, <1>3, <1>4
<1>7. from' \in 0 .. upto'
  BY <1>1, <1>3
<1> QED BY <1>3, <1>5, <1>6, <1>7

\* A header at the front is where it says, and its message too if it is whole.
LEMMA Front ==
  ASSUME FramingTypeOK, Header
  PROVE  LET p == from + HeaderLen IN
           /\ p \in DOMAIN stream /\ stream[p].kind \in {"rest", "copy"}
           /\ stream[p].kind = "rest" <=> ~ Lured
           /\ stream[p].len \in Nat /\ Length \in Nat /\ Length = HeaderLen + stream[p].len
           /\ Whole => Length <= Avail /\ p + stream[p].len <= Len(stream)
<1>1. /\ DOMAIN stream = 1 .. Len(stream) /\ Len(stream) \in Nat
      /\ \A p \in DOMAIN stream : stream[p].len \in Nat
      /\ from \in Nat /\ upto \in Nat /\ from <= upto /\ upto <= Len(stream)
  BY UnitsOf
<1>2. /\ from + HeaderLen \in DOMAIN stream
      /\ stream[from + HeaderLen].kind \in {"rest", "copy"}
      /\ stream[from + HeaderLen].kind = "rest" <=> ~ Lured
  BY <1>1 DEF Header, Lured, Avail, HeaderLen
<1> QED BY <1>1, <1>2 DEF Length, Whole, Avail, HeaderLen

\* Nothing in the evbuffer has moved.
LEMMA Still ==
  ASSUME UNCHANGED <<stream, from, upto>>
  PROVE  /\ Avail' = Avail /\ Tagged' = Tagged /\ Header' = Header /\ Whole' = Whole
         /\ Lured' = Lured
BY DEF Avail, Tagged, Header, Whole, Lured, Length

LEMMA FramingTypes == FramingInit => FramingTypeOK
<1> SUFFICES ASSUME FramingInit PROVE FramingTypeOK
    OBVIOUS
<1>1. stream \in Seq(Units) /\ WellFormed(stream) /\ Len(stream) \in Nat
  BY FramingAssumption DEF FramingInit
<1>2. /\ from = 0 /\ upto = 0 /\ cuts = {} /\ pc = "idle" /\ base = 0 /\ edge = 0 /\ steps = 0
      /\ got = <<>> /\ dead \in BOOLEAN /\ harm = 0
  BY DEF FramingInit
<1> QED BY <1>1, <1>2 DEF FramingTypeOK

LEMMA FramingStepTypes == FramingTypeOK /\ [FramingNext]_framingVars => FramingTypeOK'
<1> SUFFICES ASSUME FramingTypeOK, [FramingNext]_framingVars
             PROVE  FramingTypeOK'
    OBVIOUS
<1>1. /\ from \in Nat /\ upto \in Nat /\ from <= upto /\ upto <= Len(stream)
      /\ base \in Nat /\ edge \in Nat /\ steps \in Nat /\ Len(stream) \in Nat
      /\ base <= edge /\ edge <= upto /\ steps <= edge - base
      /\ cuts \subseteq from + 1 .. upto
  BY UnitsOf
<1>2. CASE Read
  <2>1. PICK u \in upto + 1 .. Len(stream) :
          /\ upto' = u /\ pc' = "read_head" /\ UNCHANGED <<stream, from, walkVars, got, harm>>
          /\ \/ cuts' = cuts \cup {u}
             \/ \E m \in upto + 1 .. u : cuts' = (cuts \ {upto}) \cup {m, u}
    BY <1>2 DEF Read
  <2>2. u \in Nat /\ upto < u /\ u <= Len(stream)
    BY <1>1, <2>1
  <2>3. cuts' \subseteq from + 1 .. u /\ u \in cuts'
    <3>1. \A c \in cuts : c \in from + 1 .. u
      BY <1>1, <2>2
    <3>2. \A m \in upto + 1 .. u : m \in from + 1 .. u
      BY <1>1, <2>2
    <3>3. u \in from + 1 .. u
      BY <1>1, <2>2
    <3> QED BY <2>1, <3>1, <3>2, <3>3
  <2>4. from \in 0 .. u /\ edge \in 0 .. u /\ harm \in 0 .. u /\ u \in 0 .. Len(stream)
    BY <1>1, <2>2, UnitsOf
  <2> QED BY <2>1, <2>3, <2>4 DEF walkVars, FramingTypeOK
<1>3. CASE Wait
  BY <1>3 DEF Wait, walkVars, bufVars, FramingTypeOK
<1>4. CASE Take
  <2>1. Length \in Nat /\ Drain(Length) /\ upto' = upto
    BY <1>4, Front DEF Take, Whole
  <2>2. from + HeaderLen \in Nat
    BY <1>1 DEF HeaderLen
  <2>3. got' \in Seq(Nat)
    BY <1>4, <2>2 DEF Take, FramingTypeOK
  <2>4. pc' \in {"idle", "read_head"} /\ UNCHANGED <<stream, walkVars>> /\ harm' \in {harm, upto}
    BY <1>4 DEF Take
  <2> QED BY <1>1, <2>1, <2>3, <2>4, Drains DEF walkVars, FramingTypeOK
<1>5. CASE Oversized
  <2>1. Length \in Nat /\ Drain(Length) /\ upto' = upto
    BY <1>5, Front DEF Oversized, Whole
  <2>2. UNCHANGED <<stream, pc, walkVars, got>> /\ harm' \in {harm, upto}
    BY <1>5 DEF Oversized
  <2> QED BY <1>1, <2>1, <2>2, Drains DEF walkVars, FramingTypeOK
<1>6. CASE Astray
  <2>1. CASE Tagged
    <3>1. Drain(2) /\ upto' = upto /\ pc' = "peek" /\ UNCHANGED <<stream, walkVars, got, harm>>
      BY <1>6, <2>1 DEF Astray
    <3> QED BY <3>1, Drains DEF walkVars, FramingTypeOK
  <2>2. CASE ~ Tagged
    BY <1>6, <2>2 DEF Astray, walkVars, bufVars, FramingTypeOK
  <2> QED BY <2>1, <2>2
<1>7. CASE Peek
  <2>1. CASE Avail = 0
    BY <1>7, <2>1 DEF Peek, walkVars, bufVars, FramingTypeOK
  <2>2. CASE Avail # 0
    <3>1. /\ base' = from /\ steps' = 0 /\ edge' \in cuts /\ dead' = FALSE /\ pc' = "scan"
          /\ UNCHANGED <<stream, bufVars, upto, got, harm>>
      BY <1>7, <2>2 DEF Peek
    <3>2. edge' \in 0 .. upto' /\ base' \in 0 .. edge' /\ steps' \in 0 .. edge' - base'
      <4>1. PICK e \in Nat : e = edge' /\ from < e /\ e <= upto
        BY <1>1, <3>1
      <4>2. \A d, c \in Nat : d < c /\ c <= upto => c \in 0 .. upto /\ d \in 0 .. c /\ 0 \in 0 .. c - d
        BY <1>1
      <4>3. e \in 0 .. upto /\ from \in 0 .. e /\ 0 \in 0 .. e - from
        BY <1>1, <4>1, <4>2
      <4> QED BY <3>1, <4>1, <4>3
    <3> QED BY <3>1, <3>2 DEF bufVars, FramingTypeOK
  <2> QED BY <2>1, <2>2
<1>8. CASE Pass
  BY <1>1, <1>8 DEF Pass, Walking, bufVars, FramingTypeOK
<1>9. CASE FindTag
  <2>1. Drain(steps) /\ upto' = upto /\ pc' = "read_head" /\ UNCHANGED <<stream, walkVars, got, harm>>
    BY <1>9 DEF FindTag
  <2> QED BY <1>1, <2>1, Drains DEF walkVars, FramingTypeOK
<1>10. CASE FindStray
  <2>1. /\ Drain(steps + 1) /\ upto' = upto /\ steps' = steps + 1 /\ steps < edge - base
        /\ UNCHANGED <<stream, pc, base, edge, got>>
    BY <1>10 DEF FindStray, Walking
  <2>2. dead' \in BOOLEAN /\ harm' = upto
    BY <1>10 DEF FindStray, FramingTypeOK
  <2>3. steps' \in 0 .. edge' - base' /\ steps + 1 \in Nat
    BY <1>1, <2>1
  <2> QED BY <1>1, <2>1, <2>2, <2>3, Drains DEF FramingTypeOK
<1>11. CASE FindEnd
  <2>1. Drain(steps) /\ upto' = upto /\ pc' = "idle" /\ UNCHANGED <<stream, walkVars, got, harm>>
    BY <1>11 DEF FindEnd
  <2> QED BY <1>1, <2>1, Drains DEF walkVars, FramingTypeOK
<1>12. CASE NextExtent
  <2>1. Drain(edge - base) /\ upto' = upto /\ pc' = "peek" /\ UNCHANGED <<stream, walkVars, got, harm>>
    BY <1>12 DEF NextExtent
  <2>2. edge - base \in Nat
    BY <1>1
  <2> QED BY <2>1, <2>2, Drains DEF walkVars, FramingTypeOK
<1>13. CASE UNCHANGED framingVars
  BY <1>13 DEF framingVars, walkVars, bufVars, FramingTypeOK
<1> QED BY <1>2, <1>3, <1>4, <1>5, <1>6, <1>7, <1>8, <1>9, <1>10, <1>11, <1>12, <1>13 DEF FramingNext

\* The front moves on over stretches in which no header begins, and over
\* messages that are in the pool or too long.
LEMMA KeptOn ==
  ASSUME FramingTypeOK, Kept, stream' = stream, harm' = harm, NEW f \in Nat, from' = f, from <= f,
         \A n \in DOMAIN got : n \in DOMAIN got' /\ got'[n] = got[n],
         \A p \in DOMAIN stream : stream[p].kind = "rest" /\ p - 2 > harm /\ from < p - 2 =>
           \/ f < p - 2
           \/ /\ p + stream[p].len <= f
              /\ HeaderLen + stream[p].len <= BufferSize => \E n \in DOMAIN got' : got'[n] = p
  PROVE  Kept'
<1> SUFFICES ASSUME NEW p \in DOMAIN stream, stream[p].kind = "rest", p - 2 > harm
             PROVE  \/ f < p - 2
                    \/ /\ p + stream[p].len <= f
                       /\ HeaderLen + stream[p].len <= BufferSize => \E n \in DOMAIN got' : got'[n] = p
    BY DEF Kept
<1>1. p \in Nat /\ stream[p].len \in Nat /\ from \in Nat
  BY UnitsOf
<1>2. CASE from < p - 2
  BY <1>2
<1>3. CASE ~ from < p - 2
  <2>1. /\ p + stream[p].len <= from
        /\ HeaderLen + stream[p].len <= BufferSize => \E n \in DOMAIN got : got[n] = p
    BY <1>3 DEF Kept
  <2>2. p + stream[p].len <= f
    BY <1>1, <2>1
  <2> QED BY <2>1, <2>2
<1> QED BY <1>2, <1>3

\* An accident costs at most what was read by then.
LEMMA KeptAfterHarm ==
  ASSUME FramingTypeOK, stream' = stream, harm' = upto, NEW f \in Nat, from' = f, f <= upto
  PROVE  Kept'
<1> SUFFICES ASSUME NEW p \in DOMAIN stream, p - 2 > upto
             PROVE  f < p - 2
    BY DEF Kept
<1>1. p \in Nat /\ upto \in Nat
  BY UnitsOf
<1> QED BY <1>1

\* What the pool has stays behind the front.
LEMMA GotStays ==
  ASSUME FramingTypeOK, GotBehind, UNCHANGED <<stream, got>>, NEW f \in Nat, from' = f, from <= f
  PROVE  GotBehind'
<1>1. InOrder'
  BY DEF GotBehind, InOrder
<1>2. ASSUME NEW n \in DOMAIN got
      PROVE  got[n] + stream[got[n]].len <= f
  <2>1. got[n] + stream[got[n]].len <= from /\ got[n] \in DOMAIN stream
    BY DEF GotBehind, InOrder
  <2>2. got[n] \in Nat /\ stream[got[n]].len \in Nat /\ from \in Nat
    BY <2>1, UnitsOf
  <2> QED BY <2>1, <2>2
<1> QED BY <1>1, <1>2 DEF GotBehind

\* No header begins in a stretch without 0x7E.
LEMMA NoTagNoHeader ==
  ASSUME FramingTypeOK, NEW f \in Nat, \A k \in from + 1 .. f : stream[k] # Tag7E,
         NEW p \in DOMAIN stream, stream[p].kind = "rest", from < p - 2
  PROVE  f < p - 2
<1>1. stream[p - 2] = Tag7E
  BY DEF FramingTypeOK, WellFormed
<1>2. p \in Nat /\ from \in Nat
  BY UnitsOf
<1> QED BY <1>1, <1>2

\* The walk over an extent, and what it drains when it comes to its end or to a
\* 0x7E, has no header in it.
LEMMA WalkIsClear ==
  ASSUME FramingTypeOK, Searched, harm # upto, pc = "scan",
         NEW p \in DOMAIN stream, stream[p].kind = "rest", from < p - 2
  PROVE  from + steps < p - 2 /\ base = from
<1>1. base = from /\ \A k \in 1 .. steps : stream[base + k] # Tag7E
  BY DEF Searched
<1>2. from \in Nat /\ steps \in Nat /\ from + steps \in Nat
  BY UnitsOf
<1>3. ASSUME NEW k \in from + 1 .. from + steps
      PROVE  stream[k] # Tag7E
  <2>1. k - from \in 1 .. steps /\ from + (k - from) = k
    BY <1>2
  <2> QED BY <1>1, <2>1
<1> QED BY <1>1, <1>2, <1>3, NoTagNoHeader

\* Taking a message, or passing over it, puts the front right behind it.
LEMMA MessageGone ==
  ASSUME FramingTypeOK, Whole, Drain(Length), upto' = upto
  PROVE  LET p == from + HeaderLen IN
           /\ from' = p + stream[p].len /\ p + stream[p].len \in Nat /\ from < p
           /\ p + stream[p].len <= Len(stream)
           /\ p \in DOMAIN stream /\ stream[p].kind \in {"rest", "copy"} /\ stream[p].len \in Nat
           /\ stream[p].kind = "rest" <=> ~ Lured
           /\ Avail = Length => from' = upto
           /\ from' <= upto
           /\ ~ Lured => \A q \in DOMAIN stream : stream[q].kind = "rest" /\ from < q - 2 /\ q # p =>
                           p + stream[p].len < q - 2
<1> DEFINE p == from + HeaderLen
           n == stream[p].len
<1>1. /\ p \in DOMAIN stream /\ stream[p].kind \in {"rest", "copy"} /\ n \in Nat
      /\ stream[p].kind = "rest" <=> ~ Lured
      /\ Length \in Nat /\ Length = HeaderLen + n /\ Length <= Avail /\ p + n <= Len(stream)
  BY Front DEF Whole
<1>2. from' = from + Length /\ (Avail = Length => from' = upto) /\ from' \in 0 .. upto'
  BY <1>1, Drains
<1>3. from \in Nat /\ upto \in Nat
  BY UnitsOf
<1>4. from' = p + n /\ from < p /\ p + n \in Nat /\ p \in Nat
  <2>1. from < p /\ p \in Nat
    BY <1>3 DEF HeaderLen
  <2>2. \A a, b, h \in Nat : a + (h + b) = (a + h) + b
    OBVIOUS
  <2>3. HeaderLen \in Nat
    BY DEF HeaderLen
  <2>4. from + Length = p + n /\ p + n \in Nat
    BY <1>1, <1>3, <2>1, <2>2, <2>3
  <2> QED BY <1>2, <2>1, <2>4
<1>5. ASSUME ~ Lured, NEW q \in DOMAIN stream, stream[q].kind = "rest", from < q - 2, q # p
      PROVE  p + n < q - 2
  <2>1. q \in Nat /\ p < q
    BY <1>3, <1>5, UnitsOf DEF HeaderLen
  <2>2. ~ (p < q /\ q <= p + n + 2)
    BY <1>1, <1>5 DEF FramingTypeOK, WellFormed
  <2> QED BY <1>1, <1>4, <2>1, <2>2
<1> QED BY <1>1, <1>2, <1>4, <1>5

\* A peer that sends nothing but messages always has one of its own at the front.
LEMMA FrontIsOwn ==
  ASSUME FramingTypeOK, Kept, NeverAstray, OwnOnly, Avail >= HeaderLen
  PROVE  Header /\ ~ Lured
<1>1. /\ DOMAIN stream = 1 .. Len(stream) /\ Len(stream) \in Nat
      /\ from \in Nat /\ upto \in Nat /\ upto <= Len(stream) /\ harm = 0
  BY UnitsOf DEF NeverAstray
<1>2. from + 1 \in DOMAIN stream
  BY <1>1 DEF Avail, HeaderLen
<1>3. PICK p \in DOMAIN stream :
        stream[p].kind = "rest" /\ p - 2 <= from + 1 /\ from + 1 <= p + stream[p].len
  BY <1>2 DEF OwnOnly
<1>4. p \in Nat /\ stream[p].len \in Nat /\ p >= 3 /\ stream[p - 2] = Tag7E /\ stream[p - 1] = TagAA
  BY <1>3, UnitsOf DEF FramingTypeOK, WellFormed, HeaderLen
<1>5. from < p - 2
  <2>1. ~ p + stream[p].len <= from
    BY <1>1, <1>3, <1>4
  <2>2. p - 2 > harm
    BY <1>1, <1>4
  <2> QED BY <1>3, <2>1, <2>2 DEF Kept
<1>6. p = from + 3 /\ p - 2 = from + 1 /\ p - 1 = from + 2
  BY <1>1, <1>3, <1>4, <1>5
<1> QED BY <1>1, <1>3, <1>4, <1>6 DEF Header, Tagged, Lured, Avail, HeaderLen

LEMMA CutTakes ==
  ASSUME CutInv, Take
  PROVE  IdleWaits' /\ GotBehind' /\ Kept' /\ Searched' /\ NeverAstray'
<1> DEFINE p == from + HeaderLen
           f == p + stream[p].len
<1>1. /\ Whole /\ Length <= BufferSize /\ Drain(Length) /\ upto' = upto /\ stream' = stream
      /\ pc' = (IF Avail = Length THEN "idle" ELSE "read_head")
      /\ got' = Append(got, p) /\ harm' = (IF Lured THEN upto ELSE harm)
  BY DEF Take
<1>2. /\ from' = f /\ f \in Nat /\ from < p /\ f <= Len(stream) /\ from' <= upto
      /\ p \in DOMAIN stream /\ stream[p].kind \in {"rest", "copy"} /\ stream[p].len \in Nat
      /\ stream[p].kind = "rest" <=> ~ Lured
      /\ Avail = Length => from' = upto
      /\ ~ Lured => \A q \in DOMAIN stream : stream[q].kind = "rest" /\ from < q - 2 /\ q # p => f < q - 2
  BY <1>1, MessageGone DEF CutInv
<1>3. HeaderLen + stream[p].len <= BufferSize /\ (~ Lured => p \in Messages)
  BY <1>1, <1>2 DEF Length, Messages
<1>4. from \in Nat /\ upto \in Nat /\ p \in Nat /\ p = from + 3
  BY <1>2, UnitsOf DEF CutInv, HeaderLen
<1> HIDE DEF f, p
<1>5. /\ Len(got) \in Nat /\ DOMAIN got = 1 .. Len(got) /\ DOMAIN got' = 1 .. Len(got) + 1
      /\ got'[Len(got) + 1] = p /\ \A n \in DOMAIN got : got'[n] = got[n]
  <2>1. got \in Seq(Nat)
    BY DEF CutInv, FramingTypeOK
  <2> QED BY <1>1, <1>4, <2>1
<1>6. IdleWaits'
  <2>1. pc' = "idle" => from' = upto'
    BY <1>1, <1>2
  <2> QED BY <1>1, <1>4, <2>1 DEF IdleWaits, Avail, HeaderLen
<1>7. GotBehind'
  <2>1. ASSUME NEW n \in DOMAIN got
        PROVE  got[n] + stream[got[n]].len < p - 2 /\ got[n] + stream[got[n]].len <= f
    <3>1. got[n] \in DOMAIN stream /\ got[n] + stream[got[n]].len <= from
      BY DEF CutInv, GotBehind, InOrder
    <3>2. got[n] \in Nat /\ stream[got[n]].len \in Nat
      BY <3>1, UnitsOf DEF CutInv
    <3>3. from <= f
      BY <1>2, <1>4 DEF f
    <3> QED BY <1>2, <1>4, <3>1, <3>2, <3>3
  <2>2. ASSUME NEW n \in DOMAIN got'
        PROVE  /\ got'[n] \in DOMAIN stream /\ stream[got'[n]].kind \in {"rest", "copy"}
               /\ got'[n] + stream[got'[n]].len <= Len(stream)
               /\ HeaderLen + stream[got'[n]].len <= BufferSize
               /\ got'[n] + stream[got'[n]].len <= f
    <3>1. CASE n \in DOMAIN got
      BY <1>5, <2>1, <3>1 DEF CutInv, GotBehind, InOrder
    <3>2. CASE n = Len(got) + 1
      BY <1>2, <1>3, <1>5, <3>2 DEF f
    <3> QED BY <1>5, <3>1, <3>2
  <2>3. ASSUME NEW m \in DOMAIN got', NEW n \in DOMAIN got', m < n
        PROVE  got'[m] + stream[got'[m]].len < got'[n] - 2
    <3>1. m \in DOMAIN got
      BY <1>5, <2>3
    <3>2. CASE n \in DOMAIN got
      BY <1>5, <2>3, <3>1, <3>2 DEF CutInv, GotBehind, InOrder
    <3>3. CASE n = Len(got) + 1
      BY <1>5, <2>1, <3>1, <3>3
    <3> QED BY <1>5, <3>2, <3>3
  <2> QED BY <1>1, <1>2, <2>2, <2>3 DEF GotBehind, InOrder
<1>8. Kept'
  <2>1. CASE Lured
    BY <1>1, <1>2, <2>1, KeptAfterHarm DEF CutInv
  <2>2. CASE ~ Lured
    <3>1. \A n \in DOMAIN got : n \in DOMAIN got' /\ got'[n] = got[n]
      BY <1>5
    <3>2. Len(got) + 1 \in DOMAIN got' /\ p + stream[p].len <= f /\ from <= f
      BY <1>2, <1>4, <1>5 DEF f
    <3>3. \A q \in DOMAIN stream : stream[q].kind = "rest" /\ q - 2 > harm /\ from < q - 2 =>
            \/ f < q - 2
            \/ /\ q + stream[q].len <= f
               /\ HeaderLen + stream[q].len <= BufferSize => \E n \in DOMAIN got' : got'[n] = q
      BY <1>2, <1>5, <2>2, <3>2
    <3> QED BY <1>1, <1>2, <2>2, <3>1, <3>2, <3>3, KeptOn DEF CutInv
  <2> QED BY <2>1, <2>2
<1>9. Searched'
  BY <1>1 DEF Searched
<1>10. NeverAstray'
  <2> SUFFICES ASSUME OwnOnly
               PROVE  harm' = 0 /\ \A n \in DOMAIN got' : got'[n] \in Messages
      BY <1>1 DEF NeverAstray, OwnOnly, Messages
  <2>1. ~ Lured
    BY <1>1, FrontIsOwn DEF CutInv, Whole, Header
  <2> QED BY <1>1, <1>3, <1>5, <2>1 DEF CutInv, NeverAstray
<1> QED BY <1>6, <1>7, <1>8, <1>9, <1>10

LEMMA CutPassesOver ==
  ASSUME CutInv, Oversized
  PROVE  IdleWaits' /\ GotBehind' /\ Kept' /\ Searched' /\ NeverAstray'
<1> DEFINE p == from + HeaderLen
           f == p + stream[p].len
<1>1. /\ Whole /\ Length > BufferSize /\ Drain(Length) /\ pc = "read_head"
      /\ UNCHANGED <<stream, upto, pc, got>> /\ harm' = (IF Lured THEN upto ELSE harm)
  BY DEF Oversized
<1>2. /\ from' = f /\ f \in Nat /\ from < p /\ from' <= upto
      /\ p \in DOMAIN stream /\ stream[p].len \in Nat
      /\ ~ Lured => \A q \in DOMAIN stream : stream[q].kind = "rest" /\ from < q - 2 /\ q # p => f < q - 2
  BY <1>1, MessageGone DEF CutInv
<1>3. ~ HeaderLen + stream[p].len <= BufferSize
  BY <1>1, <1>2, FramingAssumption DEF Length, HeaderLen
<1> HIDE DEF p
<1>4. from <= f /\ p + stream[p].len <= f
  <2>1. from \in Nat /\ p \in Nat
    BY <1>2, UnitsOf DEF CutInv
  <2> QED BY <1>2, <2>1
<1> HIDE DEF f
<1>5. GotBehind'
  BY <1>1, <1>2, <1>4, GotStays DEF CutInv
<1>6. Kept'
  <2>1. CASE Lured
    BY <1>1, <1>2, <2>1, KeptAfterHarm DEF CutInv
  <2>2. CASE ~ Lured
    <3>1. \A q \in DOMAIN stream : stream[q].kind = "rest" /\ q - 2 > harm /\ from < q - 2 =>
            \/ f < q - 2
            \/ /\ q + stream[q].len <= f
               /\ HeaderLen + stream[q].len <= BufferSize => \E n \in DOMAIN got' : got'[n] = q
      BY <1>2, <1>3, <1>4, <2>2
    <3> QED BY <1>1, <1>2, <1>4, <2>2, <3>1, KeptOn DEF CutInv
  <2> QED BY <2>1, <2>2
<1>7. NeverAstray'
  <2> SUFFICES ASSUME OwnOnly PROVE harm' = 0
      BY <1>1 DEF CutInv, NeverAstray, OwnOnly, Messages
  <2>1. ~ Lured
    BY <1>1, FrontIsOwn DEF CutInv, Whole, Header
  <2> QED BY <1>1, <2>1 DEF CutInv, NeverAstray
<1> QED BY <1>1, <1>5, <1>6, <1>7 DEF IdleWaits, Searched

LEMMA CutGoesAstray ==
  ASSUME CutInv, Astray
  PROVE  IdleWaits' /\ GotBehind' /\ Kept' /\ Searched' /\ NeverAstray'
<1>1. /\ Avail >= HeaderLen /\ ~ Header /\ pc' = "peek"
      /\ UNCHANGED <<stream, upto, got, harm>>
      /\ IF Tagged THEN Drain(2) ELSE from' = from
  BY DEF Astray, bufVars
<1>2. from \in Nat /\ upto \in Nat
  BY UnitsOf DEF CutInv
<1>3. PICK f \in Nat : from' = f /\ from <= f /\ f = (IF Tagged THEN from + 2 ELSE from)
  <2>1. Tagged => from' = from + 2
    BY <1>1, <1>2, Drains DEF CutInv, Avail, HeaderLen
  <2> QED BY <1>1, <1>2, <2>1
<1>4. ASSUME NEW p \in DOMAIN stream, stream[p].kind = "rest", from < p - 2
      PROVE  f < p - 2
  <2>1. p \in Nat /\ stream[p - 2] = Tag7E
    BY <1>4, UnitsOf DEF CutInv, FramingTypeOK, WellFormed
  <2>2. CASE Tagged
    <3>1. stream[from + 2] = TagAA /\ TagAA # Tag7E
      BY <2>2 DEF Tagged, Tag7E, TagAA, Byte
    <3>2. p - 2 # from + 2
      BY <2>1, <3>1
    <3>3. p # from + HeaderLen
      BY <1>1, <1>4, <2>2 DEF Header
    <3> QED BY <1>2, <1>3, <1>4, <2>1, <2>2, <3>2, <3>3 DEF HeaderLen
  <2>3. CASE ~ Tagged
    BY <1>3, <1>4, <2>3
  <2> QED BY <2>2, <2>3
<1>5. GotBehind'
  BY <1>1, <1>3, GotStays DEF CutInv
<1>6. Kept'
  BY <1>1, <1>3, <1>4, KeptOn DEF CutInv
<1>7. ~ OwnOnly
  BY <1>1, FrontIsOwn DEF CutInv
<1> QED BY <1>1, <1>5, <1>6, <1>7 DEF IdleWaits, Searched, NeverAstray, OwnOnly

\* A step that drains nothing and gives nothing to the pool.
LEMMA CutStandsStill ==
  ASSUME CutInv, UNCHANGED <<stream, from, got, harm>>
  PROVE  GotBehind' /\ Kept'
BY DEF CutInv, GotBehind, InOrder, Kept

\* Where the reader is not searching, nothing is astray that was not before.
LEMMA CutKeepsOn ==
  ASSUME CutInv, UNCHANGED <<stream, got, harm>>, pc' \in {"idle", "read_head"} \/ pc = "scan" \/ pc = "peek"
  PROVE  NeverAstray'
<1>1. OwnOnly' = OwnOnly /\ Messages' = Messages
  BY DEF OwnOnly, Messages
<1> QED BY <1>1 DEF CutInv, NeverAstray

LEMMA CutWaits ==
  ASSUME CutInv, Read \/ Wait
  PROVE  IdleWaits' /\ GotBehind' /\ Kept' /\ Searched' /\ NeverAstray'
<1>1. UNCHANGED <<stream, from, got, harm>> /\ pc' \in {"idle", "read_head"}
  BY DEF Read, Wait, bufVars
<1>2. GotBehind' /\ Kept' /\ Searched' /\ NeverAstray'
  BY <1>1, CutStandsStill, CutKeepsOn DEF Searched
<1>3. CASE Read
  BY <1>2, <1>3 DEF Read, IdleWaits
<1>4. CASE Wait
  <2>1. Avail' = Avail /\ Header' = Header /\ Whole' = Whole
    BY <1>4, Still DEF Wait, bufVars
  <2> QED BY <1>2, <1>4, <2>1 DEF Wait, IdleWaits
<1> QED BY <1>3, <1>4

LEMMA CutWalks ==
  ASSUME CutInv, Peek \/ Pass
  PROVE  IdleWaits' /\ GotBehind' /\ Kept' /\ Searched' /\ NeverAstray'
<1>1. UNCHANGED <<stream, from, cuts, upto, got, harm>> /\ pc \in {"peek", "scan"}
  BY DEF Peek, Pass, Walking, bufVars
<1>2. GotBehind' /\ Kept' /\ NeverAstray'
  BY <1>1, CutStandsStill, CutKeepsOn
<1>3. CASE Peek
  <2>1. CASE Avail = 0
    <3>1. pc' = "idle" /\ Avail' = 0
      BY <1>1, <1>3, <2>1, Still DEF Peek
    <3> QED BY <1>2, <3>1 DEF IdleWaits, Searched, HeaderLen
  <2>2. CASE Avail # 0
    <3>1. /\ pc' = "scan" /\ base' = from' /\ steps' = 0 /\ ~ dead'
          /\ edge' \in cuts' /\ \A c \in cuts' : edge' <= c
      BY <1>1, <1>3, <2>2 DEF Peek
    <3> QED BY <1>2, <3>1 DEF IdleWaits, Searched
  <2> QED BY <2>1, <2>2
<1>4. CASE Pass
  <2>1. /\ pc = "scan" /\ pc' = "scan" /\ Looks7E(FALSE) /\ steps' = steps + 1
        /\ UNCHANGED <<base, edge, dead>>
    BY <1>4 DEF Pass, Walking
  <2>2. steps \in Nat
    BY UnitsOf DEF CutInv
  <2>3. ASSUME harm # upto
        PROVE  /\ ~ dead /\ base = from /\ \A k \in 1 .. steps + 1 : stream[base + k] # Tag7E
               /\ edge \in cuts /\ \A c \in cuts : edge <= c
    <3>1. /\ ~ dead /\ base = from /\ \A k \in 1 .. steps : stream[base + k] # Tag7E
          /\ edge \in cuts /\ \A c \in cuts : edge <= c
      BY <2>1, <2>3 DEF CutInv, Searched
    <3>2. stream[base + steps + 1] # Tag7E
      BY <2>1, <3>1 DEF Looks7E
    <3>3. base \in Nat
      BY UnitsOf DEF CutInv
    <3>4. ASSUME NEW k \in 1 .. steps + 1
          PROVE  stream[base + k] # Tag7E
      <4>1. k \in 1 .. steps \/ (k = steps + 1 /\ base + k = base + steps + 1)
        BY <2>2, <3>3
      <4> QED BY <3>1, <3>2, <4>1
    <3> QED BY <3>1, <3>4
  <2>4. Searched'
    BY <1>1, <2>1, <2>3 DEF Searched
  <2> QED BY <1>2, <2>1, <2>4 DEF IdleWaits
<1> QED BY <1>3, <1>4

\* The walk ends: at a tag, at the end of the evbuffer, or of the extent.
LEMMA CutEndsWalk ==
  ASSUME CutInv, FindTag \/ FindEnd \/ NextExtent
  PROVE  IdleWaits' /\ GotBehind' /\ Kept' /\ Searched' /\ NeverAstray'
<1> DEFINE n == IF NextExtent THEN edge - base ELSE steps
<1>1. /\ from \in Nat /\ upto \in Nat /\ from <= upto /\ steps \in Nat
      /\ base \in Nat /\ edge \in Nat /\ base <= edge /\ edge <= upto
  BY UnitsOf DEF CutInv
<1>2. /\ pc = "scan" /\ pc' # "scan" /\ Drain(n) /\ n = steps /\ n \in Nat
      /\ UNCHANGED <<stream, upto, got, harm>>
  <2>1. CASE NextExtent
    BY <1>1, <2>1 DEF NextExtent
  <2>2. CASE ~ NextExtent
    BY <1>1, <2>2 DEF FindTag, FindEnd, Walking
  <2> QED BY <2>1, <2>2
<1> HIDE DEF n
<1>3. PICK f \in Nat : from' = f /\ from <= f /\ f <= from + steps /\ f <= upto
                       /\ (n >= Avail => f = upto)
  <2>1. /\ from' \in 0 .. upto' /\ from <= from'
        /\ n <= Avail => from' = from + n
        /\ n >= Avail => from' = upto
    BY <1>2, Drains DEF CutInv
  <2>2. n <= Avail \/ (n >= Avail /\ upto <= from + n)
    BY <1>1, <1>2 DEF Avail
  <2> QED BY <1>1, <1>2, <2>1, <2>2
<1>4. GotBehind'
  BY <1>2, <1>3, GotStays DEF CutInv
<1>5. Kept'
  <2>1. CASE harm = upto
    BY <1>2, <1>3, <2>1, KeptAfterHarm DEF CutInv
  <2>2. CASE harm # upto
    <3>1. ASSUME NEW p \in DOMAIN stream, stream[p].kind = "rest", from < p - 2
          PROVE  f < p - 2
      <4>1. from + steps < p - 2
        BY <1>2, <2>2, <3>1, WalkIsClear DEF CutInv
      <4>2. p \in Nat
        BY UnitsOf DEF CutInv
      <4> QED BY <1>1, <1>3, <4>1, <4>2
    <3> QED BY <1>2, <1>3, <3>1, KeptOn DEF CutInv
  <2> QED BY <2>1, <2>2
<1>6. IdleWaits'
  <2>1. pc' = "idle" => FindEnd
    BY DEF FindTag, NextExtent
  <2>2. FindEnd => steps >= Avail
    BY DEF FindEnd
  <2>3. pc' = "idle" => from' = upto'
    BY <1>2, <1>3, <2>1, <2>2
  <2> QED BY <1>1, <1>2, <2>3 DEF IdleWaits, Avail, HeaderLen
<1>7. NeverAstray'
  BY <1>2, CutKeepsOn
<1> QED BY <1>2, <1>4, <1>5, <1>6, <1>7 DEF Searched

LEMMA CutStrays ==
  ASSUME CutInv, FindStray
  PROVE  IdleWaits' /\ GotBehind' /\ Kept' /\ Searched' /\ NeverAstray'
<1>1. /\ Drain(steps + 1) /\ UNCHANGED <<stream, upto, pc, got>> /\ pc = "scan" /\ harm' = upto
  BY DEF FindStray, Walking
<1>2. steps + 1 \in Nat /\ upto \in Nat
  BY UnitsOf DEF CutInv
<1>3. PICK f \in Nat : from' = f /\ from <= f /\ f <= upto
  BY <1>1, <1>2, Drains DEF CutInv
<1>4. GotBehind'
  BY <1>1, <1>3, GotStays DEF CutInv
<1>5. Kept'
  BY <1>1, <1>3, KeptAfterHarm DEF CutInv
<1>6. ~ OwnOnly
  BY <1>1 DEF CutInv, NeverAstray
<1> QED BY <1>1, <1>4, <1>5, <1>6 DEF IdleWaits, Searched, NeverAstray, OwnOnly

LEMMA CutStep == CutInv /\ [FramingNext]_framingVars => CutInv'
<1> SUFFICES ASSUME CutInv, [FramingNext]_framingVars PROVE CutInv'
    OBVIOUS
<1>1. FramingTypeOK'
  BY FramingStepTypes DEF CutInv
<1>2. CASE FramingNext
  <2>1. IdleWaits' /\ GotBehind' /\ Kept' /\ Searched' /\ NeverAstray'
    BY <1>2, CutTakes, CutPassesOver, CutGoesAstray, CutWaits, CutWalks, CutEndsWalk, CutStrays
       DEF FramingNext
  <2> QED BY <1>1, <2>1 DEF CutInv
<1>3. CASE UNCHANGED framingVars
  <2>1. UNCHANGED <<stream, from, cuts, upto, got, pc, base, edge, steps, dead, harm>>
    BY <1>3 DEF framingVars, bufVars, walkVars
  <2>2. GotBehind' /\ Kept'
    BY <2>1, CutStandsStill
  <2>3. IdleWaits'
    BY <2>1, Still DEF CutInv, IdleWaits
  <2>4. Searched'
    BY <2>1 DEF CutInv, Searched
  <2>5. NeverAstray'
    BY <2>1 DEF CutInv, NeverAstray, OwnOnly, Messages
  <2> QED BY <1>1, <2>2, <2>3, <2>4, <2>5 DEF CutInv
<1> QED BY <1>2, <1>3

LEMMA CutInit == FramingInit => CutInv
<1> SUFFICES ASSUME FramingInit PROVE CutInv
    OBVIOUS
<1>1. FramingTypeOK
  BY FramingTypes
<1>2. from = 0 /\ upto = 0 /\ pc = "idle" /\ got = <<>> /\ harm = 0
  BY DEF FramingInit
<1>3. IdleWaits /\ GotBehind /\ Searched /\ NeverAstray
  BY <1>2 DEF IdleWaits, GotBehind, InOrder, Searched, NeverAstray, Avail, HeaderLen
<1>4. ASSUME NEW p \in DOMAIN stream, stream[p].kind = "rest"
      PROVE  from < p - 2
  <2>1. p \in Nat /\ p >= HeaderLen
    BY <1>1, <1>4, UnitsOf DEF FramingTypeOK, WellFormed
  <2> QED BY <1>2, <2>1 DEF HeaderLen
<1> QED BY <1>1, <1>3, <1>4 DEF CutInv, Kept

LEMMA CutAlways == FramingSafety => []CutInv
BY CutInit, CutStep, PTL DEF FramingSafety

\* handle_head, for every stream and however it is cut: until the search for a tag
\* passes over a 0x7E, the bytes it looks at are bytes of the first extent of the
\* evbuffer, and memory that is still the evbuffer's.
THEOREM ReaderStaysInside == FramingSafety => []InsideExtent
<1>1. ASSUME CutInv, Walking, harm # upto
      PROVE  /\ ~ dead
             /\ {base + steps + 1, AAPlace(from + steps)} \subseteq from + 1 .. edge
             /\ edge \in cuts /\ \A c \in cuts : edge <= c
  <2>1. /\ ~ dead /\ base = from /\ edge \in cuts /\ (\A c \in cuts : edge <= c)
        /\ steps < edge - base
    BY <1>1 DEF CutInv, Searched, Walking
  <2>2. from \in Nat /\ edge \in Nat /\ steps \in Nat
    BY <1>1, UnitsOf DEF CutInv
  <2>3. AAPlace(from + steps) \in from + 1 .. edge
    <3>1. CASE steps = edge - base - 1
      <4>1. AAPlace(from + steps) = from + steps + 1
        BY <3>1 DEF AAPlace
      <4> QED BY <2>1, <2>2, <4>1
    <3>2. CASE steps # edge - base - 1
      <4>1. AAPlace(from + steps) = from + steps + 2
        BY <3>2 DEF AAPlace
      <4> QED BY <2>1, <2>2, <3>2, <4>1
    <3> QED BY <3>1, <3>2
  <2> QED BY <2>1, <2>2, <2>3
<1>2. CutInv => InsideExtent
  BY <1>1 DEF InsideExtent
<1> QED BY <1>2, CutAlways, PTL

\* For every stream, whatever its payloads hold, and however it is cut: every
\* message that was not yet begun at the last accident reaches the pool, once, in
\* order and as soon as it is there; and a peer that sends nothing but messages
\* meets with no accident.
THEOREM EveryMessageDelivered == FramingSafety => []MessagesDelivered
<1>1. ASSUME CutInv, pc = "idle", upto = Len(stream), ~ Lured, NEW p \in Messages, p - 2 > harm
      PROVE  \E n \in DOMAIN got : got[n] = p
  <2>1. /\ p \in DOMAIN stream /\ stream[p].kind = "rest" /\ p + stream[p].len <= upto
        /\ HeaderLen + stream[p].len <= BufferSize
    BY <1>1 DEF Messages
  <2>2. /\ p \in Nat /\ stream[p].len \in Nat /\ from \in Nat /\ upto \in Nat
        /\ DOMAIN stream = 1 .. Len(stream)
    BY <1>1, <2>1, UnitsOf DEF CutInv
  <2>3. ~ from < p - 2
    <3>1. SUFFICES ASSUME from < p - 2 PROVE FALSE
      OBVIOUS
    <3>2. Avail >= HeaderLen
      BY <2>1, <2>2, <3>1 DEF Avail, HeaderLen
    <3>3. Header /\ ~ Whole
      BY <1>1, <2>2, <3>2 DEF CutInv, IdleWaits, Avail, HeaderLen
    <3> DEFINE q == from + HeaderLen
    <3>4. /\ q \in DOMAIN stream /\ stream[q].kind = "rest" /\ stream[q].len \in Nat
          /\ Length = HeaderLen + stream[q].len
      BY <1>1, <3>3, Front DEF CutInv
    <3>5. upto < q + stream[q].len
      BY <2>2, <3>3, <3>4 DEF Whole, Avail, HeaderLen
    <3>6. p # q
      BY <2>1, <2>2, <3>5
    <3>7. q < p /\ p <= q + stream[q].len + 2
      <4>1. q \in Nat /\ q = from + 3
        BY <2>2 DEF HeaderLen
      <4>2. \A a, b, f, m, u, k \in Nat :
              f < b - 2 /\ a = f + 3 /\ b + m <= u /\ u < a + k /\ b # a
                => a < b /\ b <= a + k + 2
        OBVIOUS
      <4> HIDE DEF q
      <4> QED BY <2>1, <2>2, <3>1, <3>4, <3>5, <3>6, <4>1, <4>2
    <3> QED BY <1>1, <2>1, <3>4, <3>7 DEF CutInv, FramingTypeOK, WellFormed
  <2> QED BY <1>1, <2>1, <2>3 DEF CutInv, Kept
<1>2. ASSUME CutInv PROVE NoMessageWaits
  <2>1. Whole => Header /\ ~ Avail < HeaderLen
    <3>1. from \in Nat /\ upto \in Nat
      BY <1>2, UnitsOf DEF CutInv
    <3> QED BY <3>1 DEF Whole, Header, Avail, HeaderLen
  <2> QED BY <1>2, <2>1 DEF CutInv, IdleWaits, NoMessageWaits
<1>3. CutInv => Unharmed
  BY DEF CutInv, NeverAstray, OwnOnly, Unharmed
<1>4. CutInv => MessagesDelivered
  BY <1>1, <1>2, <1>3 DEF MessagesDelivered, NothingLost, CutInv, GotBehind
<1> QED BY <1>4, CutAlways, PTL

-----------------------------------------------------------------------------
(* ResponseQueue.                                                          *)

USE QueueAssumption DEF QueueAssumption

\* The sender has an answer in hand exactly while it is inside send(), and an
\* answer in the queue or in its hand knows its socket.
InHand ==
  /\ sending # NoAnswer <=> sendPc = "send"
  /\ \A a \in added : dest[a] \in Peers
  /\ \A i \in 1 .. Len(queue) : queue[i] \in added

IInv == TypeOK /\ InHand /\ NoSleepOnAnswers /\ AnswersAccounted

-----------------------------------------------------------------------------
\* Taking the first of a sequence leaves the others, one place further down.
LEMMA TailOf ==
  ASSUME NEW S, NEW q \in Seq(S), q # <<>>
  PROVE  /\ Head(q) \in S /\ Head(q) = q[1] /\ 1 \in 1 .. Len(q)
         /\ Tail(q) \in Seq(S)
         /\ Len(Tail(q)) = Len(q) - 1 /\ Len(q) \in Nat
         /\ \A i \in 1 .. Len(Tail(q)) : Tail(q)[i] = q[i + 1] /\ i + 1 \in 1 .. Len(q)
  OBVIOUS

LEMMA AppendTo ==
  ASSUME NEW S, NEW q \in Seq(S), NEW e \in S
  PROVE  /\ Append(q, e) \in Seq(S)
         /\ Len(Append(q, e)) = Len(q) + 1 /\ Len(q) \in Nat
         /\ \A i \in 1 .. Len(q) : Append(q, e)[i] = q[i]
         /\ Append(q, e)[Len(q) + 1] = e
  OBVIOUS

-----------------------------------------------------------------------------
(* Types.                                                                  *)

LEMMA InitType == Init => TypeOK /\ InHand
<1> SUFFICES ASSUME Init PROVE TypeOK /\ InHand
    OBVIOUS
<1>1. TypeOK
  <2>1. queue \in Seq(Answers)
    BY DEF Init
  <2>2. dest \in [Answers -> Peers \cup {NoPeer}] /\ space \in [Peers -> 0 .. Room]
    BY DEF Init
  <2>3. sending = NoAnswer /\ pos \in 0 .. Size
    BY DEF Init
  <2> QED BY <2>1, <2>2, <2>3 DEF Init, TypeOK, SendPcs
<1>2. InHand
  BY DEF Init, InHand
<1> QED BY <1>1, <1>2

LEMMA NextType == TypeOK /\ InHand /\ [Next]_vars => TypeOK' /\ InHand'
<1> SUFFICES ASSUME TypeOK, InHand, [Next]_vars
             PROVE  TypeOK' /\ InHand'
    OBVIOUS
<1> USE DEF TypeOK, InHand, SendPcs, Signalled, queueVars, sendVars, peerVars, stopVars
<1>1. CASE Create
  BY <1>1 DEF Create
<1>2. ASSUME NEW a \in Answers, NEW p \in Peers, AddResponse(a, p)
      PROVE  TypeOK' /\ InHand'
  <2>1. /\ queue' = Append(queue, a) /\ queue' \in Seq(Answers)
        /\ \A i \in 1 .. Len(queue') :
             queue'[i] = a \/ (i \in 1 .. Len(queue) /\ queue'[i] = queue[i])
    BY <1>2, AppendTo DEF AddResponse
  <2>2. dest' \in [Answers -> Peers \cup {NoPeer}] /\ dest'[a] = p
        /\ \A b \in Answers : b # a => dest'[b] = dest[b]
    BY <1>2 DEF AddResponse
  <2>3. sending # NoAnswer => dest'[sending] \in Peers
    BY <2>2
  <2>4. TypeOK'
    BY <1>2, <2>1, <2>2, <2>3 DEF AddResponse
  <2>5. \A b \in added' : dest'[b] \in Peers
    BY <1>2, <2>2 DEF AddResponse
  <2>6. \A i \in 1 .. Len(queue') : queue'[i] \in added'
    BY <1>2, <2>1 DEF AddResponse
  <2>7. sending' # NoAnswer <=> sendPc' = "send"
    BY <1>2 DEF AddResponse
  <2> QED BY <2>4, <2>5, <2>6, <2>7
<1>3. CASE CheckFlag
  BY <1>3 DEF CheckFlag
<1>4. CASE TakeAnswer
  <2>1. /\ Head(queue) \in added /\ Head(queue) \in Answers
        /\ Tail(queue) \in Seq(Answers)
        /\ \A i \in 1 .. Len(Tail(queue)) : Tail(queue)[i] \in added
    BY <1>4, TailOf DEF TakeAnswer
  <2> QED BY <1>4, <2>1 DEF TakeAnswer
<1>5. CASE Sleep
  BY <1>5 DEF Sleep
<1>6. CASE WakeUp \/ WakeSpuriously
  BY <1>6 DEF WakeUp, WakeSpuriously
<1>7. ASSUME NEW k \in 1 .. Size, SendSome(k) PROVE TypeOK' /\ InHand'
  <2>1. sending \in Answers /\ dest[sending] \in Peers
    BY <1>7 DEF SendSome
  <2>2. /\ space' \in [Peers -> 0 .. Room]
        /\ UNCHANGED <<queueVars, dropped, hung, reset, stopVars, missed>>
    BY <1>7, <2>1 DEF SendSome
  <2>3. CASE pos + k < Size
    BY <1>7, <2>1, <2>2, <2>3 DEF SendSome
  <2>4. CASE ~(pos + k < Size)
    BY <1>7, <2>1, <2>2, <2>4 DEF SendSome
  <2> QED BY <2>3, <2>4
<1>8. CASE GiveUp
  BY <1>8 DEF GiveUp
<1>9. ASSUME NEW p \in Peers, PeerReads(p) \/ PeerHangs(p) \/ PeerResets(p)
      PROVE  TypeOK' /\ InHand'
  BY <1>9 DEF PeerReads, PeerHangs, PeerResets
<1>10. CASE StopBegins \/ StopSender
  BY <1>10 DEF StopBegins, StopSender, ClearFlag, SignalResponse, Join
<1>11. CASE UNCHANGED vars
  BY <1>11 DEF vars
<1> HIDE DEF TypeOK, InHand
<1> QED BY <1>1, <1>2, <1>3, <1>4, <1>5, <1>6, <1>7, <1>8, <1>9, <1>10, <1>11
        DEF Next, Run, PbTaskSend

\* Every reachable state is well typed: the sender never runs past the end of an
\* answer and never sends one without a socket.
THEOREM TypeCorrect == SafetySpec => []TypeOK
<1>1. SafetySpec => [](TypeOK /\ InHand)
  BY InitType, NextType, PTL DEF SafetySpec
<1> QED BY <1>1, PTL

-----------------------------------------------------------------------------
(* Sleeping.                                                               *)

LEMMA NextAwake == TypeOK /\ NoSleepOnAnswers /\ [Next]_vars => NoSleepOnAnswers'
<1> SUFFICES ASSUME TypeOK, NoSleepOnAnswers, [Next]_vars
             PROVE  NoSleepOnAnswers'
    OBVIOUS
<1> USE DEF NoSleepOnAnswers, Signalled, queueVars, sendVars, peerVars, stopVars
<1>1. ASSUME NEW a \in Answers, NEW p \in Peers, AddResponse(a, p)
      PROVE  NoSleepOnAnswers'
  BY <1>1 DEF AddResponse
<1>2. CASE Run \/ Create \/ WakeSpuriously
  BY <1>2 DEF Run, Create, WakeSpuriously, CheckFlag, TakeAnswer, Sleep, WakeUp,
     PbTaskSend, SendSome, GiveUp
<1>3. ASSUME NEW p \in Peers, PeerReads(p) \/ PeerHangs(p) \/ PeerResets(p)
      PROVE  NoSleepOnAnswers'
  BY <1>3 DEF PeerReads, PeerHangs, PeerResets
<1>4. CASE StopBegins \/ StopSender
  BY <1>4 DEF StopBegins, StopSender, ClearFlag, SignalResponse, Join
<1>5. CASE UNCHANGED vars
  BY <1>5 DEF vars
<1> QED BY <1>1, <1>2, <1>3, <1>4, <1>5 DEF Next

\* No wake-up is lost on the way back.
THEOREM AwakeForAnswers == SafetySpec => []NoSleepOnAnswers
<1>1. Init => NoSleepOnAnswers
  BY DEF Init, NoSleepOnAnswers
<1>2. SafetySpec => [](TypeOK /\ InHand /\ NoSleepOnAnswers)
  BY <1>1, InitType, NextType, NextAwake, PTL DEF SafetySpec
<1> QED BY <1>2, PTL

-----------------------------------------------------------------------------
(* Where the answers are.                                                  *)

\* What is in the queue after an answer left it, and after one came.
LEMMA QueueAfterTake ==
  ASSUME TypeOK, AnswersAccounted, TakeAnswer
  PROVE  /\ \A a : InQueue(a)' <=> (InQueue(a) /\ a # Head(queue))
         /\ \A i, j \in 1 .. Len(queue') : queue'[i] = queue'[j] => i = j
<1>1. /\ queue \in Seq(Answers) /\ queue # <<>> /\ queue' = Tail(queue)
      /\ \A i, j \in 1 .. Len(queue) : queue[i] = queue[j] => i = j
  BY DEF TakeAnswer, TypeOK, AnswersAccounted
<1>2. /\ Head(queue) = queue[1] /\ 1 \in 1 .. Len(queue)
      /\ Len(Tail(queue)) = Len(queue) - 1 /\ Len(queue) \in Nat
      /\ \A i \in 1 .. Len(Tail(queue)) :
           Tail(queue)[i] = queue[i + 1] /\ i + 1 \in 1 .. Len(queue)
  BY <1>1, TailOf
<1>3. ASSUME NEW a, InQueue(a)' PROVE InQueue(a) /\ a # Head(queue)
  <2>1. PICK i \in 1 .. Len(Tail(queue)) : Tail(queue)[i] = a
    BY <1>1, <1>3 DEF InQueue
  <2>2. queue[i + 1] = a /\ i + 1 \in 1 .. Len(queue) /\ i + 1 # 1
    BY <1>2, <2>1
  <2> QED BY <1>1, <1>2, <2>2 DEF InQueue
<1>4. ASSUME NEW a, InQueue(a), a # Head(queue) PROVE InQueue(a)'
  <2>1. PICK i \in 1 .. Len(queue) : queue[i] = a
    BY <1>4 DEF InQueue
  <2>2. i # 1
    BY <1>2, <1>4, <2>1
  <2>3. i - 1 \in 1 .. Len(Tail(queue)) /\ Tail(queue)[i - 1] = a
    BY <1>2, <2>1, <2>2
  <2> QED BY <1>1, <2>3 DEF InQueue
<1>5. ASSUME NEW i \in 1 .. Len(queue'), NEW j \in 1 .. Len(queue'),
             queue'[i] = queue'[j]
      PROVE  i = j
  <2>1. i + 1 = j + 1
    BY <1>1, <1>2, <1>5
  <2> QED BY <2>1
<1> QED BY <1>3, <1>4, <1>5

LEMMA QueueAfterAdd ==
  ASSUME TypeOK, AnswersAccounted, NEW b \in Answers, NEW p \in Peers, AddResponse(b, p)
  PROVE  /\ \A a : InQueue(a)' <=> (InQueue(a) \/ a = b)
         /\ \A i, j \in 1 .. Len(queue') : queue'[i] = queue'[j] => i = j
<1>1. /\ queue \in Seq(Answers) /\ queue' = Append(queue, b) /\ b \notin added
      /\ \A i, j \in 1 .. Len(queue) : queue[i] = queue[j] => i = j
      /\ \A i \in 1 .. Len(queue) : queue[i] \in added
  BY DEF AddResponse, TypeOK, AnswersAccounted
<1>2. /\ Len(Append(queue, b)) = Len(queue) + 1 /\ Len(queue) \in Nat
      /\ \A i \in 1 .. Len(queue) : Append(queue, b)[i] = queue[i]
      /\ Append(queue, b)[Len(queue) + 1] = b
  BY <1>1, AppendTo
<1>3. \A i \in 1 .. Len(queue') : \/ i \in 1 .. Len(queue) /\ queue'[i] = queue[i]
                                  \/ i = Len(queue) + 1 /\ queue'[i] = b
  BY <1>1, <1>2
<1>4. /\ \A i \in 1 .. Len(queue) : i \in 1 .. Len(queue')
      /\ Len(queue) + 1 \in 1 .. Len(queue')
  BY <1>1, <1>2
<1>5. \A a : InQueue(a)' <=> (InQueue(a) \/ a = b)
  BY <1>1, <1>2, <1>3, <1>4 DEF InQueue
<1>6. \A i, j \in 1 .. Len(queue') : queue'[i] = queue'[j] => i = j
  BY <1>1, <1>3
<1> QED BY <1>5, <1>6

LEMMA NextAccounted ==
  TypeOK /\ InHand /\ AnswersAccounted /\ [Next]_vars => AnswersAccounted'
<1> SUFFICES ASSUME TypeOK, InHand, AnswersAccounted, [Next]_vars
             PROVE  AnswersAccounted'
    OBVIOUS
<1> USE DEF queueVars, sendVars, peerVars, stopVars
<1>1. ASSUME UNCHANGED <<queue, added, sending, sent, dropped>>
      PROVE  AnswersAccounted'
  BY <1>1 DEF AnswersAccounted, InQueue
<1>2. ASSUME NEW b \in Answers, NEW p \in Peers, AddResponse(b, p)
      PROVE  AnswersAccounted'
  <2>1. /\ b \notin added /\ added' = added \cup {b}
        /\ UNCHANGED <<sending, sent, dropped>>
    BY <1>2 DEF AddResponse
  <2>2. \A i \in 1 .. Len(queue') : queue'[i] \in added'
    BY <1>2, NextType DEF InHand
  <2>3. b # sending /\ b \notin sent \cup dropped
    BY <1>2, <2>1 DEF AnswersAccounted
  <2> QED BY <1>2, <2>1, <2>2, <2>3, QueueAfterAdd DEF AnswersAccounted
<1>3. CASE TakeAnswer
  <2>1. /\ sending' = Head(queue) /\ sending = NoAnswer
        /\ UNCHANGED <<added, sent, dropped>>
    BY <1>3 DEF TakeAnswer, InHand
  <2>2. /\ Head(queue) = queue[1] /\ 1 \in 1 .. Len(queue) /\ Head(queue) \in Answers
    BY <1>3, TailOf DEF TakeAnswer, TypeOK
  <2>3. InQueue(Head(queue)) /\ Head(queue) \in added
    BY <2>2 DEF InQueue, AnswersAccounted
  <2>4. \A i \in 1 .. Len(queue') : queue'[i] \in added'
    BY <1>3, NextType DEF InHand
  <2>5. /\ \A a : InQueue(a)' <=> (InQueue(a) /\ a # Head(queue))
        /\ \A i, j \in 1 .. Len(queue') : queue'[i] = queue'[j] => i = j
    BY <1>3, QueueAfterTake
  <2>6. /\ \A a \in added : a # NoAnswer
        /\ Head(queue) \notin sent \cup dropped
    BY <2>3 DEF AnswersAccounted, TypeOK
  <2>7. ASSUME NEW a \in added
        PROVE  \/ InQueue(a)' /\ a # sending' /\ a \notin sent \cup dropped
               \/ ~InQueue(a)' /\ a = sending' /\ a \notin sent \cup dropped
               \/ ~InQueue(a)' /\ a # sending' /\ a \in sent \cup dropped
    <3>1. CASE a = Head(queue)
      BY <2>1, <2>5, <2>6, <3>1
    <3>2. CASE a # Head(queue)
      <4>1. \/ InQueue(a) /\ a \notin sent \cup dropped
            \/ ~InQueue(a) /\ a \in sent \cup dropped
        BY <2>1, <2>6 DEF AnswersAccounted
      <4> QED BY <2>1, <2>5, <3>2, <4>1
    <3> QED BY <3>1, <3>2
  <2>8. sent \cup dropped \subseteq added /\ sent \cap dropped = {}
    BY DEF AnswersAccounted
  <2> QED BY <2>1, <2>3, <2>4, <2>5, <2>7, <2>8 DEF AnswersAccounted
<1>4. ASSUME NEW k \in 1 .. Size, SendSome(k) PROVE AnswersAccounted'
  <2>1. CASE pos + k < Size
    BY <1>1, <1>4, <2>1 DEF SendSome
  <2>2. CASE ~(pos + k < Size)
    <3>1. /\ sending \in added /\ sending # NoAnswer /\ sending \notin sent \cup dropped
          /\ ~InQueue(sending) /\ \A a \in added : a # NoAnswer
      BY <1>4 DEF SendSome, InHand, AnswersAccounted, TypeOK
    <3>2. /\ sent' = sent \cup {sending} /\ sending' = NoAnswer
          /\ UNCHANGED <<queue, added, dropped>>
      BY <1>4, <2>2 DEF SendSome
    <3> QED BY <3>1, <3>2 DEF AnswersAccounted, InQueue
  <2> QED BY <2>1, <2>2
<1>5. CASE GiveUp
  <2>1. /\ sending \in added /\ sending # NoAnswer /\ sending \notin sent \cup dropped
        /\ ~InQueue(sending) /\ \A a \in added : a # NoAnswer
    BY <1>5 DEF GiveUp, InHand, AnswersAccounted, TypeOK
  <2>2. /\ dropped' = dropped \cup {sending} /\ sending' = NoAnswer
        /\ UNCHANGED <<queue, added, sent>>
    BY <1>5 DEF GiveUp
  <2> QED BY <2>1, <2>2 DEF AnswersAccounted, InQueue
<1>6. CASE Create \/ CheckFlag \/ Sleep \/ WakeUp \/ WakeSpuriously \/ StopBegins
           \/ StopSender \/ UNCHANGED vars
  BY <1>1, <1>6 DEF Create, CheckFlag, Sleep, WakeUp, WakeSpuriously, StopBegins,
     StopSender, ClearFlag, SignalResponse, Join, vars
<1>7. ASSUME NEW p \in Peers, PeerReads(p) \/ PeerHangs(p) \/ PeerResets(p)
      PROVE  AnswersAccounted'
  BY <1>1, <1>7 DEF PeerReads, PeerHangs, PeerResets
<1> QED BY <1>2, <1>3, <1>4, <1>5, <1>6, <1>7 DEF Next, Run, PbTaskSend

LEMMA Inductive == SafetySpec => []IInv
<1>1. Init => AnswersAccounted /\ NoSleepOnAnswers
  BY DEF Init, AnswersAccounted, NoSleepOnAnswers, InQueue
<1> QED BY <1>1, InitType, NextType, NextAwake, NextAccounted, PTL DEF SafetySpec, IInv

\* No answer is lost, sent twice, or freed while it is still to be sent.
THEOREM Accounted == SafetySpec => []AnswersAccounted
  BY Inductive, PTL DEF IInv

-----------------------------------------------------------------------------
(* The sender implements one lane.                                         *)

LEMMA NextLane == TypeOK /\ InHand /\ [Next]_vars => [FL!Next]_FL!vars
<1> SUFFICES ASSUME TypeOK, InHand, [Next]_vars
             PROVE  [FL!Next]_FL!vars
    OBVIOUS
<1> USE DEF queueVars, sendVars, peerVars, stopVars, FL!vars
<1>1. ASSUME UNCHANGED <<queue, sending, added>>,
             (sendPc # "none" /\ stopPc = "none")' = (sendPc # "none" /\ stopPc = "none")
      PROVE  UNCHANGED FL!vars
  BY <1>1
<1>2. CASE Create \/ StopBegins
  BY <1>2 DEF Create, StopBegins, FL!Toggle, FL!Next
<1>3. ASSUME NEW a \in Answers, NEW p \in Peers, AddResponse(a, p)
      PROVE  FL!Next
  <2>1. /\ sendPc # "none" /\ stopPc = "none" /\ stopPc' = stopPc
        /\ sendPc' # "none" /\ sending' = sending
        /\ a \notin added /\ added' = added \cup {a} /\ queue' = Append(queue, a)
    BY <1>3 DEF AddResponse, Signalled
  <2>2. [l \in {0} |-> queue'] = [[l \in {0} |-> queue] EXCEPT ![0] = Append(@, a)]
    BY <2>1
  <2>3. FL!After(0) = 0
    BY DEF FL!After
  <2>4. FL!Submit(a)
    BY <2>1, <2>2, <2>3 DEF FL!Submit
  <2> QED BY <2>4 DEF FL!Next
<1>4. CASE TakeAnswer
  <2>1. /\ sending = NoAnswer /\ queue # <<>>
        /\ sending' = Head(queue) /\ queue' = Tail(queue)
        /\ sendPc # "none" /\ sendPc' # "none" /\ stopPc' = stopPc /\ added' = added
    BY <1>4 DEF TakeAnswer, InHand
  <2>2. /\ [l \in {0} |-> queue'] = [[l \in {0} |-> queue] EXCEPT ![0] = Tail(@)]
        /\ [l \in {0} |-> sending'] = [[l \in {0} |-> sending] EXCEPT ![0] = Head(queue)]
    BY <2>1
  <2>3. FL!Begin(0)
    BY <2>1, <2>2 DEF FL!Begin
  <2> QED BY <2>3 DEF FL!Next, FL!Lanes
<1>5. ASSUME NEW k \in 1 .. Size, SendSome(k) PROVE [FL!Next]_FL!vars
  <2>1. CASE pos + k < Size
    BY <1>1, <1>5, <2>1 DEF SendSome
  <2>2. CASE ~(pos + k < Size)
    <3>1. FL!End(0)
      BY <1>5, <2>2 DEF SendSome, InHand, FL!End
    <3> QED BY <3>1 DEF FL!Next, FL!Lanes
  <2> QED BY <2>1, <2>2
<1>6. CASE GiveUp
  <2>1. FL!End(0)
    BY <1>6 DEF GiveUp, InHand, FL!End
  <2> QED BY <2>1 DEF FL!Next, FL!Lanes
<1>7. CASE CheckFlag \/ Sleep \/ WakeUp \/ WakeSpuriously \/ StopSender \/ UNCHANGED vars
  <2>1. UNCHANGED <<queue, sending, added>>
    BY <1>7 DEF CheckFlag, Sleep, WakeUp, WakeSpuriously, StopSender, ClearFlag,
       SignalResponse, Join, vars
  <2>2. (sendPc # "none" /\ stopPc = "none")' = (sendPc # "none" /\ stopPc = "none")
    BY <1>7 DEF CheckFlag, Sleep, WakeUp, WakeSpuriously, StopSender, ClearFlag,
       SignalResponse, Join, Signalled, vars
  <2> QED BY <1>1, <2>1, <2>2
<1>8. ASSUME NEW p \in Peers, PeerReads(p) \/ PeerHangs(p) \/ PeerResets(p)
      PROVE  UNCHANGED FL!vars
  BY <1>1, <1>8 DEF PeerReads, PeerHangs, PeerResets
<1> QED BY <1>2, <1>3, <1>4, <1>5, <1>6, <1>7, <1>8 DEF Next, Run, PbTaskSend

\* To the workers the way back is one FIFO lane, whatever the peers do to it.
THEOREM ImplementsLane == SafetySpec => LaneSafety
<1>1. Init => FL!Init
  BY DEF Init, FL!Init, FL!Lanes
<1>2. SafetySpec => [](TypeOK /\ InHand)
  BY InitType, NextType, PTL DEF SafetySpec
<1> QED BY <1>1, <1>2, NextLane, PTL DEF SafetySpec, LaneSafety, FL!SafetySpec
=============================================================================

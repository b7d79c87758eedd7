--------------------------- MODULE ListCacheProofs ---------------------------
(***************************************************************************)
(* Proofs about ListCache, for any number of workers, groups, users and    *)
(* requests, whatever fails and however often the process is killed.       *)
(***************************************************************************)
EXTENDS ListCache, SequenceTheorems, FiniteSetTheorems, TLAPS

USE CacheAssumption DEF CacheAssumption

\* What a handler of group g has ahead of it: after every write there is a
\* rebuild of the keys it changes, or a listing of the group's users; only the
\* first step may be half a rebuild.
Fit(s, g) ==
  \A i \in DOMAIN s :
    /\ s[i].do = "store" => i = 1
    /\ s[i].do = "list" => s[i].key = g
    /\ s[i].do \in {"create", "add", "exit"} =>
         s[i].key \in Users /\ \E j \in DOMAIN s : j > i /\ s[j] = S("refresh", g)
    /\ s[i].do = "dissolve" =>
         /\ s[i].key = g
         /\ \E j \in DOMAIN s : j > i /\ s[j] = S("refresh", g)
         /\ \E j \in DOMAIN s : j > i /\ s[j] = S("list", g)
    /\ s[i].do = "update" => \E j \in DOMAIN s : j > i /\ s[j] = S("refresh", s[i].key)

\* Owes, for a sequence of steps s and rows rw.
Has(s, rw, k) ==
  \E i \in DOMAIN s :
    \/ s[i] \in {S("refresh", k), S("store", k)}
    \/ s[i].do = "list" /\ k \in rw[s[i].key]

Fitting == \A w \in Workers : todo[w] # <<>> => Fit(todo[w], Group(w))

\* A rebuild half done has selected what the rows are now, or somebody who
\* changed them since will rebuild the key too.
Pending ==
  \A w \in Workers, k \in Keys :
    Storing(w, k) => snap[w] = db[k] \/ adrift[k] \/ \E v \in Workers \ {w} : Owes(v, k)

\* Nothing is newer than the rows; what a rebuild is about to store is not
\* older than what redis holds, unless it overlaps another.
Ordered ==
  /\ \A k \in Keys : cache[k] <= db[k]
  /\ \A w \in Workers, k \in Keys :
       Storing(w, k) => snap[w] <= db[k] /\ (adrift[k] \/ cache[k] <= snap[w])
  /\ \A w, v \in Workers, k \in Keys :
       w # v /\ Storing(w, k) /\ Storing(v, k) => adrift[k]

IInv == TypeOK /\ Fitting /\ CacheCurrent /\ Pending /\ Ordered

-----------------------------------------------------------------------------
(* Sequences of steps.                                                     *)

LEMMA TailOf ==
  ASSUME NEW s \in Seq(Steps), s # <<>>
  PROVE  /\ Len(s) \in Nat /\ Len(s) >= 1 /\ 1 \in DOMAIN s /\ Head(s) = s[1] /\ Head(s) \in Steps
         /\ Tail(s) \in Seq(Steps) /\ Len(Tail(s)) = Len(s) - 1
         /\ \A i \in DOMAIN Tail(s) : Tail(s)[i] = s[i + 1] /\ i + 1 \in DOMAIN s
         /\ \A i \in DOMAIN s : i > 1 => i - 1 \in DOMAIN Tail(s) /\ Tail(s)[i - 1] = s[i]
<1>1. Tail(s) \in Seq(Steps) /\ Len(Tail(s)) = Len(s) - 1
      /\ \A i \in 1 .. Len(Tail(s)) : Tail(s)[i] = s[i + 1]
  BY HeadTailProperties, Z3
<1>2. Len(s) \in Nat /\ Len(s) >= 1 /\ DOMAIN s = 1 .. Len(s) /\ Head(s) = s[1]
  OBVIOUS
<1>3. DOMAIN Tail(s) = 1 .. Len(Tail(s))
  BY <1>1
<1>4. s \in [1 .. Len(s) -> Steps] /\ 1 \in 1 .. Len(s)
  BY <1>2
<1> QED BY <1>1, <1>2, <1>3, <1>4

\* s followed by t.
LEMMA Joined ==
  ASSUME NEW s \in Seq(Steps), NEW t \in Seq(Steps)
  PROVE  /\ s \o t \in Seq(Steps)
         /\ DOMAIN (s \o t) = 1 .. Len(s) + Len(t) /\ Len(s) \in Nat /\ Len(t) \in Nat
         /\ \A i \in DOMAIN s : i \in DOMAIN (s \o t) /\ (s \o t)[i] = s[i]
         /\ \A i \in DOMAIN t : Len(s) + i \in DOMAIN (s \o t) /\ (s \o t)[Len(s) + i] = t[i]
         /\ \A i \in DOMAIN (s \o t) :
              \/ i \in DOMAIN s /\ (s \o t)[i] = s[i]
              \/ i - Len(s) \in DOMAIN t /\ (s \o t)[i] = t[i - Len(s)]
<1>1. s \o t \in Seq(Steps) /\ Len(s \o t) = Len(s) + Len(t)
      /\ \A i \in 1 .. Len(s) + Len(t) :
           (s \o t)[i] = IF i <= Len(s) THEN s[i] ELSE t[i - Len(s)]
  BY ConcatProperties, Z3
<1>2. Len(s) \in Nat /\ Len(t) \in Nat /\ DOMAIN s = 1 .. Len(s) /\ DOMAIN t = 1 .. Len(t)
  OBVIOUS
<1>3. DOMAIN (s \o t) = 1 .. Len(s) + Len(t)
  BY <1>1
<1> QED BY <1>1, <1>2, <1>3

LEMMA EachOf ==
  ASSUME NEW do \in Dos, NEW us \in Seq(Keys)
  PROVE  /\ Each(do, us) \in Seq(Steps) /\ DOMAIN Each(do, us) = DOMAIN us
         /\ \A i \in DOMAIN us : Each(do, us)[i] = S(do, us[i]) /\ us[i] \in Keys
<1>1. \A i \in DOMAIN us : us[i] \in Keys /\ S(do, us[i]) \in Steps
  BY DEF S, Steps
<1>2. DOMAIN us = 1 .. Len(us) /\ Len(us) \in Nat
  OBVIOUS
<1> QED BY <1>1, <1>2 DEF Each

\* The first step is taken off, or becomes a rebuild.
LEMMA FitTail ==
  ASSUME NEW s \in Seq(Steps), s # <<>>, NEW g, Fit(s, g)
  PROVE  Fit(Tail(s), g)
<1> DEFINE t == Tail(s)
<1>1. /\ \A i \in DOMAIN t : t[i] = s[i + 1] /\ i + 1 \in DOMAIN s
      /\ \A i \in DOMAIN s : i > 1 => i - 1 \in DOMAIN t /\ t[i - 1] = s[i]
      /\ DOMAIN t \subseteq Nat \ {0} /\ DOMAIN s \subseteq Nat \ {0}
  BY TailOf
<1> HIDE DEF t
<1> SUFFICES ASSUME NEW i \in DOMAIN t
             PROVE  /\ t[i].do = "store" => i = 1
                    /\ t[i].do = "list" => t[i].key = g
                    /\ t[i].do \in {"create", "add", "exit"} =>
                         t[i].key \in Users /\ \E j \in DOMAIN t : j > i /\ t[j] = S("refresh", g)
                    /\ t[i].do = "dissolve" =>
                         /\ t[i].key = g
                         /\ \E j \in DOMAIN t : j > i /\ t[j] = S("refresh", g)
                         /\ \E j \in DOMAIN t : j > i /\ t[j] = S("list", g)
                    /\ t[i].do = "update" =>
                         \E j \in DOMAIN t : j > i /\ t[j] = S("refresh", t[i].key)
    BY DEF Fit, t
<1>2. t[i] = s[i + 1] /\ i + 1 \in DOMAIN s /\ i \in Nat /\ i >= 1
  BY <1>1
<1>3. \A x : (\E j \in DOMAIN s : j > i + 1 /\ s[j] = x) => \E j \in DOMAIN t : j > i /\ t[j] = x
  <2> SUFFICES ASSUME NEW x, NEW j \in DOMAIN s, j > i + 1, s[j] = x
               PROVE  \E k \in DOMAIN t : k > i /\ t[k] = x
      OBVIOUS
  <2>1. j - 1 \in DOMAIN t /\ t[j - 1] = x /\ j - 1 > i
    BY <1>1, <1>2
  <2> QED BY <2>1
<1>4. /\ s[i + 1].do # "store"
      /\ s[i + 1].do = "list" => s[i + 1].key = g
      /\ s[i + 1].do \in {"create", "add", "exit"} =>
           s[i + 1].key \in Users /\ \E j \in DOMAIN s : j > i + 1 /\ s[j] = S("refresh", g)
      /\ s[i + 1].do = "dissolve" =>
           /\ s[i + 1].key = g
           /\ \E j \in DOMAIN s : j > i + 1 /\ s[j] = S("refresh", g)
           /\ \E j \in DOMAIN s : j > i + 1 /\ s[j] = S("list", g)
      /\ s[i + 1].do = "update" =>
           \E j \in DOMAIN s : j > i + 1 /\ s[j] = S("refresh", s[i + 1].key)
  BY <1>2 DEF Fit
<1>5. s[i + 1].do \in {"create", "add", "exit"} =>
        t[i].key \in Users /\ \E j \in DOMAIN t : j > i /\ t[j] = S("refresh", g)
  BY <1>2, <1>3, <1>4
<1>6. s[i + 1].do = "dissolve" =>
        /\ t[i].key = g
        /\ \E j \in DOMAIN t : j > i /\ t[j] = S("refresh", g)
        /\ \E j \in DOMAIN t : j > i /\ t[j] = S("list", g)
  BY <1>2, <1>3, <1>4
<1>7. s[i + 1].do = "update" => \E j \in DOMAIN t : j > i /\ t[j] = S("refresh", t[i].key)
  BY <1>2, <1>3, <1>4
<1> QED BY <1>2, <1>4, <1>5, <1>6, <1>7

\* Only the first step may be half a rebuild.
LEMMA TailWhole ==
  ASSUME NEW s \in Seq(Steps), s # <<>>, NEW g, Fit(s, g)
  PROVE  \A i \in DOMAIN Tail(s) : Tail(s)[i].do # "store"
<1> SUFFICES ASSUME NEW i \in DOMAIN Tail(s)
             PROVE  Tail(s)[i].do # "store"
    OBVIOUS
<1>1. Tail(s)[i] = s[i + 1] /\ i + 1 \in DOMAIN s /\ i + 1 # 1
  BY TailOf
<1> QED BY <1>1 DEF Fit

\* Steps that ask for nothing, or for what t ends with, before t.
Harmless(x, g, t) ==
  \/ x.do \in {"refresh", "query", "answer", "touch"}
  \/ x.do \in {"create", "add", "exit"} /\ x.key \in Users
       /\ \E j \in DOMAIN t : t[j] = S("refresh", g)

LEMMA FitJoined ==
  ASSUME NEW p \in Seq(Steps), NEW t \in Seq(Steps), NEW g,
         Fit(t, g), \A i \in DOMAIN t : t[i].do # "store",
         \A i \in DOMAIN p : Harmless(p[i], g, t) \/ (i = 1 /\ p[i].do = "store")
  PROVE  Fit(p \o t, g)
<1> DEFINE s == p \o t
           n == Len(p)
<1>1. /\ n \in Nat
      /\ DOMAIN p \subseteq Nat \ {0} /\ DOMAIN t \subseteq Nat \ {0} /\ DOMAIN s \subseteq Nat \ {0}
      /\ \A i \in DOMAIN p : i <= n
      /\ \A i \in DOMAIN t : n + i \in DOMAIN s /\ s[n + i] = t[i]
      /\ \A i \in DOMAIN s : \/ i \in DOMAIN p /\ s[i] = p[i]
                             \/ i - n \in DOMAIN t /\ s[i] = t[i - n]
  <2>1. DOMAIN p = 1 .. Len(p) /\ DOMAIN t = 1 .. Len(t) /\ Len(p) \in Nat /\ Len(t) \in Nat
    OBVIOUS
  <2> QED BY <2>1, Joined
<1> HIDE DEF s, n
<1> SUFFICES ASSUME NEW i \in DOMAIN s
             PROVE  /\ s[i].do = "store" => i = 1
                    /\ s[i].do = "list" => s[i].key = g
                    /\ s[i].do \in {"create", "add", "exit"} =>
                         s[i].key \in Users /\ \E j \in DOMAIN s : j > i /\ s[j] = S("refresh", g)
                    /\ s[i].do = "dissolve" =>
                         /\ s[i].key = g
                         /\ \E j \in DOMAIN s : j > i /\ s[j] = S("refresh", g)
                         /\ \E j \in DOMAIN s : j > i /\ s[j] = S("list", g)
                    /\ s[i].do = "update" =>
                         \E j \in DOMAIN s : j > i /\ s[j] = S("refresh", s[i].key)
    BY DEF Fit, s
<1>2. CASE i \in DOMAIN p /\ s[i] = p[i]
  <2>1. CASE i = 1 /\ p[i].do = "store"
    BY <1>2, <2>1
  <2>2. CASE p[i].do \in {"refresh", "query", "answer", "touch"}
    BY <1>2, <2>2
  <2>3. CASE p[i].do \in {"create", "add", "exit"} /\ p[i].key \in Users
               /\ \E j \in DOMAIN t : t[j] = S("refresh", g)
    <3>1. PICK j \in DOMAIN t : t[j] = S("refresh", g)
      BY <2>3
    <3>2. n + j \in DOMAIN s /\ s[n + j] = S("refresh", g) /\ n + j > i
      BY <1>1, <1>2, <3>1
    <3> QED BY <1>2, <2>3, <3>2
  <2> QED BY <1>2, <2>1, <2>2, <2>3 DEF Harmless
<1>3. CASE i - n \in DOMAIN t /\ s[i] = t[i - n]
  <2>1. \A x : (\E j \in DOMAIN t : j > i - n /\ t[j] = x) => \E j \in DOMAIN s : j > i /\ s[j] = x
    <3> SUFFICES ASSUME NEW x, NEW j \in DOMAIN t, j > i - n, t[j] = x
                 PROVE  \E k \in DOMAIN s : k > i /\ s[k] = x
        OBVIOUS
    <3>1. n + j \in DOMAIN s /\ s[n + j] = x /\ n + j > i
      BY <1>1
    <3> QED BY <3>1
  <2> DEFINE h == i - n
  <2>2. h \in DOMAIN t /\ s[i] = t[h]
        /\ \A x : (\E j \in DOMAIN t : j > h /\ t[j] = x) => \E j \in DOMAIN s : j > i /\ s[j] = x
    BY <1>3, <2>1
  <2> HIDE DEF h
  <2>3. /\ t[h].do # "store"
        /\ t[h].do = "list" => t[h].key = g
        /\ t[h].do \in {"create", "add", "exit"} =>
             t[h].key \in Users /\ \E j \in DOMAIN t : j > h /\ t[j] = S("refresh", g)
        /\ t[h].do = "dissolve" =>
             /\ t[h].key = g
             /\ \E j \in DOMAIN t : j > h /\ t[j] = S("refresh", g)
             /\ \E j \in DOMAIN t : j > h /\ t[j] = S("list", g)
        /\ t[h].do = "update" =>
             \E j \in DOMAIN t : j > h /\ t[j] = S("refresh", t[h].key)
    BY <2>2 DEF Fit
  <2>4. s[i].do = "dissolve" =>
          /\ s[i].key = g
          /\ \E j \in DOMAIN s : j > i /\ s[j] = S("refresh", g)
          /\ \E j \in DOMAIN s : j > i /\ s[j] = S("list", g)
    BY <2>2, <2>3
  <2>5. s[i].do \in {"create", "add", "exit"} =>
          s[i].key \in Users /\ \E j \in DOMAIN s : j > i /\ s[j] = S("refresh", g)
    BY <2>2, <2>3
  <2>6. s[i].do = "update" => \E j \in DOMAIN s : j > i /\ s[j] = S("refresh", s[i].key)
    BY <2>2, <2>3
  <2> QED BY <2>2, <2>3, <2>4, <2>5, <2>6
<1> QED BY <1>1, <1>2, <1>3

\* The first step becomes x, a rebuild or half of one.
LEMMA FitTurn ==
  ASSUME NEW s \in Seq(Steps), s # <<>>, NEW g, Fit(s, g),
         NEW x \in Steps, x.do \in {"refresh", "store"}
  PROVE  /\ <<x>> \o Tail(s) \in Seq(Steps) /\ <<x>> \o Tail(s) # <<>>
         /\ Head(<<x>> \o Tail(s)) = x
         /\ Fit(<<x>> \o Tail(s), g)
<1>1. Tail(s) \in Seq(Steps) /\ <<x>> \in Seq(Steps)
  BY TailOf
<1>2. Fit(Tail(s), g) /\ \A i \in DOMAIN Tail(s) : Tail(s)[i].do # "store"
  BY FitTail, TailWhole
<1>3. \A i \in DOMAIN <<x>> : Harmless(<<x>>[i], g, Tail(s)) \/ (i = 1 /\ <<x>>[i].do = "store")
  BY DEF Harmless
<1>4. Fit(<<x>> \o Tail(s), g)
  BY <1>1, <1>2, <1>3, FitJoined
<1>5. <<x>> \o Tail(s) \in Seq(Steps) /\ 1 \in DOMAIN (<<x>> \o Tail(s)) /\ (<<x>> \o Tail(s))[1] = x
  <2>1. 1 \in DOMAIN <<x>> /\ <<x>>[1] = x
    OBVIOUS
  <2> QED BY <1>1, <2>1, Joined
<1>6. <<x>> \o Tail(s) # <<>> /\ Head(<<x>> \o Tail(s)) = x
  BY <1>5
<1> QED BY <1>4, <1>5, <1>6

-----------------------------------------------------------------------------
(* What is owed.                                                           *)

LEMMA HasTail ==
  ASSUME NEW s \in Seq(Steps), s # <<>>, NEW rw, NEW k, Has(s, rw, k),
         Head(s) \notin {S("refresh", k), S("store", k)},
         ~ (Head(s).do = "list" /\ k \in rw[Head(s).key])
  PROVE  Has(Tail(s), rw, k)
<1>1. PICK i \in DOMAIN s : \/ s[i] \in {S("refresh", k), S("store", k)}
                            \/ s[i].do = "list" /\ k \in rw[s[i].key]
  BY DEF Has
<1>2. i # 1 /\ i \in Nat \ {0}
  BY <1>1, TailOf
<1>3. i - 1 \in DOMAIN Tail(s) /\ Tail(s)[i - 1] = s[i]
  BY <1>2, TailOf
<1> QED BY <1>1, <1>3 DEF Has

LEMMA HasJoined ==
  ASSUME NEW p \in Seq(Steps), NEW t \in Seq(Steps), NEW rw, NEW k,
         Has(p, rw, k) \/ Has(t, rw, k)
  PROVE  Has(p \o t, rw, k)
<1>1. CASE Has(p, rw, k)
  <2>1. PICK i \in DOMAIN p : \/ p[i] \in {S("refresh", k), S("store", k)}
                              \/ p[i].do = "list" /\ k \in rw[p[i].key]
    BY <1>1 DEF Has
  <2>2. i \in DOMAIN (p \o t) /\ (p \o t)[i] = p[i]
    BY Joined
  <2> QED BY <2>1, <2>2 DEF Has
<1>2. CASE Has(t, rw, k)
  <2>1. PICK i \in DOMAIN t : \/ t[i] \in {S("refresh", k), S("store", k)}
                              \/ t[i].do = "list" /\ k \in rw[t[i].key]
    BY <1>2 DEF Has
  <2>2. Len(p) + i \in DOMAIN (p \o t) /\ (p \o t)[Len(p) + i] = t[i]
    BY Joined
  <2> QED BY <2>1, <2>2 DEF Has
<1> QED BY <1>1, <1>2

\* A write is followed by a rebuild of what it changes.
LEMMA FitHas ==
  ASSUME NEW s \in Seq(Steps), s # <<>>, NEW g, Fit(s, g), NEW rw
  PROVE  /\ Head(s).do \in {"create", "add", "exit"} => Head(s).key \in Users /\ Has(Tail(s), rw, g)
         /\ Head(s).do = "dissolve" =>
              Head(s).key = g /\ Has(Tail(s), rw, g) /\ \A u \in rw[g] : Has(Tail(s), rw, u)
         /\ Head(s).do = "update" => Has(Tail(s), rw, Head(s).key)
<1>1. 1 \in DOMAIN s /\ Head(s) = s[1]
      /\ \A i \in DOMAIN s : i > 1 => i - 1 \in DOMAIN Tail(s) /\ Tail(s)[i - 1] = s[i]
  BY TailOf
<1>2. \A x : (\E j \in DOMAIN s : j > 1 /\ s[j] = x) => \E j \in DOMAIN Tail(s) : Tail(s)[j] = x
  BY <1>1
<1>3. /\ Head(s).do \in {"create", "add", "exit"} =>
           Head(s).key \in Users /\ \E j \in DOMAIN Tail(s) : Tail(s)[j] = S("refresh", g)
      /\ Head(s).do = "dissolve" =>
           /\ Head(s).key = g
           /\ \E j \in DOMAIN Tail(s) : Tail(s)[j] = S("refresh", g)
           /\ \E j \in DOMAIN Tail(s) : Tail(s)[j] = S("list", g)
      /\ Head(s).do = "update" => \E j \in DOMAIN Tail(s) : Tail(s)[j] = S("refresh", Head(s).key)
  BY <1>1, <1>2 DEF Fit
<1>4. \A k : (\E j \in DOMAIN Tail(s) : Tail(s)[j] = S("refresh", k)) => Has(Tail(s), rw, k)
  BY DEF Has
<1>5. (\E j \in DOMAIN Tail(s) : Tail(s)[j] = S("list", g)) => \A u \in rw[g] : Has(Tail(s), rw, u)
  BY DEF Has, S
<1> QED BY <1>3, <1>4, <1>5

-----------------------------------------------------------------------------
(* The plans of the handlers.                                              *)

Whole(s) == \A i \in DOMAIN s : s[i].do # "store"

\* What a handler starts with.
Sound(s, g) == s \in Seq(Steps) /\ s # <<>> /\ Whole(s) /\ Fit(s, g)

LEMMA SoundJoined ==
  ASSUME NEW p \in Seq(Steps), NEW t, NEW g, Sound(t, g),
         \A i \in DOMAIN p : Harmless(p[i], g, t)
  PROVE  Sound(p \o t, g)
<1>1. t \in Seq(Steps) /\ Fit(t, g) /\ \A i \in DOMAIN t : t[i].do # "store"
  BY DEF Sound, Whole
<1>2. Fit(p \o t, g)
  BY <1>1, FitJoined
<1>3. p \o t \in Seq(Steps)
  BY <1>1, Joined
<1>4. Whole(p \o t)
  <2> SUFFICES ASSUME NEW i \in DOMAIN (p \o t)
               PROVE  (p \o t)[i].do # "store"
      BY DEF Whole
  <2>1. CASE i \in DOMAIN p /\ (p \o t)[i] = p[i]
    BY <2>1 DEF Harmless
  <2>2. CASE i - Len(p) \in DOMAIN t /\ (p \o t)[i] = t[i - Len(p)]
    BY <1>1, <2>2
  <2> QED BY <1>1, <2>1, <2>2, Joined
<1>5. 1 \in DOMAIN t
  BY DEF Sound
<1>6. Len(p) + 1 \in DOMAIN (p \o t)
  BY <1>1, <1>5, Joined
<1>7. p \o t # <<>>
  BY <1>6
<1> QED BY <1>2, <1>3, <1>4, <1>7 DEF Sound

\* The end of every handler that changes the members of a group.
LEMMA SoundEnd ==
  ASSUME NEW g \in Groups
  PROVE  LET t == <<S("answer", g), S("refresh", g)>> IN
           Sound(t, g) /\ 2 \in DOMAIN t /\ t[2] = S("refresh", g)
<1> DEFINE t == <<S("answer", g), S("refresh", g)>>
<1>1. S("answer", g) \in Steps /\ S("refresh", g) \in Steps
  BY DEF S, Steps, Dos, Writes, Keys
<1>2. t \in Seq(Steps) /\ t # <<>> /\ DOMAIN t = {1, 2}
      /\ t[1] = S("answer", g) /\ t[2] = S("refresh", g)
  BY <1>1
<1>3. \A i \in DOMAIN t : t[i].do \in {"answer", "refresh"}
  BY <1>2 DEF S
<1>4. Whole(t) /\ Fit(t, g)
  BY <1>3 DEF Whole, Fit
<1> QED BY <1>2, <1>4 DEF Sound

LEMMA SoundCreateEnd ==
  ASSUME NEW g \in Groups
  PROVE  LET t == <<S("query", g), S("answer", g), S("refresh", g)>> IN
           Sound(t, g) /\ 3 \in DOMAIN t /\ t[3] = S("refresh", g)
<1> DEFINE t == <<S("query", g), S("answer", g), S("refresh", g)>>
<1>1. S("query", g) \in Steps /\ S("answer", g) \in Steps /\ S("refresh", g) \in Steps
  BY DEF S, Steps, Dos, Writes, Keys
<1>2. t \in Seq(Steps) /\ t # <<>> /\ DOMAIN t = {1, 2, 3}
      /\ t[1] = S("query", g) /\ t[2] = S("answer", g) /\ t[3] = S("refresh", g)
  BY <1>1
<1>3. \A i \in DOMAIN t : t[i].do \in {"query", "answer", "refresh"}
  BY <1>2 DEF S
<1>4. Whole(t) /\ Fit(t, g)
  BY <1>3 DEF Whole, Fit
<1> QED BY <1>2, <1>4 DEF Sound

\* The members of a group, added or taken out one by one.
LEMMA EachHarmless ==
  ASSUME NEW g, NEW t, NEW h \in DOMAIN t, t[h] = S("refresh", g),
         NEW do \in {"add", "exit"}, NEW us \in Seq(Users)
  PROVE  Each(do, us) \in Seq(Steps) /\ \A i \in DOMAIN Each(do, us) : Harmless(Each(do, us)[i], g, t)
<1>1. us \in Seq(Keys) /\ do \in Dos /\ \A i \in DOMAIN us : us[i] \in Users
  BY DEF Keys, Dos, Writes
<1>2. Each(do, us) \in Seq(Steps) /\ DOMAIN Each(do, us) = DOMAIN us
      /\ \A i \in DOMAIN us : Each(do, us)[i] = S(do, us[i])
  BY <1>1, EachOf
<1>3. \A u \in Users : Harmless(S(do, u), g, t)
  BY DEF Harmless, S
<1> QED BY <1>1, <1>2, <1>3

LEMMA KeysOfAsk ==
  ASSUME NEW r \in Requests
  PROVE  LET q == Ask[r] IN
           /\ q.op \in Ops /\ q.group \in Groups /\ q.group \in Keys /\ q.users \in Seq(Keys)
           /\ q.op \in {"create", "friend", "profile", "quiet", "refresh"} =>
                /\ q.users # <<>> /\ Head(q.users) = q.users[1] /\ q.users[1] \in Keys
                /\ Tail(q.users) \in Seq(Keys) /\ 1 \in DOMAIN q.users
           /\ q.op \notin {"refresh", "quiet"} =>
                q.users \in Seq(Users) /\ \A i \in DOMAIN q.users : q.users[i] \in Users
           /\ q.op = "create" => Head(q.users) \in Users
                /\ Tail(q.users) \in Seq(Users)
                /\ \A i \in DOMAIN Tail(q.users) : Tail(q.users)[i] \in Users
<1> DEFINE q == Ask[r]
<1>1. q \in [op : Ops, group : Groups, users : Seq(Keys)]
      /\ (q.op \in {"create", "friend", "profile", "quiet", "refresh"} => q.users # <<>>)
      /\ (q.op \notin {"refresh", "quiet"} => q.users \in Seq(Users))
  OBVIOUS
<1> HIDE DEF q
<1>2. q.op \in Ops /\ q.group \in Groups /\ q.group \in Keys /\ q.users \in Seq(Keys)
  BY <1>1 DEF Keys
<1>3. ASSUME q.users # <<>>
      PROVE  /\ Head(q.users) = q.users[1] /\ q.users[1] \in Keys
             /\ Tail(q.users) \in Seq(Keys) /\ 1 \in DOMAIN q.users
  BY <1>2, <1>3
<1>4. ASSUME q.op \notin {"refresh", "quiet"}
      PROVE  q.users \in Seq(Users) /\ \A i \in DOMAIN q.users : q.users[i] \in Users
  BY <1>1, <1>4
<1>5. ASSUME q.op = "create"
      PROVE  Head(q.users) \in Users /\ Tail(q.users) \in Seq(Users)
             /\ \A i \in DOMAIN Tail(q.users) : Tail(q.users)[i] \in Users
  <2>1. q.users # <<>> /\ q.users \in Seq(Users)
    BY <1>1, <1>5
  <2>2. Head(q.users) \in Users /\ Tail(q.users) \in Seq(Users)
    BY <2>1
  <2> QED BY <2>2
<1> QED BY <1>1, <1>2, <1>3, <1>4, <1>5 DEF q

LEMMA CreateSound ==
  ASSUME NEW r \in Requests, Ask[r].op = "create"
  PROVE  Sound(CreateGroup(Ask[r]), Ask[r].group)
<1> DEFINE q == Ask[r]
           g == q.group
           a == <<S("query", g), S("create", Head(q.users)), S("query", g)>>
           b == Each("add", Tail(q.users))
           c == <<S("query", g), S("answer", g), S("refresh", g)>>
<1>1. g \in Groups /\ g \in Keys /\ Head(q.users) \in Users /\ Head(q.users) \in Keys
      /\ Tail(q.users) \in Seq(Users)
  BY KeysOfAsk DEF Keys
<1>4. S("query", g) \in Steps /\ S("create", Head(q.users)) \in Steps
  BY <1>1 DEF S, Steps, Dos, Writes
<1>6. Sound(c, g) /\ 3 \in DOMAIN c /\ c[3] = S("refresh", g)
  BY <1>1, SoundCreateEnd
<1>7. a \in Seq(Steps) /\ \A i \in DOMAIN a : Harmless(a[i], g, c)
  <2>1. a \in Seq(Steps) /\ DOMAIN a = {1, 2, 3}
        /\ a[1] = S("query", g) /\ a[2] = S("create", Head(q.users)) /\ a[3] = S("query", g)
    BY <1>4
  <2> QED BY <1>1, <1>6, <2>1 DEF Harmless, S
<1>8. b \in Seq(Steps) /\ \A i \in DOMAIN b : Harmless(b[i], g, c)
  <2> HIDE DEF c
  <2> QED BY <1>1, <1>6, EachHarmless
<1> HIDE DEF a, b, c
<1>9. a \o b \in Seq(Steps) /\ \A i \in DOMAIN (a \o b) : Harmless((a \o b)[i], g, c)
  BY <1>7, <1>8, Joined
<1>10. Sound((a \o b) \o c, g)
  BY <1>6, <1>9, SoundJoined
<1> QED BY <1>10 DEF CreateGroup, a, b, c
\* ADD and DEL; MODIFY is the end alone.
LEMMA ChangeSound ==
  ASSUME NEW r \in Requests, Ask[r].op \in {"add", "del", "modify"}
  PROVE  Sound(ChangeGroup(Ask[r]), Ask[r].group)
<1> DEFINE q == Ask[r]
           g == q.group
           a == <<S("query", g)>>
           c == <<S("answer", g), S("refresh", g)>>
<1>1. g \in Groups /\ g \in Keys /\ q.users \in Seq(Users)
  BY KeysOfAsk
<1>2. Sound(c, g) /\ 2 \in DOMAIN c /\ c[2] = S("refresh", g)
  BY <1>1, SoundEnd
<1>3. a \in Seq(Steps) /\ \A i \in DOMAIN a : Harmless(a[i], g, c)
  <2>1. S("query", g) \in Steps
    BY <1>1 DEF S, Steps, Dos, Writes
  <2> QED BY <2>1 DEF Harmless, S
<1> HIDE DEF a, c
<1>4. ASSUME NEW do \in {"add", "exit"}
      PROVE  Sound((a \o Each(do, q.users)) \o c, g)
  <2> DEFINE b == Each(do, q.users)
  <2>1. b \in Seq(Steps) /\ \A i \in DOMAIN b : Harmless(b[i], g, c)
    BY <1>1, <1>2, EachHarmless
  <2> HIDE DEF b
  <2>2. a \o b \in Seq(Steps) /\ \A i \in DOMAIN (a \o b) : Harmless((a \o b)[i], g, c)
    BY <1>3, <2>1, Joined
  <2>3. Sound((a \o b) \o c, g)
    BY <1>2, <2>2, SoundJoined
  <2> QED BY <2>3 DEF b
<1>5. CASE q.op = "add"
  BY <1>4, <1>5 DEF ChangeGroup, a, c
<1>6. CASE q.op = "del"
  BY <1>4, <1>6 DEF ChangeGroup, a, c
<1>7. CASE q.op = "modify"
  BY <1>2, <1>7 DEF ChangeGroup, a, c
<1> QED BY <1>5, <1>6, <1>7

LEMMA DissolveSound ==
  ASSUME NEW g \in Groups, NEW q, q.group = g
  PROVE  Sound(DissolveGroup(q), g)
<1> DEFINE s == <<S("query", g), S("dissolve", g), S("answer", g), S("refresh", g), S("list", g)>>
<1>1. /\ S("query", g) \in Steps /\ S("dissolve", g) \in Steps /\ S("answer", g) \in Steps
      /\ S("refresh", g) \in Steps /\ S("list", g) \in Steps
  BY DEF S, Steps, Dos, Writes, Keys
<1>2. /\ s \in Seq(Steps) /\ s # <<>> /\ DOMAIN s = {1, 2, 3, 4, 5}
      /\ s[1] = S("query", g) /\ s[2] = S("dissolve", g) /\ s[3] = S("answer", g)
      /\ s[4] = S("refresh", g) /\ s[5] = S("list", g)
  BY <1>1
<1>3. DissolveGroup(q) = s
  BY DEF DissolveGroup
<1> HIDE DEF s
<1>4. \A i \in DOMAIN s :
        \/ i = 2 /\ s[i].do = "dissolve" /\ s[i].key = g
        \/ i = 5 /\ s[i].do = "list" /\ s[i].key = g
        \/ s[i].do \in {"query", "answer", "refresh"}
  BY <1>2 DEF S
<1>5. Whole(s) /\ Fit(s, g)
  BY <1>2, <1>4 DEF Whole, Fit
<1> QED BY <1>2, <1>3, <1>5 DEF Sound

LEMMA ShortSequences ==
  ASSUME NEW x \in Steps, NEW y \in Steps
  PROVE  /\ <<x>> \in Seq(Steps) /\ <<x>> # <<>> /\ DOMAIN <<x>> = {1} /\ <<x>>[1] = x
         /\ <<x, y>> \in Seq(Steps) /\ DOMAIN <<x, y>> = {1, 2}
         /\ <<x, y>>[1] = x /\ <<x, y>>[2] = y
  OBVIOUS

LEMMA SecondOf ==
  ASSUME NEW us \in Seq(Keys), us # <<>>, Len(us) # 1
  PROVE  us[2] \in Keys
<1>1. Len(us) \in Nat /\ Len(us) # 0 /\ Len(us) # 1
  OBVIOUS
<1>a. \A n \in Nat : n # 0 /\ n # 1 => 2 \in 1 .. n
  OBVIOUS
<1>2. 2 \in 1 .. Len(us)
  BY <1>1, <1>a
<1>3. DOMAIN us = 1 .. Len(us) /\ \A i \in 1 .. Len(us) : us[i] \in Keys
  OBVIOUS
<1> QED BY <1>2, <1>3

LEMMA FriendSound ==
  ASSUME NEW r \in Requests, Ask[r].op = "friend"
  PROVE  Sound(ManageFriend(Ask[r]), Ask[r].group)
<1> DEFINE q == Ask[r]
           g == q.group
           a == <<S("query", q.users[1]), S("touch", q.users[1])>>
           b == IF Len(q.users) = 1 THEN <<>>
                ELSE <<S("query", q.users[2]), S("touch", q.users[2])>>
           c == <<S("answer", g)>>
<1>1. g \in Keys /\ q.users \in Seq(Keys) /\ q.users # <<>> /\ q.users[1] \in Keys
      /\ (Len(q.users) # 1 => q.users[2] \in Keys)
  <2>1. g \in Keys /\ q.users \in Seq(Keys) /\ q.users # <<>> /\ q.users[1] \in Keys
    BY KeysOfAsk
  <2>2. Len(q.users) # 1 => q.users[2] \in Keys
    BY <2>1, SecondOf
  <2> QED BY <2>1, <2>2
<1>2. \A k \in Keys : S("query", k) \in Steps /\ S("touch", k) \in Steps /\ S("answer", k) \in Steps
      /\ S("query", k).do = "query" /\ S("touch", k).do = "touch" /\ S("answer", k).do = "answer"
  BY DEF S, Steps, Dos, Writes
<1>3. Sound(c, g)
  <2>1. c \in Seq(Steps) /\ c # <<>> /\ DOMAIN c = {1} /\ c[1].do = "answer"
    BY <1>1, <1>2, ShortSequences
  <2> HIDE DEF c
  <2>2. Whole(c) /\ Fit(c, g)
    BY <2>1 DEF Whole, Fit
  <2> QED BY <2>1, <2>2 DEF Sound
<1>4. a \in Seq(Steps) /\ \A i \in DOMAIN a : Harmless(a[i], g, c)
  <2>1. a \in Seq(Steps) /\ DOMAIN a = {1, 2} /\ a[1].do = "query" /\ a[2].do = "touch"
    BY <1>1, <1>2, ShortSequences
  <2> QED BY <2>1 DEF Harmless
<1>5. b \in Seq(Steps) /\ \A i \in DOMAIN b : Harmless(b[i], g, c)
  <2>1. CASE Len(q.users) = 1
    BY <2>1
  <2>2. CASE Len(q.users) # 1
    <3> DEFINE d == <<S("query", q.users[2]), S("touch", q.users[2])>>
    <3>1. d \in Seq(Steps) /\ DOMAIN d = {1, 2} /\ d[1].do = "query" /\ d[2].do = "touch"
      BY <1>1, <1>2, <2>2, ShortSequences
    <3>2. b = d
      BY <2>2
    <3> HIDE DEF d, b
    <3> QED BY <3>1, <3>2 DEF Harmless
  <2> QED BY <2>1, <2>2
<1> HIDE DEF a, b, c
<1>6. a \o b \in Seq(Steps) /\ \A i \in DOMAIN (a \o b) : Harmless((a \o b)[i], g, c)
  BY <1>4, <1>5, Joined
<1>7. Sound((a \o b) \o c, g)
  BY <1>3, <1>6, SoundJoined
<1> QED BY <1>7 DEF ManageFriend, a, b, c

LEMMA ShortSound ==
  ASSUME NEW g \in Keys, NEW k \in Keys, NEW q, q.group = g, q.users[1] = k
  PROVE  Sound(SetUserInfo(q), g) /\ Sound(SetQuietly(q), g) /\ Sound(UpdateList(q), g)
<1>1. /\ S("query", k) \in Steps /\ S("update", k) \in Steps /\ S("quiet", k) \in Steps
      /\ S("answer", g) \in Steps /\ S("refresh", k) \in Steps
  BY DEF S, Steps, Dos, Writes
<1>2. Sound(SetUserInfo(q), g)
  <2> DEFINE s == <<S("query", k), S("update", k), S("answer", g), S("refresh", k)>>
  <2>1. /\ s \in Seq(Steps) /\ s # <<>> /\ DOMAIN s = {1, 2, 3, 4}
        /\ s[1] = S("query", k) /\ s[2] = S("update", k) /\ s[3] = S("answer", g)
        /\ s[4] = S("refresh", k)
    BY <1>1
  <2>2. SetUserInfo(q) = s
    BY DEF SetUserInfo
  <2> HIDE DEF s
  <2>3. \A i \in DOMAIN s : \/ i = 2 /\ s[i].do = "update" /\ s[i].key = k
                            \/ s[i].do \in {"query", "answer", "refresh"}
    BY <2>1 DEF S
  <2>4. Whole(s) /\ Fit(s, g)
    BY <2>1, <2>3 DEF Whole, Fit
  <2> QED BY <2>1, <2>2, <2>4 DEF Sound
<1>3. Sound(SetQuietly(q), g)
  <2> DEFINE s == <<S("query", k), S("quiet", k), S("answer", g)>>
  <2>1. /\ s \in Seq(Steps) /\ s # <<>> /\ DOMAIN s = {1, 2, 3}
        /\ s[1] = S("query", k) /\ s[2] = S("quiet", k) /\ s[3] = S("answer", g)
    BY <1>1
  <2>2. SetQuietly(q) = s
    BY DEF SetQuietly
  <2> HIDE DEF s
  <2>3. \A i \in DOMAIN s : s[i].do \in {"query", "quiet", "answer"}
    BY <2>1 DEF S
  <2>4. Whole(s) /\ Fit(s, g)
    BY <2>3 DEF Whole, Fit
  <2> QED BY <2>1, <2>2, <2>4 DEF Sound
<1>4. Sound(UpdateList(q), g)
  <2> DEFINE s == <<S("refresh", k), S("answer", g)>>
  <2>1. /\ s \in Seq(Steps) /\ s # <<>> /\ DOMAIN s = {1, 2}
        /\ s[1] = S("refresh", k) /\ s[2] = S("answer", g)
    BY <1>1
  <2>2. UpdateList(q) = s
    BY DEF UpdateList
  <2> HIDE DEF s
  <2>3. \A i \in DOMAIN s : s[i].do \in {"refresh", "answer"}
    BY <2>1 DEF S
  <2>4. Whole(s) /\ Fit(s, g)
    BY <2>3 DEF Whole, Fit
  <2> QED BY <2>1, <2>2, <2>4 DEF Sound
<1> QED BY <1>2, <1>3, <1>4

LEMMA PlanSound ==
  ASSUME NEW r \in Requests
  PROVE  Sound(Plan(Ask[r]), Ask[r].group)
<1> DEFINE q == Ask[r]
<1>1. q.op \in Ops /\ q.group \in Groups /\ q.group \in Keys
      /\ (q.op \in {"profile", "quiet", "refresh"} => q.users[1] \in Keys)
  BY KeysOfAsk
<1>2. CASE q.op = "create"
  BY <1>2, CreateSound DEF Plan
<1>3. CASE q.op \in {"add", "del", "modify"}
  BY <1>3, ChangeSound DEF Plan
<1>4. CASE q.op = "dissolve"
  BY <1>1, <1>4, DissolveSound DEF Plan
<1>5. CASE q.op = "friend"
  BY <1>5, FriendSound DEF Plan
<1>6. CASE q.op = "profile"
  BY <1>1, <1>6, ShortSound DEF Plan
<1>7. CASE q.op = "quiet"
  BY <1>1, <1>7, ShortSound DEF Plan
<1>8. CASE q.op = "refresh"
  BY <1>1, <1>8, ShortSound DEF Plan
<1> QED BY <1>1, <1>2, <1>3, <1>4, <1>5, <1>6, <1>7, <1>8 DEF Ops

-----------------------------------------------------------------------------
(* Types, and the shape of what is ahead of a handler.                     *)

LEMMA Moved ==
  ASSUME TypeOK, Fitting, NEW w \in Workers, todo[w] # <<>>, serving' = serving,
         NEW x \in Seq(Steps), x # <<>> => Fit(x, Group(w)),
         todo' = [todo EXCEPT ![w] = x]
  PROVE  /\ todo' \in [Workers -> Seq(Steps)] /\ todo'[w] = x
         /\ \A v \in Workers : todo'[v] # <<>> => serving'[v] \in Requests
         /\ Fitting'
         /\ \A v \in Workers : v # w => todo'[v] = todo[v]
<1>1. todo' \in [Workers -> Seq(Steps)] /\ todo'[w] = x
      /\ \A v \in Workers : v # w => todo'[v] = todo[v]
  BY DEF TypeOK
<1>2. \A v \in Workers : todo'[v] # <<>> => serving'[v] \in Requests
  BY <1>1 DEF TypeOK
<1>3. ASSUME NEW v \in Workers, todo'[v] # <<>>
      PROVE  Fit(todo'[v], Group(v)')
  <2>1. Group(v)' = Group(v)
    BY DEF Group
  <2>2. CASE v = w
    BY <1>1, <1>3, <2>1, <2>2
  <2>3. CASE v # w
    BY <1>1, <1>3, <2>1, <2>3 DEF Fitting
  <2> QED BY <2>2, <2>3
<1> QED BY <1>1, <1>2, <1>3 DEF Fitting

\* What the three moves of a handler make of its steps.
LEMMA PopTo ==
  ASSUME TypeOK, Fitting, NEW w \in Workers, todo[w] # <<>>
  PROVE  /\ Tail(todo[w]) \in Seq(Steps) /\ Fit(Tail(todo[w]), Group(w))
         /\ \A i \in DOMAIN Tail(todo[w]) : Tail(todo[w])[i].do # "store"
         /\ Head(todo[w]) \in Steps /\ Key(w) \in Keys
         /\ Head(todo[w]) = S(Head(todo[w]).do, Key(w))
<1>1. todo[w] \in Seq(Steps) /\ Fit(todo[w], Group(w))
  BY DEF TypeOK, Fitting
<1>2. Head(todo[w]) \in Steps
  BY <1>1, TailOf
<1>3. Key(w) \in Keys /\ Head(todo[w]) = S(Head(todo[w]).do, Key(w))
  BY <1>2 DEF Key, S, Steps
<1> QED BY <1>1, <1>2, <1>3, TailOf, FitTail, TailWhole

LEMMA TurnTo ==
  ASSUME TypeOK, Fitting, NEW w \in Workers, todo[w] # <<>>, NEW do \in {"refresh", "store"}
  PROVE  LET x == <<S(do, Key(w))>> \o Tail(todo[w]) IN
           x \in Seq(Steps) /\ Fit(x, Group(w)) /\ x # <<>> /\ Head(x) = S(do, Key(w))
<1>1. todo[w] \in Seq(Steps) /\ Fit(todo[w], Group(w)) /\ Key(w) \in Keys
  BY PopTo DEF TypeOK, Fitting
<1>2. S(do, Key(w)) \in Steps /\ S(do, Key(w)).do \in {"refresh", "store"}
  BY <1>1 DEF S, Steps, Dos
<1> QED BY <1>1, <1>2, FitTurn

LEMMA WriteMove ==
  ASSUME TypeOK, Fitting, NEW w \in Workers, todo[w] # <<>>, serving' = serving, AfterWrite(w)
  PROVE  \E x \in Seq(Steps) : Fit(x, Group(w)) /\ todo' = [todo EXCEPT ![w] = x]
<1>1. CASE Turn(w, "refresh")
  BY <1>1, TurnTo DEF Turn
<1>2. CASE Pop(w)
  BY <1>2, PopTo DEF Pop
<1> QED BY <1>1, <1>2 DEF AfterWrite

LEMMA ListedTo ==
  ASSUME TypeOK, Fitting, NEW w \in Workers, At(w, "list"), NEW us \in Orders(rows[Key(w)])
  PROVE  LET p == Each("refresh", us)
             x == p \o Tail(todo[w]) IN
           /\ p \in Seq(Steps) /\ x \in Seq(Steps) /\ Fit(x, Group(w))
           /\ \A i \in DOMAIN x : x[i].do # "store"
           /\ \A u \in rows[Key(w)] : Has(p, rows, u)
<1> DEFINE p == Each("refresh", us)
           t == Tail(todo[w])
<1>1. todo[w] # <<>> /\ t \in Seq(Steps) /\ Fit(t, Group(w))
      /\ \A i \in DOMAIN t : t[i].do # "store"
  BY PopTo DEF At
<1>2. Key(w) \in Groups
  <2>1. todo[w] \in Seq(Steps) /\ Fit(todo[w], Group(w)) /\ Head(todo[w]).do = "list"
        /\ serving[w] \in Requests
    BY <1>1 DEF TypeOK, Fitting, At
  <2>2. Key(w) = Group(w)
    BY <1>1, <2>1, TailOf DEF Fit, Key
  <2>3. Ask[serving[w]].group \in Groups
    BY <2>1, KeysOfAsk
  <2> QED BY <2>2, <2>3 DEF Group
<1>3. us \in Seq(Keys) /\ \A u \in rows[Key(w)] : \E i \in DOMAIN us : us[i] = u
  <2>1. rows[Key(w)] \subseteq Keys
    BY <1>2 DEF TypeOK, Keys
  <2>2. us \in [1 .. Cardinality(rows[Key(w)]) -> rows[Key(w)]]
        /\ \A u \in rows[Key(w)] : \E i \in DOMAIN us : us[i] = u
    BY DEF Orders
  <2>3. Cardinality(rows[Key(w)]) \in Nat
    BY <1>2, FS_CardinalityType, FS_Subset DEF TypeOK
  <2> QED BY <2>1, <2>2, <2>3
<1>4. p \in Seq(Steps) /\ DOMAIN p = DOMAIN us /\ \A i \in DOMAIN p : p[i] = S("refresh", us[i])
  <2>1. "refresh" \in Dos
    BY DEF Dos
  <2> QED BY <1>3, <2>1, EachOf
<1>5. \A i \in DOMAIN p : p[i].do = "refresh"
  BY <1>4 DEF S
<1>6. \A u \in rows[Key(w)] : Has(p, rows, u)
  BY <1>3, <1>4 DEF Has
<1> HIDE DEF p, t
<1>7. p \o t \in Seq(Steps) /\ Fit(p \o t, Group(w))
  BY <1>1, <1>4, <1>5, Joined, FitJoined DEF Harmless
<1>8. \A i \in DOMAIN (p \o t) : (p \o t)[i].do # "store"
  BY <1>1, <1>4, <1>5, Joined
<1> QED BY <1>4, <1>6, <1>7, <1>8 DEF p, t

LEMMA InitType == Init => TypeOK /\ Fitting
<1> SUFFICES ASSUME Init PROVE TypeOK /\ Fitting
    OBVIOUS
<1>1. todo \in [Workers -> Seq(Steps)] /\ \A w \in Workers : todo[w] = <<>>
  BY DEF Init
<1> QED BY <1>1, BatchesAssumption DEF Init, TypeOK, Fitting, Codes

LEMMA NextType == TypeOK /\ Fitting /\ [Next]_vars => TypeOK' /\ Fitting'
<1> SUFFICES ASSUME TypeOK, Fitting, [Next]_vars
             PROVE  TypeOK' /\ Fitting'
    OBVIOUS
<1>1. ASSUME NEW w \in Workers, NEW r \in Requests, Receive(w, r)
      PROVE  TypeOK' /\ Fitting'
  <2>1. Plan(Ask[r]) \in Seq(Steps) /\ Fit(Plan(Ask[r]), Ask[r].group)
    BY PlanSound DEF Sound
  <2>2. /\ todo' \in [Workers -> Seq(Steps)] /\ todo'[w] = Plan(Ask[r])
        /\ \A v \in Workers : v # w => todo'[v] = todo[v]
    BY <1>1, <2>1 DEF Receive, TypeOK
  <2>3. /\ serving' \in [Workers -> Requests \cup {NoRequest}] /\ serving'[w] = r
        /\ \A v \in Workers : v # w => serving'[v] = serving[v]
    BY <1>1 DEF Receive, TypeOK
  <2>4. \A v \in Workers : todo'[v] # <<>> => serving'[v] \in Requests
    BY <2>2, <2>3 DEF TypeOK
  <2>5. ASSUME NEW v \in Workers, todo'[v] # <<>>
        PROVE  Fit(todo'[v], Group(v)')
    <3>1. CASE v = w
      BY <2>1, <2>2, <2>3, <3>1 DEF Group
    <3>2. CASE v # w
      <4>1. Group(v)' = Group(v) /\ todo'[v] = todo[v]
        BY <2>2, <2>3, <3>2 DEF Group
      <4> QED BY <2>5, <4>1 DEF Fitting
    <3> QED BY <3>1, <3>2
  <2>6. ret' \in [Workers -> {"success", "fail", "any"}] /\ done' \in [Workers -> SUBSET Steps]
        /\ waiting' \subseteq Requests
    BY <1>1 DEF Receive, TypeOK, FirstRet
  <2>7. Fitting'
    BY <2>5 DEF Fitting
  <2> QED BY <1>1, <2>2, <2>3, <2>4, <2>6, <2>7 DEF Receive, TypeOK, dbVars
<1>2. ASSUME NEW w \in Workers, todo[w] # <<>>, serving' = serving,
             NEW x \in Seq(Steps), x # <<>> => Fit(x, Group(w)), todo' = [todo EXCEPT ![w] = x]
      PROVE  /\ todo' \in [Workers -> Seq(Steps)] /\ Fitting'
             /\ \A v \in Workers : todo'[v] # <<>> => serving'[v] \in Requests
  BY <1>2, Moved
<1>3. ASSUME NEW w \in Workers, Query(w) \/ Answer(w)
      PROVE  TypeOK' /\ Fitting'
  <2>1. todo[w] # <<>> /\ serving' = serving /\ todo' = [todo EXCEPT ![w] = Tail(todo[w])]
    BY <1>3 DEF Query, Answer, At, Pop
  <2>2. todo' \in [Workers -> Seq(Steps)] /\ Fitting'
        /\ \A v \in Workers : todo'[v] # <<>> => serving'[v] \in Requests
    BY <1>2, <2>1, PopTo
  <2>3. answer' \in [Requests -> [code : Codes \cup {"none"}, did : SUBSET Steps]]
    <3>1. CASE Query(w)
      BY <3>1 DEF Query, TypeOK
    <3>2. CASE Answer(w)
      <4>1. serving[w] \in Requests /\ done[w] \in SUBSET Steps /\ ret[w] \in {"success", "fail", "any"}
        BY <2>1 DEF TypeOK
      <4>2. PICK code \in Codes : answer' = [answer EXCEPT ![serving[w]] = [code |-> code, did |-> done[w]]]
        BY <3>2, <4>1 DEF Answer, Codes
      <4>3. [code |-> code, did |-> done[w]] \in [code : Codes \cup {"none"}, did : SUBSET Steps]
        BY <4>1
      <4> QED BY <4>1, <4>2, <4>3 DEF TypeOK
    <3> QED BY <1>3, <3>1, <3>2
  <2> QED BY <1>3, <2>2, <2>3 DEF Query, Answer, TypeOK, dbVars
<1>4. ASSUME NEW w \in Workers, QueryFails(w)
      PROVE  TypeOK' /\ Fitting'
  <2>1. todo[w] # <<>> /\ serving' = serving /\ todo' = [todo EXCEPT ![w] = <<>>]
    BY <1>4 DEF QueryFails, At, Break
  <2>2. todo' \in [Workers -> Seq(Steps)] /\ Fitting'
        /\ \A v \in Workers : todo'[v] # <<>> => serving'[v] \in Requests
    <3>1. <<>> \in Seq(Steps)
      OBVIOUS
    <3> QED BY <1>2, <2>1, <3>1
  <2>3. adrift' \in [Keys -> BOOLEAN]
    BY <1>4 DEF QueryFails, Break, TypeOK
  <2> QED BY <1>4, <2>2, <2>3 DEF QueryFails, TypeOK, dbVars
<1>5. ASSUME NEW w \in Workers, Execute(w)
      PROVE  TypeOK' /\ Fitting'
  <2>1. todo[w] # <<>> /\ serving' = serving /\ Key(w) \in Keys /\ Head(todo[w]) \in Steps
    BY <1>5, PopTo DEF Execute, At
  <2>2. todo' \in [Workers -> Seq(Steps)] /\ Fitting'
        /\ \A v \in Workers : todo'[v] # <<>> => serving'[v] \in Requests
    BY <1>2, <1>5, <2>1, WriteMove DEF Execute
  <2>3. db' \in [Keys -> Nat]
    BY <1>5 DEF Execute, TypeOK
  <2>4. rows' \in [Groups -> SUBSET Users]
    <3>1. Fit(todo[w], Group(w)) /\ todo[w] \in Seq(Steps)
      BY <2>1 DEF Fitting, TypeOK
    <3>2. At(w, "create") \/ At(w, "add") => Key(w) \in Users
      BY <2>1, <3>1, FitHas DEF At, Key
    <3> QED BY <1>5, <3>2 DEF Execute, TypeOK
  <2>5. ret' \in [Workers -> {"success", "fail", "any"}]
    BY <1>5 DEF Execute, TypeOK
  <2>6. done' \in [Workers -> SUBSET Steps]
    BY <1>5, <2>1 DEF Execute, Ended, TypeOK
  <2>7. adrift' \in [Keys -> BOOLEAN]
    BY <1>5 DEF Execute, TypeOK
  <2> QED BY <1>5, <2>2, <2>3, <2>4, <2>5, <2>6, <2>7 DEF Execute, TypeOK
<1>6. ASSUME NEW w \in Workers, ExecuteFails(w)
      PROVE  TypeOK' /\ Fitting'
  <2>1. todo[w] # <<>> /\ serving' = serving
    BY <1>6 DEF ExecuteFails, At
  <2>2. todo' \in [Workers -> Seq(Steps)] /\ Fitting'
        /\ \A v \in Workers : todo'[v] # <<>> => serving'[v] \in Requests
    <3>1. CASE AfterWrite(w)
      BY <1>2, <2>1, <3>1, WriteMove
    <3>2. CASE Break(w)
      <4>1. <<>> \in Seq(Steps) /\ todo' = [todo EXCEPT ![w] = <<>>]
        BY <3>2 DEF Break
      <4> QED BY <1>2, <2>1, <4>1
    <3> QED BY <1>6, <3>1, <3>2 DEF ExecuteFails
  <2>3. adrift' \in [Keys -> BOOLEAN]
    BY <1>6 DEF ExecuteFails, Break, TypeOK
  <2>4. ret' \in [Workers -> {"success", "fail", "any"}]
    BY <1>6 DEF ExecuteFails, TypeOK
  <2> QED BY <1>6, <2>2, <2>3, <2>4 DEF ExecuteFails, TypeOK, dbVars
<1>7. ASSUME NEW w \in Workers, Select(w)
      PROVE  TypeOK' /\ Fitting'
  <2>1. todo[w] # <<>> /\ serving' = serving /\ Key(w) \in Keys
        /\ todo' = [todo EXCEPT ![w] = <<S("store", Key(w))>> \o Tail(todo[w])]
    BY <1>7, PopTo DEF Select, At, Turn
  <2>2. todo' \in [Workers -> Seq(Steps)] /\ Fitting'
        /\ \A v \in Workers : todo'[v] # <<>> => serving'[v] \in Requests
    BY <1>2, <2>1, TurnTo
  <2>3. snap' \in [Workers -> Nat] /\ adrift' \in [Keys -> BOOLEAN]
    BY <1>7, <2>1 DEF Select, TypeOK
  <2>4. ret' \in [Workers -> {"success", "fail", "any"}]
    BY <1>7 DEF Select, TypeOK
  <2> QED BY <1>7, <2>2, <2>3, <2>4 DEF Select, TypeOK, dbVars
<1>8. ASSUME NEW w \in Workers, SelectNothing(w) \/ SelectFails(w) \/ Store(w) \/ StoreLost(w)
      PROVE  TypeOK' /\ Fitting'
  <2>1. todo[w] # <<>> /\ serving' = serving /\ Key(w) \in Keys /\ Head(todo[w]) \in Steps
        /\ todo' = [todo EXCEPT ![w] = Tail(todo[w])]
    BY <1>8, PopTo DEF SelectNothing, SelectFails, Store, StoreLost, At, Pop
  <2>2. todo' \in [Workers -> Seq(Steps)] /\ Fitting'
        /\ \A v \in Workers : todo'[v] # <<>> => serving'[v] \in Requests
    BY <1>2, <2>1, PopTo
  <2>3. cache' \in [Keys -> Nat] /\ adrift' \in [Keys -> BOOLEAN]
    <3>1. CASE SelectNothing(w) \/ SelectFails(w) \/ StoreLost(w)
      BY <3>1 DEF SelectNothing, SelectFails, StoreLost, TypeOK
    <3>2. CASE Store(w)
      <4>1. snap[w] \in Nat
        BY DEF TypeOK
      <4> QED BY <2>1, <3>2, <4>1 DEF Store, TypeOK
    <3> QED BY <1>8, <3>1, <3>2
  <2>4. ret' \in [Workers -> {"success", "fail", "any"}] /\ done' \in [Workers -> SUBSET Steps]
    <3>1. CASE SelectNothing(w) \/ SelectFails(w) \/ StoreLost(w)
      BY <3>1 DEF SelectNothing, SelectFails, StoreLost, TypeOK
    <3>2. CASE Store(w)
      BY <2>1, <3>2 DEF Store, TypeOK, Ended
    <3> QED BY <1>8, <3>1, <3>2
  <2> QED BY <1>8, <2>2, <2>3, <2>4 DEF SelectNothing, SelectFails, Store, StoreLost, TypeOK, dbVars
<1>9. ASSUME NEW w \in Workers, ListMembers(w)
      PROVE  TypeOK' /\ Fitting'
  <2>1. todo[w] # <<>> /\ serving' = serving
    BY <1>9 DEF ListMembers, At
  <2>2. \E x \in Seq(Steps) : Fit(x, Group(w)) /\ todo' = [todo EXCEPT ![w] = x]
    BY <1>9, ListedTo DEF ListMembers
  <2>3. todo' \in [Workers -> Seq(Steps)] /\ Fitting'
        /\ \A v \in Workers : todo'[v] # <<>> => serving'[v] \in Requests
    BY <1>2, <2>1, <2>2
  <2> QED BY <1>9, <2>3 DEF ListMembers, TypeOK, dbVars
<1>10. ASSUME Crash
       PROVE  TypeOK' /\ Fitting'
  <2>1. todo' \in [Workers -> Seq(Steps)] /\ \A v \in Workers : todo'[v] = <<>>
    BY <1>10 DEF Crash
  <2> QED BY <1>10, <2>1 DEF Crash, TypeOK, Fitting, dbVars
<1>11. ASSUME UNCHANGED vars
       PROVE  TypeOK' /\ Fitting'
  BY <1>11 DEF vars, dbVars, jobVars, TypeOK, Fitting, Group
<1> QED BY <1>1, <1>3, <1>4, <1>5, <1>6, <1>7, <1>8, <1>9, <1>10, <1>11 DEF Next, Work

-----------------------------------------------------------------------------
(* Every step keeps the invariant.                                         *)

Inv2 == CacheCurrent /\ Pending /\ Ordered

LEMMA OwesIs ==
  /\ \A w, k : Owes(w, k) = Has(todo[w], rows, k)
  /\ \A w, k : Owes(w, k)' = Has(todo'[w], rows', k)
  BY DEF Owes, Has

LEMMA HasMore ==
  ASSUME NEW s \in Seq(Steps), NEW rw, NEW rw2, NEW k, Has(s, rw, k),
         \A i \in DOMAIN s : s[i].do = "list" => rw[s[i].key] \subseteq rw2[s[i].key]
  PROVE  Has(s, rw2, k)
BY DEF Has

\* Rows are never taken out.
LEMMA RowsGrow ==
  ASSUME TypeOK, Fitting, [Next]_vars, NEW v \in Workers
  PROVE  \A i \in DOMAIN todo[v] :
           todo[v][i].do = "list" => rows[todo[v][i].key] \subseteq rows'[todo[v][i].key]
<1> SUFFICES ASSUME NEW i \in DOMAIN todo[v], todo[v][i].do = "list"
             PROVE  rows[todo[v][i].key] \subseteq rows'[todo[v][i].key]
    OBVIOUS
<1>1. todo[v] \in Seq(Steps) /\ todo[v] # <<>>
  BY DEF TypeOK
<1>2. serving[v] \in Requests /\ Fit(todo[v], Group(v))
  BY <1>1 DEF TypeOK, Fitting
<1>3. Ask[serving[v]].group \in Groups
  BY <1>2, KeysOfAsk
<1>4. todo[v][i].key \in Groups
  BY <1>2, <1>3 DEF Fit, Group
<1>5. ASSUME NEW w \in Workers, Execute(w)
      PROVE  rows[todo[v][i].key] \subseteq rows'[todo[v][i].key]
  <2>1. rows' = rows \/ rows' = [rows EXCEPT ![Group(w)] = @ \cup {Key(w)}]
    BY <1>5 DEF Execute
  <2>2. CASE rows' = rows
    BY <2>2
  <2>3. CASE rows' = [rows EXCEPT ![Group(w)] = @ \cup {Key(w)}]
    <3>1. rows \in [Groups -> SUBSET Users]
      BY DEF TypeOK
    <3>2. \A g \in Groups : rows[g] \subseteq rows'[g]
      BY <2>3, <3>1
    <3> QED BY <1>4, <3>2
  <2> QED BY <2>1, <2>2, <2>3
<1>6. rows' = rows \/ \E w \in Workers : Execute(w)
  BY DEF Next, Work, Receive, Query, QueryFails, ExecuteFails, Select, SelectNothing, SelectFails, Store,
         StoreLost, ListMembers, Answer, Crash, vars, dbVars
<1> QED BY <1>5, <1>6

LEMMA RowsGrowTail ==
  ASSUME TypeOK, Fitting, [Next]_vars, NEW v \in Workers, todo[v] # <<>>
  PROVE  \A i \in DOMAIN Tail(todo[v]) :
           Tail(todo[v])[i].do = "list" =>
             rows[Tail(todo[v])[i].key] \subseteq rows'[Tail(todo[v])[i].key]
<1> SUFFICES ASSUME NEW i \in DOMAIN Tail(todo[v]), Tail(todo[v])[i].do = "list"
             PROVE  rows[Tail(todo[v])[i].key] \subseteq rows'[Tail(todo[v])[i].key]
    OBVIOUS
<1>1. todo[v] \in Seq(Steps)
  BY DEF TypeOK
<1>2. i + 1 \in DOMAIN todo[v] /\ todo[v][i + 1] = Tail(todo[v])[i]
  BY <1>1, TailOf
<1>3. \A j \in DOMAIN todo[v] :
        todo[v][j].do = "list" => rows[todo[v][j].key] \subseteq rows'[todo[v][j].key]
  BY RowsGrow
<1> QED BY <1>2, <1>3

\* A worker v that does nothing in a step still owes what it owed.
LEMMA OthersOwe ==
  ASSUME TypeOK, Fitting, [Next]_vars, NEW v \in Workers, todo'[v] = todo[v], NEW k, Owes(v, k)
  PROVE  Owes(v, k)'
<1>1. todo[v] \in Seq(Steps) /\ Has(todo[v], rows, k)
  BY OwesIs DEF TypeOK
<1>2. Has(todo[v], rows', k)
  BY <1>1, RowsGrow, HasMore
<1> QED BY <1>2, OwesIs

\* The steps that change neither side: w moves on.
LEMMA Steady ==
  ASSUME TypeOK, Fitting, Inv2, [Next]_vars, NEW w \in Workers,
         db' = db, cache' = cache, snap' = snap,
         \A v \in Workers : v # w => todo'[v] = todo[v],
         \A k \in Keys : adrift[k] => adrift'[k],
         \A k \in Keys : ~ Storing(w, k)',
         \A k \in Keys : Owes(w, k) => Owes(w, k)' \/ adrift'[k] \/ cache[k] = db[k]
  PROVE  Inv2'
<1>1. \A v \in Workers : v # w => \A k \in Keys : Owes(v, k) => Owes(v, k)'
  BY OthersOwe
<1>2. \A v \in Workers, k \in Keys : Storing(v, k)' => v # w /\ Storing(v, k)
  BY DEF Storing, At, Key
<1>3. CacheCurrent'
  <2> SUFFICES ASSUME NEW k \in Keys
               PROVE  cache'[k] = db'[k] \/ adrift'[k] \/ \E v \in Workers : Owes(v, k)'
      BY DEF CacheCurrent
  <2> QED BY <1>1 DEF Inv2, CacheCurrent
<1>4. Pending'
  <2> SUFFICES ASSUME NEW u \in Workers, NEW k \in Keys, Storing(u, k)'
               PROVE  snap'[u] = db'[k] \/ adrift'[k] \/ \E v \in Workers \ {u} : Owes(v, k)'
      BY DEF Pending
  <2>1. u # w /\ Storing(u, k)
    BY <1>2
  <2>2. snap[u] = db[k] \/ adrift[k] \/ \E v \in Workers \ {u} : Owes(v, k)
    BY <2>1 DEF Inv2, Pending
  <2>3. cache[k] = db[k] => snap[u] = db[k] \/ adrift[k]
    <3>1. snap[u] \in Nat /\ db[k] \in Nat /\ cache[k] \in Nat
      BY DEF TypeOK
    <3>2. snap[u] <= db[k] /\ (adrift[k] \/ cache[k] <= snap[u])
      BY <2>1 DEF Inv2, Ordered
    <3> QED BY <3>1, <3>2
  <2> QED BY <1>1, <2>1, <2>2, <2>3
<1>5. Ordered'
  <2>1. \A k \in Keys : cache'[k] <= db'[k]
    BY DEF Inv2, Ordered
  <2>2. \A u \in Workers, k \in Keys :
          Storing(u, k)' => snap'[u] <= db'[k] /\ (adrift'[k] \/ cache'[k] <= snap'[u])
    BY <1>2 DEF Inv2, Ordered
  <2>3. \A u, v \in Workers, k \in Keys :
          u # v /\ Storing(u, k)' /\ Storing(v, k)' => adrift'[k]
    BY <1>2 DEF Inv2, Ordered
  <2> QED BY <2>1, <2>2, <2>3 DEF Ordered
<1> QED BY <1>3, <1>4, <1>5 DEF Inv2

\* What w owes after it has taken off its first step, or turned it into a
\* rebuild.
LEMMA PopOwes ==
  ASSUME TypeOK, Fitting, [Next]_vars, NEW w \in Workers, todo[w] # <<>>, Pop(w)
  PROVE  /\ \A v \in Workers : v # w => todo'[v] = todo[v]
         /\ todo'[w] = Tail(todo[w])
         /\ \A k \in Keys : ~ Storing(w, k)'
         /\ \A k \in Keys :
              Owes(w, k) => \/ Owes(w, k)'
                            \/ At(w, "refresh") /\ Key(w) = k
                            \/ At(w, "store") /\ Key(w) = k
                            \/ At(w, "list")
<1>1. todo'[w] = Tail(todo[w]) /\ \A v \in Workers : v # w => todo'[v] = todo[v]
  BY DEF Pop, TypeOK
<1>2. Tail(todo[w]) \in Seq(Steps) /\ (\A i \in DOMAIN Tail(todo[w]) : Tail(todo[w])[i].do # "store")
      /\ todo[w] \in Seq(Steps)
  BY PopTo DEF TypeOK
<1>3. \A k \in Keys : ~ Storing(w, k)'
  <2>1. Tail(todo[w]) # <<>> => Head(Tail(todo[w])).do # "store"
    BY <1>2, TailOf
  <2> QED BY <1>1, <2>1 DEF Storing, At
<1>4. ASSUME NEW k \in Keys, Owes(w, k), ~ (At(w, "refresh") /\ Key(w) = k),
             ~ (At(w, "store") /\ Key(w) = k), ~ At(w, "list")
      PROVE  Owes(w, k)'
  <2>1. Has(todo[w], rows, k)
    BY <1>4, OwesIs
  <2>2. Head(todo[w]) \notin {S("refresh", k), S("store", k)} /\ Head(todo[w]).do # "list"
    BY <1>4 DEF At, Key, S
  <2>3. Has(Tail(todo[w]), rows, k)
    BY <1>2, <2>1, <2>2, HasTail
  <2>4. \A i \in DOMAIN Tail(todo[w]) : Tail(todo[w])[i].do = "list" =>
          rows[Tail(todo[w])[i].key] \subseteq rows'[Tail(todo[w])[i].key]
    BY RowsGrowTail
  <2>5. Has(Tail(todo[w]), rows', k)
    BY <1>2, <2>3, <2>4, HasMore
  <2> QED BY <1>1, <2>5, OwesIs
<1> QED BY <1>1, <1>3, <1>4

LEMMA TurnOwes ==
  ASSUME TypeOK, Fitting, [Next]_vars, NEW w \in Workers, todo[w] # <<>>,
         NEW do \in {"refresh", "store"}, Turn(w, do)
  PROVE  /\ \A v \in Workers : v # w => todo'[v] = todo[v]
         /\ todo'[w] # <<>> /\ Head(todo'[w]) = S(do, Key(w))
         /\ \A k \in Keys : k = Key(w) => Owes(w, k)'
         /\ \A k \in Keys : Owes(w, k) => Owes(w, k)' \/ At(w, "list")
<1> DEFINE x == <<S(do, Key(w))>>
<1>1. todo'[w] = x \o Tail(todo[w]) /\ \A v \in Workers : v # w => todo'[v] = todo[v]
  BY DEF Turn, TypeOK
<1>2. todo[w] \in Seq(Steps) /\ Tail(todo[w]) \in Seq(Steps) /\ Key(w) \in Keys
      /\ Head(todo[w]) = S(Head(todo[w]).do, Key(w))
  BY PopTo DEF TypeOK
<1>3. x \in Seq(Steps) /\ 1 \in DOMAIN x /\ x[1] = S(do, Key(w))
  <2>1. S(do, Key(w)) \in Steps
    BY <1>2 DEF S, Steps, Dos
  <2> QED BY <2>1, ShortSequences
<1>4. todo'[w] # <<>> /\ Head(todo'[w]) = S(do, Key(w))
  BY <1>1, TurnTo
<1> HIDE DEF x
<1>5. ASSUME NEW k \in Keys, k = Key(w)
      PROVE  Owes(w, k)'
  <2>1. Has(x, rows', k)
    BY <1>3, <1>5 DEF Has
  <2>2. Has(x \o Tail(todo[w]), rows', k)
    BY <1>2, <1>3, <2>1, HasJoined
  <2> QED BY <1>1, <2>2, OwesIs
<1>6. ASSUME NEW k \in Keys, Owes(w, k), ~ At(w, "list")
      PROVE  Owes(w, k)'
  <2>1. CASE k = Key(w)
    BY <1>5, <2>1
  <2>2. CASE k # Key(w)
    <3>1. Head(todo[w]) \notin {S("refresh", k), S("store", k)} /\ Head(todo[w]).do # "list"
      BY <1>6, <2>2 DEF At, Key, S
    <3>2. Has(Tail(todo[w]), rows, k)
      BY <1>2, <1>6, <3>1, HasTail, OwesIs
    <3>3. \A i \in DOMAIN Tail(todo[w]) : Tail(todo[w])[i].do = "list" =>
            rows[Tail(todo[w])[i].key] \subseteq rows'[Tail(todo[w])[i].key]
      BY RowsGrowTail
    <3>4. Has(Tail(todo[w]), rows', k)
      BY <1>2, <3>2, <3>3, HasMore
    <3>5. Has(x \o Tail(todo[w]), rows', k)
      BY <1>2, <1>3, <3>4, HasJoined
    <3> QED BY <1>1, <3>5, OwesIs
  <2> QED BY <2>1, <2>2
<1> QED BY <1>1, <1>4, <1>5, <1>6

LEMMA WriteOwes ==
  ASSUME TypeOK, Fitting, [Next]_vars, NEW w \in Workers, NEW do \in Writes, At(w, do), AfterWrite(w)
  PROVE  /\ \A v \in Workers : v # w => todo'[v] = todo[v]
         /\ \A k \in Keys : ~ Storing(w, k)'
         /\ \A k \in Keys : Owes(w, k) => Owes(w, k)'
<1>1. todo[w] # <<>> /\ ~ At(w, "refresh") /\ ~ At(w, "store") /\ ~ At(w, "list")
  BY DEF At, Writes
<1>2. CASE Pop(w)
  BY <1>1, <1>2, PopOwes
<1>3. CASE Turn(w, "refresh")
  <2>1. /\ \A v \in Workers : v # w => todo'[v] = todo[v]
        /\ todo'[w] # <<>> /\ Head(todo'[w]) = S("refresh", Key(w))
        /\ \A k \in Keys : Owes(w, k) => Owes(w, k)'
    BY <1>1, <1>3, TurnOwes
  <2>2. \A k \in Keys : ~ Storing(w, k)'
    BY <2>1 DEF Storing, At, S
  <2> QED BY <2>1, <2>2
<1> QED BY <1>2, <1>3 DEF AfterWrite

\* A statement that changes the rows behind a key leaves w owing its rebuild.
LEMMA TouchedOwed ==
  ASSUME TypeOK, Fitting, [Next]_vars, NEW w \in Workers, Execute(w), NEW k \in Keys, k \in Touched(w)
  PROVE  Owes(w, k)' \/ adrift'[k]
<1>1. todo[w] # <<>> /\ todo[w] \in Seq(Steps) /\ Fit(todo[w], Group(w))
      /\ serving[w] \in Requests /\ Key(w) \in Keys
  BY PopTo DEF Execute, At, TypeOK, Fitting
<1>2. ASSUME Head(todo[w]).do \in {"create", "add", "exit", "touch"}, k = Key(w)
      PROVE  Owes(w, k)'
  <2>1. Turn(w, "refresh")
    BY <1>2 DEF Execute, AfterWrite
  <2> QED BY <1>1, <1>2, <2>1, TurnOwes
<1>3. ASSUME Has(Tail(todo[w]), rows, k)
      PROVE  Owes(w, k)'
  <2>1. Tail(todo[w]) \in Seq(Steps)
    BY <1>1, PopTo
  <2>2. Has(Tail(todo[w]), rows', k)
    BY <1>1, <1>3, <2>1, RowsGrowTail, HasMore
  <2>3. CASE Pop(w)
    <3>1. todo'[w] = Tail(todo[w])
      BY <2>3 DEF Pop, TypeOK
    <3> QED BY <2>2, <3>1, OwesIs
  <2>4. CASE Turn(w, "refresh")
    <3> DEFINE x == <<S("refresh", Key(w))>>
    <3>1. todo'[w] = x \o Tail(todo[w])
      BY <2>4 DEF Turn, TypeOK
    <3>2. x \in Seq(Steps)
      <4>1. S("refresh", Key(w)) \in Steps
        BY <1>1 DEF S, Steps, Dos
      <4> QED BY <4>1, ShortSequences
    <3> HIDE DEF x
    <3>3. Has(x \o Tail(todo[w]), rows', k)
      BY <2>1, <2>2, <3>2, HasJoined
    <3> QED BY <3>1, <3>3, OwesIs
  <2> QED BY <2>3, <2>4 DEF Execute, AfterWrite
<1>4. CASE At(w, "create") \/ At(w, "add") \/ At(w, "exit")
  <2>1. k \in {Key(w), Group(w)}
    BY <1>4 DEF Touched, At
  <2>2. Has(Tail(todo[w]), rows, Group(w))
    BY <1>1, <1>4, FitHas DEF At
  <2> QED BY <1>2, <1>3, <1>4, <2>1, <2>2 DEF At
<1>5. CASE At(w, "dissolve")
  <2>1. k \in rows[Group(w)] \cup {Group(w)}
    BY <1>5 DEF Touched, At
  <2>2. Has(Tail(todo[w]), rows, Group(w)) /\ \A u \in rows[Group(w)] : Has(Tail(todo[w]), rows, u)
    BY <1>1, <1>5, FitHas DEF At
  <2> QED BY <1>3, <2>1, <2>2
<1>6. CASE At(w, "update")
  <2>1. k = Key(w)
    BY <1>6 DEF Touched, At
  <2>2. Has(Tail(todo[w]), rows, Key(w))
    BY <1>1, <1>6, FitHas DEF At, Key
  <2> QED BY <1>3, <2>1, <2>2
<1>7. CASE At(w, "touch")
  <2>1. k = Key(w)
    BY <1>7 DEF Touched, At
  <2> QED BY <1>2, <1>7, <2>1 DEF At
<1>8. CASE At(w, "quiet")
  <2>1. k = Key(w)
    BY <1>8 DEF Touched, At
  <2> QED BY <1>1, <1>8, <2>1 DEF Execute, TypeOK
<1> QED BY <1>4, <1>5, <1>6, <1>7, <1>8 DEF Execute, Writes

LEMMA ExecuteStep ==
  ASSUME TypeOK, Fitting, Inv2, [Next]_vars, NEW w \in Workers, Execute(w)
  PROVE  Inv2'
<1>1. PICK do \in Writes : At(w, do)
  BY DEF Execute
<1>2. /\ \A v \in Workers : v # w => todo'[v] = todo[v]
      /\ \A k \in Keys : ~ Storing(w, k)'
      /\ \A k \in Keys : Owes(w, k) => Owes(w, k)'
  BY <1>1, WriteOwes DEF Execute
<1>3. /\ cache' = cache /\ snap' = snap
      /\ \A k \in Keys : db'[k] = IF k \in Touched(w) THEN db[k] + 1 ELSE db[k]
      /\ \A k \in Keys : adrift[k] => adrift'[k]
  BY DEF Execute, TypeOK
<1>4. \A k \in Keys : k \in Touched(w) => Owes(w, k)' \/ adrift'[k]
  BY TouchedOwed
<1>5. \A v \in Workers, k \in Keys : Owes(v, k) => Owes(v, k)'
  BY <1>2, OthersOwe
<1>6. \A v \in Workers, k \in Keys : Storing(v, k)' => v # w /\ Storing(v, k)
  BY <1>2 DEF Storing, At, Key
<1>7. ASSUME NEW k \in Keys
      PROVE  db[k] \in Nat /\ cache[k] \in Nat /\ db'[k] \in Nat /\ db[k] <= db'[k]
  <2>1. db[k] \in Nat /\ cache[k] \in Nat
    BY DEF TypeOK
  <2>2. db'[k] = IF k \in Touched(w) THEN db[k] + 1 ELSE db[k]
    BY <1>3
  <2>3. db'[k] = db[k] + 1 \/ db'[k] = db[k]
    BY <2>2
  <2> QED BY <2>1, <2>3
<1>8. \A v \in Workers : snap[v] \in Nat
  BY DEF TypeOK
<1>9. CacheCurrent'
  <2> SUFFICES ASSUME NEW k \in Keys
               PROVE  cache'[k] = db'[k] \/ adrift'[k] \/ \E v \in Workers : Owes(v, k)'
      BY DEF CacheCurrent
  <2> QED BY <1>3, <1>4, <1>5 DEF Inv2, CacheCurrent
<1>10. Pending'
  <2> SUFFICES ASSUME NEW u \in Workers, NEW k \in Keys, Storing(u, k)'
               PROVE  snap'[u] = db'[k] \/ adrift'[k] \/ \E v \in Workers \ {u} : Owes(v, k)'
      BY DEF Pending
  <2>1. u # w /\ Storing(u, k)
    BY <1>6
  <2>2. snap[u] = db[k] \/ adrift[k] \/ \E v \in Workers \ {u} : Owes(v, k)
    BY <2>1 DEF Inv2, Pending
  <2> QED BY <1>3, <1>4, <1>5, <2>1, <2>2
<1>11. Ordered'
  <2>1. \A k \in Keys : cache'[k] <= db'[k]
    BY <1>3, <1>7 DEF Inv2, Ordered
  <2>2. \A u \in Workers, k \in Keys :
          Storing(u, k)' => snap'[u] <= db'[k] /\ (adrift'[k] \/ cache'[k] <= snap'[u])
    BY <1>3, <1>6, <1>7, <1>8 DEF Inv2, Ordered
  <2>3. \A u, v \in Workers, k \in Keys :
          u # v /\ Storing(u, k)' /\ Storing(v, k)' => adrift'[k]
    BY <1>3, <1>6 DEF Inv2, Ordered
  <2> QED BY <2>1, <2>2, <2>3 DEF Ordered
<1> QED BY <1>9, <1>10, <1>11 DEF Inv2

LEMMA SelectStep ==
  ASSUME TypeOK, Fitting, Inv2, [Next]_vars, NEW w \in Workers, Select(w)
  PROVE  Inv2'
<1> DEFINE k0 == Key(w)
<1>1. todo[w] # <<>> /\ k0 \in Keys /\ ~ At(w, "list") /\ ~ At(w, "store")
  BY PopTo DEF Select, At
<1>2. /\ \A v \in Workers : v # w => todo'[v] = todo[v]
      /\ todo'[w] # <<>> /\ Head(todo'[w]) = S("store", k0)
      /\ \A k \in Keys : k = k0 => Owes(w, k)'
      /\ \A k \in Keys : Owes(w, k) => Owes(w, k)'
  BY <1>1, TurnOwes DEF Select
<1>3. /\ cache' = cache /\ db' = db
      /\ snap'[w] = db[k0] /\ \A v \in Workers : v # w => snap'[v] = snap[v]
      /\ adrift'[k0] = \E v \in Workers \ {w} : Storing(v, k0)
      /\ \A k \in Keys : k # k0 => adrift'[k] = adrift[k]
  BY <1>1 DEF Select, TypeOK, dbVars
<1> HIDE DEF k0
<1>5. \A v \in Workers, k \in Keys : Owes(v, k) => Owes(v, k)'
  BY <1>2, OthersOwe
<1>6. /\ \A k \in Keys : Storing(w, k)' => k = k0
      /\ \A v \in Workers, k \in Keys : v # w => (Storing(v, k)' <=> Storing(v, k))
  BY <1>2 DEF Storing, At, Key, S
<1>7. \A k \in Keys : db[k] \in Nat /\ cache[k] <= db[k]
  BY DEF TypeOK, Inv2, Ordered
<1>9. CacheCurrent'
  <2> SUFFICES ASSUME NEW k \in Keys
               PROVE  cache'[k] = db'[k] \/ adrift'[k] \/ \E v \in Workers : Owes(v, k)'
      BY DEF CacheCurrent
  <2>1. CASE k = k0
    BY <1>2, <2>1
  <2>2. CASE k # k0
    BY <1>3, <1>5, <2>2 DEF Inv2, CacheCurrent
  <2> QED BY <2>1, <2>2
<1>10. Pending'
  <2> SUFFICES ASSUME NEW u \in Workers, NEW k \in Keys, Storing(u, k)'
               PROVE  snap'[u] = db'[k] \/ adrift'[k] \/ \E v \in Workers \ {u} : Owes(v, k)'
      BY DEF Pending
  <2>1. CASE u = w
    BY <1>3, <1>6, <2>1
  <2>2. CASE u # w /\ k = k0
    BY <1>3, <1>6, <2>2
  <2>3. CASE u # w /\ k # k0
    BY <1>3, <1>5, <1>6, <2>3 DEF Inv2, Pending
  <2> QED BY <2>1, <2>2, <2>3
<1>11. Ordered'
  <2>1. \A k \in Keys : cache'[k] <= db'[k]
    BY <1>3, <1>7
  <2>2. ASSUME NEW u \in Workers, NEW k \in Keys, Storing(u, k)'
        PROVE  snap'[u] <= db'[k] /\ (adrift'[k] \/ cache'[k] <= snap'[u])
    <3>1. CASE u = w
      BY <1>3, <1>6, <1>7, <2>2, <3>1
    <3>2. CASE u # w
      <4>1. Storing(u, k) /\ snap'[u] = snap[u]
        BY <1>3, <1>6, <2>2, <3>2
      <4>2. snap[u] <= db[k] /\ (adrift[k] \/ cache[k] <= snap[u])
        BY <4>1 DEF Inv2, Ordered
      <4>3. CASE k = k0
        BY <1>3, <3>2, <4>1, <4>2, <4>3
      <4>4. CASE k # k0
        BY <1>3, <4>1, <4>2, <4>4
      <4> QED BY <4>3, <4>4
    <3> QED BY <3>1, <3>2
  <2>3. ASSUME NEW u \in Workers, NEW v \in Workers, NEW k \in Keys,
               u # v, Storing(u, k)', Storing(v, k)'
        PROVE  adrift'[k]
    <3>1. CASE u = w \/ v = w
      BY <1>3, <1>6, <2>3, <3>1
    <3>2. CASE u # w /\ v # w
      <4>1. adrift[k]
        BY <1>6, <2>3, <3>2 DEF Inv2, Ordered
      <4>2. CASE k = k0
        BY <1>3, <1>6, <2>3, <3>2, <4>2
      <4>3. CASE k # k0
        BY <1>3, <4>1, <4>3
      <4> QED BY <4>2, <4>3
    <3> QED BY <3>1, <3>2
  <2> QED BY <2>1, <2>2, <2>3 DEF Ordered
<1> QED BY <1>9, <1>10, <1>11 DEF Inv2

LEMMA StoreStep ==
  ASSUME TypeOK, Fitting, Inv2, [Next]_vars, NEW w \in Workers, Store(w)
  PROVE  Inv2' /\ \A k \in Keys : cache'[k] >= cache[k] \/ adrift[k]
<1> DEFINE k0 == Key(w)
<1>1. todo[w] # <<>> /\ k0 \in Keys /\ ~ At(w, "list") /\ ~ At(w, "refresh") /\ Storing(w, k0)
  BY PopTo DEF Store, At, Storing
<1>2. /\ \A v \in Workers : v # w => todo'[v] = todo[v]
      /\ \A k \in Keys : ~ Storing(w, k)'
      /\ \A k \in Keys : Owes(w, k) => Owes(w, k)' \/ k = k0
  BY <1>1, PopOwes DEF Store
<1>3. /\ db' = db /\ snap' = snap /\ adrift' = adrift
      /\ cache'[k0] = snap[w] /\ \A k \in Keys : k # k0 => cache'[k] = cache[k]
  BY <1>1 DEF Store, TypeOK, dbVars
<1> HIDE DEF k0
<1>4. \A v \in Workers, k \in Keys : v # w /\ Owes(v, k) => Owes(v, k)'
  BY <1>2, OthersOwe
<1>5. \A v \in Workers, k \in Keys : Storing(v, k)' => v # w /\ Storing(v, k)
  BY <1>2 DEF Storing, At, Key
<1>6. /\ snap[w] = db[k0] \/ adrift[k0] \/ \E v \in Workers \ {w} : Owes(v, k0)
      /\ snap[w] <= db[k0] /\ (adrift[k0] \/ cache[k0] <= snap[w])
      /\ \A v \in Workers : v # w /\ Storing(v, k0) => adrift[k0]
  BY <1>1 DEF Inv2, Pending, Ordered
<1>7. \A k \in Keys : db[k] \in Nat /\ cache[k] \in Nat /\ cache[k] <= db[k]
  BY DEF TypeOK, Inv2, Ordered
<1>8. snap[w] \in Nat
  BY DEF TypeOK
<1>9. CacheCurrent'
  <2> SUFFICES ASSUME NEW k \in Keys
               PROVE  cache'[k] = db'[k] \/ adrift'[k] \/ \E v \in Workers : Owes(v, k)'
      BY DEF CacheCurrent
  <2>1. CASE k = k0
    BY <1>3, <1>4, <1>6, <2>1
  <2>2. CASE k # k0
    BY <1>2, <1>3, <1>4, <2>2 DEF Inv2, CacheCurrent
  <2> QED BY <2>1, <2>2
<1>10. Pending'
  <2> SUFFICES ASSUME NEW u \in Workers, NEW k \in Keys, Storing(u, k)'
               PROVE  snap'[u] = db'[k] \/ adrift'[k] \/ \E v \in Workers \ {u} : Owes(v, k)'
      BY DEF Pending
  <2>1. u # w /\ Storing(u, k)
    BY <1>5
  <2>2. snap[u] = db[k] \/ adrift[k] \/ \E v \in Workers \ {u} : Owes(v, k)
    BY <2>1 DEF Inv2, Pending
  <2>3. CASE k = k0
    BY <1>3, <1>6, <2>1, <2>3
  <2>4. CASE k # k0
    BY <1>2, <1>3, <1>4, <2>1, <2>2, <2>4
  <2> QED BY <2>3, <2>4
<1>11. Ordered'
  <2>1. \A k \in Keys : cache'[k] <= db'[k]
    BY <1>3, <1>6, <1>7
  <2>2. ASSUME NEW u \in Workers, NEW k \in Keys, Storing(u, k)'
        PROVE  snap'[u] <= db'[k] /\ (adrift'[k] \/ cache'[k] <= snap'[u])
    <3>1. u # w /\ Storing(u, k)
      BY <1>5, <2>2
    <3>2. snap[u] <= db[k] /\ (adrift[k] \/ cache[k] <= snap[u])
      BY <3>1 DEF Inv2, Ordered
    <3>3. CASE k = k0
      BY <1>3, <1>6, <3>1, <3>2, <3>3
    <3>4. CASE k # k0
      BY <1>3, <3>2, <3>4
    <3> QED BY <3>3, <3>4
  <2>3. \A u, v \in Workers, k \in Keys :
          u # v /\ Storing(u, k)' /\ Storing(v, k)' => adrift'[k]
    BY <1>3, <1>5 DEF Inv2, Ordered
  <2> QED BY <2>1, <2>2, <2>3 DEF Ordered
<1>12. \A k \in Keys : cache'[k] >= cache[k] \/ adrift[k]
  BY <1>3, <1>6, <1>7, <1>8
<1> QED BY <1>9, <1>10, <1>11, <1>12 DEF Inv2

\* The steps of w that take its first step off and change nothing it owes.
LEMMA MovesOn ==
  ASSUME TypeOK, Fitting, Inv2, [Next]_vars, NEW w \in Workers, todo[w] # <<>>, ~ At(w, "list"),
         Pop(w), db' = db, cache' = cache, snap' = snap,
         \A k \in Keys : adrift[k] => adrift'[k],
         At(w, "refresh") \/ At(w, "store") => adrift'[Key(w)]
  PROVE  Inv2'
<1>1. /\ \A v \in Workers : v # w => todo'[v] = todo[v]
      /\ \A k \in Keys : ~ Storing(w, k)'
      /\ \A k \in Keys : Owes(w, k) => \/ Owes(w, k)'
                                       \/ At(w, "refresh") /\ Key(w) = k
                                       \/ At(w, "store") /\ Key(w) = k
  BY PopOwes
<1> QED BY <1>1, Steady

\* A handler that is cut short: what it leaves undone is adrift.
LEMMA CutShort ==
  ASSUME TypeOK, Fitting, Inv2, [Next]_vars, NEW w \in Workers, Break(w),
         db' = db, cache' = cache, snap' = snap
  PROVE  Inv2'
<1>1. todo'[w] = <<>> /\ \A v \in Workers : v # w => todo'[v] = todo[v]
  BY DEF Break, TypeOK
<1>2. \A k \in Keys : adrift'[k] = (adrift[k] \/ (Owes(w, k) /\ cache[k] # db[k]))
  BY DEF Break
<1>3. \A k \in Keys : ~ Storing(w, k)'
  BY <1>1 DEF Storing, At
<1> QED BY <1>1, <1>2, <1>3, Steady

LEMMA ReceiveStep ==
  ASSUME TypeOK, Fitting, Inv2, [Next]_vars, NEW w \in Workers, NEW r \in Requests, Receive(w, r)
  PROVE  Inv2'
<1>1. /\ todo[w] = <<>> /\ todo'[w] = Plan(Ask[r])
      /\ \A v \in Workers : v # w => todo'[v] = todo[v]
  BY DEF Receive, TypeOK
<1>2. Plan(Ask[r]) \in Seq(Steps) /\ Plan(Ask[r]) # <<>> /\ Whole(Plan(Ask[r]))
  BY PlanSound DEF Sound
<1>3. \A k \in Keys : ~ Storing(w, k)'
  <2>1. Head(Plan(Ask[r])).do # "store"
    BY <1>2, TailOf DEF Whole
  <2> QED BY <1>1, <2>1 DEF Storing, At
<1>4. \A k \in Keys : ~ Owes(w, k)
  BY <1>1 DEF Owes
<1>5. db' = db /\ cache' = cache /\ snap' = snap /\ adrift' = adrift
  BY DEF Receive, dbVars
<1> QED BY <1>1, <1>3, <1>4, <1>5, Steady

LEMMA ListStep ==
  ASSUME TypeOK, Fitting, Inv2, [Next]_vars, NEW w \in Workers, ListMembers(w)
  PROVE  Inv2'
<1>1. At(w, "list") /\ todo[w] # <<>>
  BY DEF ListMembers, At
<1>2. PICK us \in Orders(rows[Key(w)]) :
        todo' = [todo EXCEPT ![w] = Each("refresh", us) \o Tail(@)]
  BY DEF ListMembers
<1> DEFINE p == Each("refresh", us)
           t == Tail(todo[w])
<1>3. todo'[w] = p \o t /\ \A v \in Workers : v # w => todo'[v] = todo[v]
  BY <1>2 DEF TypeOK
<1>4. /\ p \in Seq(Steps) /\ p \o t \in Seq(Steps)
      /\ \A i \in DOMAIN (p \o t) : (p \o t)[i].do # "store"
      /\ \A u \in rows[Key(w)] : Has(p, rows, u)
  BY <1>1, ListedTo
<1>5. t \in Seq(Steps) /\ todo[w] \in Seq(Steps)
  BY <1>1, PopTo DEF TypeOK
<1>6. db' = db /\ rows' = rows /\ cache' = cache /\ snap' = snap /\ adrift' = adrift
  BY DEF ListMembers, dbVars
<1> HIDE DEF p, t
<1>7. \A k \in Keys : ~ Storing(w, k)'
  <2>1. p \o t # <<>> => Head(p \o t).do # "store"
    BY <1>4, TailOf
  <2> QED BY <1>3, <2>1 DEF Storing, At
<1>8. ASSUME NEW k \in Keys, Owes(w, k)
      PROVE  Owes(w, k)'
  <2>1. Has(p, rows, k) \/ Has(t, rows, k)
    <3>1. CASE k \in rows[Key(w)]
      BY <1>4, <3>1
    <3>2. CASE k \notin rows[Key(w)]
      <4>1. /\ Head(todo[w]) \notin {S("refresh", k), S("store", k)}
            /\ ~ (Head(todo[w]).do = "list" /\ k \in rows[Head(todo[w]).key])
        BY <1>1, <3>2 DEF At, Key, S
      <4>2. Has(todo[w], rows, k)
        BY <1>8, OwesIs
      <4> QED BY <1>1, <1>5, <4>1, <4>2, HasTail DEF t
    <3> QED BY <3>1, <3>2
  <2>2. Has(p \o t, rows, k)
    BY <1>4, <1>5, <2>1, HasJoined
  <2> QED BY <1>3, <1>6, <2>2, OwesIs
<1> QED BY <1>3, <1>6, <1>7, <1>8, Steady

\* Killed: nobody owes anything, and nobody is half done.
LEMMA CrashStep ==
  ASSUME TypeOK, Inv2, Crash
  PROVE  Inv2'
<1>1. \A w \in Workers : todo'[w] = <<>>
  BY DEF Crash
<1>2. \A w \in Workers, k \in Keys : ~ Storing(w, k)'
  BY <1>1 DEF Storing, At
<1>3. db' = db /\ cache' = cache
      /\ \A k \in Keys : adrift'[k] = (adrift[k] \/ cache[k] # db[k])
  BY DEF Crash, dbVars
<1>4. CacheCurrent'
  <2> SUFFICES ASSUME NEW k \in Keys PROVE cache'[k] = db'[k] \/ adrift'[k]
      BY DEF CacheCurrent
  <2> QED BY <1>3
<1>5. Pending'
  BY <1>2 DEF Pending
<1>6. Ordered'
  <2>1. \A k \in Keys : cache'[k] <= db'[k]
    BY <1>3 DEF Inv2, Ordered
  <2> QED BY <1>2, <2>1 DEF Ordered
<1> QED BY <1>4, <1>5, <1>6 DEF Inv2

LEMMA NextInv2 == TypeOK /\ Fitting /\ Inv2 /\ [Next]_vars => Inv2'
<1> SUFFICES ASSUME TypeOK, Fitting, Inv2, [Next]_vars
             PROVE  Inv2'
    OBVIOUS
<1>1. ASSUME NEW w \in Workers, Query(w) \/ Answer(w)
      PROVE  Inv2'
  <2>1. /\ todo[w] # <<>> /\ ~ At(w, "list") /\ ~ At(w, "refresh") /\ ~ At(w, "store") /\ Pop(w)
        /\ db' = db /\ cache' = cache /\ snap' = snap /\ adrift' = adrift
    BY <1>1 DEF Query, Answer, At, dbVars
  <2> QED BY <2>1, MovesOn
<1>2. ASSUME NEW w \in Workers, QueryFails(w)
      PROVE  Inv2'
  BY <1>2, CutShort DEF QueryFails, dbVars
<1>3. ASSUME NEW w \in Workers, ExecuteFails(w)
      PROVE  Inv2'
  <2>1. PICK do \in Writes : At(w, do)
    BY <1>3 DEF ExecuteFails
  <2>2. db' = db /\ cache' = cache /\ snap' = snap
    BY <1>3 DEF ExecuteFails, dbVars
  <2>3. CASE Break(w)
    BY <2>2, <2>3, CutShort
  <2>4. CASE AfterWrite(w) /\ UNCHANGED adrift
    BY <2>1, <2>2, <2>4, WriteOwes, Steady
  <2> QED BY <1>3, <2>3, <2>4 DEF ExecuteFails
<1>4. ASSUME NEW w \in Workers, SelectNothing(w) \/ SelectFails(w) \/ StoreLost(w)
      PROVE  Inv2'
  <2>1. /\ todo[w] # <<>> /\ ~ At(w, "list") /\ Pop(w)
        /\ db' = db /\ cache' = cache /\ snap' = snap
        /\ adrift' = [adrift EXCEPT ![Key(w)] = TRUE]
    BY <1>4 DEF SelectNothing, SelectFails, StoreLost, At, dbVars
  <2>2. Key(w) \in Keys
    BY <2>1, PopTo
  <2>3. adrift'[Key(w)] /\ \A k \in Keys : adrift[k] => adrift'[k]
    BY <2>1, <2>2 DEF TypeOK
  <2> QED BY <2>1, <2>3, MovesOn
<1>5. CASE UNCHANGED vars
  <2>1. /\ UNCHANGED <<db, rows, cache, todo, snap, adrift>>
    BY <1>5 DEF vars, dbVars, jobVars
  <2>2. CacheCurrent'
    BY <2>1 DEF Inv2, CacheCurrent, Owes
  <2>3. Pending'
    BY <2>1 DEF Inv2, Pending, Storing, Owes, At, Key
  <2>4. Ordered'
    BY <2>1 DEF Inv2, Ordered, Storing, At, Key
  <2> QED BY <2>2, <2>3, <2>4 DEF Inv2
<1>6. CASE Crash
  BY <1>6, CrashStep
<1>7. CASE \E w \in Workers : Work(w)
  <2>1. PICK w \in Workers : Work(w)
    BY <1>7
  <2> QED BY <1>1, <1>2, <1>3, <1>4, <2>1, ReceiveStep, ExecuteStep, SelectStep, StoreStep, ListStep
          DEF Work
<1> QED BY <1>5, <1>6, <1>7 DEF Next

LEMMA Inductive == IInv /\ [Next]_vars => IInv'
BY NextType, NextInv2 DEF IInv, Inv2

LEMMA Initially == Init => IInv
<1> SUFFICES ASSUME Init PROVE IInv
    OBVIOUS
<1>1. TypeOK /\ Fitting
  BY InitType
<1>2. /\ \A w \in Workers, k \in Keys : ~ Storing(w, k)
      /\ \A k \in Keys : db[k] = 0 /\ cache[k] = 0
  BY DEF Init, Storing, At
<1> QED BY <1>1, <1>2 DEF IInv, CacheCurrent, Pending, Ordered

LEMMA Invariance == Spec => []IInv
BY Initially, Inductive, PTL DEF Spec

\* Every variable keeps its type, however many workers serve however many
\* requests, whatever fails and however often the process is killed.
THEOREM TypeCorrect == Spec => []TypeOK
<1>1. IInv => TypeOK
  BY DEF IInv
<1> QED BY <1>1, Invariance, PTL

\* A value in redis that is older than its rows is one some handler is still
\* going to rebuild, or one something happened to that no handler repairs.
THEOREM CacheIsCurrent == Spec => []CacheCurrent
<1>1. IInv => CacheCurrent
  BY DEF IInv
<1> QED BY <1>1, Invariance, PTL

\* Without overlapping rebuilds of a key no rebuild puts an older value in the
\* place of a newer one.
THEOREM BackOnlyByOverlap == Spec => OnlyOverlapsGoBack
<1>1. IInv /\ [Next]_vars => [\A k \in Keys : cache'[k] >= cache[k] \/ adrift[k]]_vars
  <2> SUFFICES ASSUME IInv, [Next]_vars
               PROVE  \A k \in Keys : cache'[k] >= cache[k] \/ adrift[k]
      OBVIOUS
  <2>1. CASE \E w \in Workers : Store(w)
    BY <2>1, StoreStep DEF IInv, Inv2
  <2>2. CASE cache' = cache
    BY <2>2 DEF IInv, TypeOK
  <2>3. cache' = cache \/ \E w \in Workers : Store(w)
    BY DEF Next, Work, Receive, Query, QueryFails, Execute, ExecuteFails, Select, SelectNothing, SelectFails,
           StoreLost, ListMembers, Answer, Crash, vars
  <2> QED BY <2>1, <2>2, <2>3
<1> QED BY <1>1, Invariance, PTL DEF Spec, OnlyOverlapsGoBack

-----------------------------------------------------------------------------
(* The lists of the users are rebuilt before the answer.                   *)

\* Behind the answer comes nothing but rebuilds of the group's own list.
Final(s) ==
  \A i \in DOMAIN s :
    /\ s[i].do # "list"
    /\ s[i].do = "answer" => \A j \in DOMAIN s : j > i => s[j].key \in Groups

\* The handlers that answer last, or all but last.
Answering == {"create", "add", "del", "friend"}

AnswerLast == \A w \in Workers : todo[w] # <<>> /\ Op(w) \in Answering => Final(todo[w])

LEMMA FinalJoined ==
  ASSUME NEW p \in Seq(Steps), NEW t \in Seq(Steps), Final(t),
         \A i \in DOMAIN p : p[i].do \notin {"answer", "list"}
  PROVE  Final(p \o t)
<1> DEFINE x == p \o t
<1>1. /\ \A i \in DOMAIN x : \/ i \in DOMAIN p /\ x[i] = p[i]
                             \/ i - Len(p) \in DOMAIN t /\ x[i] = t[i - Len(p)]
      /\ Len(p) \in Nat /\ DOMAIN x \subseteq Nat
      /\ \A i \in DOMAIN p : i <= Len(p)
      /\ \A i \in DOMAIN t : i >= 1
  BY Joined
<1> HIDE DEF x
<1> SUFFICES ASSUME NEW i \in DOMAIN x
             PROVE  /\ x[i].do # "list"
                    /\ x[i].do = "answer" => \A j \in DOMAIN x : j > i => x[j].key \in Groups
    BY DEF Final, x
<1>2. CASE i \in DOMAIN p /\ x[i] = p[i]
  BY <1>2
<1>3. CASE i - Len(p) \in DOMAIN t /\ x[i] = t[i - Len(p)]
  <2>1. x[i].do # "list"
    BY <1>3 DEF Final
  <2>2. ASSUME x[i].do = "answer", NEW j \in DOMAIN x, j > i
        PROVE  x[j].key \in Groups
    <3>1. j \in Nat /\ i \in Nat /\ i - Len(p) >= 1
      BY <1>1, <1>3
    <3>2. j \notin DOMAIN p
      BY <1>1, <2>2, <3>1
    <3>3. j - Len(p) \in DOMAIN t /\ x[j] = t[j - Len(p)]
      BY <1>1, <3>2
    <3>4. j - Len(p) > i - Len(p)
      BY <1>1, <2>2, <3>1
    <3> QED BY <1>3, <2>2, <3>3, <3>4 DEF Final
  <2> QED BY <2>1, <2>2
<1> QED BY <1>1, <1>2, <1>3

LEMMA FinalTail ==
  ASSUME NEW s \in Seq(Steps), s # <<>>, Final(s)
  PROVE  Final(Tail(s))
<1> DEFINE t == Tail(s)
<1>1. /\ \A i \in DOMAIN t : t[i] = s[i + 1] /\ i + 1 \in DOMAIN s
      /\ DOMAIN t \subseteq Nat
  BY TailOf
<1> HIDE DEF t
<1>2. ASSUME NEW i \in DOMAIN t
      PROVE  t[i].do # "list"
  BY <1>1 DEF Final
<1>3. ASSUME NEW i \in DOMAIN t, t[i].do = "answer", NEW j \in DOMAIN t, j > i
      PROVE  t[j].key \in Groups
  <2>1. i + 1 \in DOMAIN s /\ j + 1 \in DOMAIN s /\ j + 1 > i + 1
        /\ t[i] = s[i + 1] /\ t[j] = s[j + 1]
    BY <1>1, <1>3
  <2> QED BY <1>3, <2>1 DEF Final
<1> QED BY <1>2, <1>3 DEF Final, t

\* The ends of the plans.
LEMMA FinalEnds ==
  ASSUME NEW g \in Groups
  PROVE  /\ Final(<<S("answer", g)>>)
         /\ Final(<<S("answer", g), S("refresh", g)>>)
         /\ Final(<<S("query", g), S("answer", g), S("refresh", g)>>)
<1>1. Final(<<S("answer", g)>>)
  <2> DEFINE s == <<S("answer", g)>>
  <2>1. DOMAIN s = {1} /\ s[1] = S("answer", g)
    OBVIOUS
  <2> HIDE DEF s
  <2>2. \A i, j \in DOMAIN s : ~ j > i
    BY <2>1
  <2> QED BY <2>1, <2>2 DEF Final, S, s
<1>2. Final(<<S("answer", g), S("refresh", g)>>)
  <2> DEFINE s == <<S("answer", g), S("refresh", g)>>
  <2>1. DOMAIN s = {1, 2} /\ s[1] = S("answer", g) /\ s[2] = S("refresh", g)
    OBVIOUS
  <2> HIDE DEF s
  <2>2. \A i \in DOMAIN s : s[i].do \in {"answer", "refresh"} /\ s[i].key \in Groups
    BY <2>1 DEF S
  <2> QED BY <2>2 DEF Final, s
<1>3. Final(<<S("query", g), S("answer", g), S("refresh", g)>>)
  <2> DEFINE s == <<S("query", g), S("answer", g), S("refresh", g)>>
  <2>1. DOMAIN s = {1, 2, 3} /\ s[1] = S("query", g) /\ s[2] = S("answer", g) /\ s[3] = S("refresh", g)
    OBVIOUS
  <2> HIDE DEF s
  <2>2. \A i \in DOMAIN s : s[i].do \in {"query", "answer", "refresh"} /\ s[i].key \in Groups
    BY <2>1 DEF S
  <2> QED BY <2>2 DEF Final, s
<1> QED BY <1>1, <1>2, <1>3

\* What comes before the end of a plan.
LEMMA EachFinal ==
  ASSUME NEW us \in Seq(Users), NEW do \in {"add", "exit"}
  PROVE  Each(do, us) \in Seq(Steps)
         /\ \A i \in DOMAIN Each(do, us) : Each(do, us)[i].do \notin {"answer", "list"}
<1>1. us \in Seq(Keys) /\ do \in Dos
  BY DEF Keys, Dos, Writes
<1>2. Each(do, us) \in Seq(Steps) /\ DOMAIN Each(do, us) = DOMAIN us
      /\ \A i \in DOMAIN us : Each(do, us)[i] = S(do, us[i])
  BY <1>1, EachOf
<1>3. \A u : S(do, u).do \notin {"answer", "list"}
  BY DEF S
<1> QED BY <1>2, <1>3

LEMMA PlanFinal ==
  ASSUME NEW r \in Requests, Ask[r].op \in Answering
  PROVE  Final(Plan(Ask[r]))
<1> DEFINE q == Ask[r]
           g == q.group
           e1 == <<S("answer", g)>>
           e2 == <<S("answer", g), S("refresh", g)>>
           e3 == <<S("query", g), S("answer", g), S("refresh", g)>>
<1>1. g \in Groups /\ g \in Keys /\ q.users \in Seq(Users)
  BY KeysOfAsk DEF Answering
<1>2. \A k \in Keys, do \in Dos : S(do, k) \in Steps /\ S(do, k).do = do
  BY DEF S, Steps
<1>3. {"query", "answer", "refresh", "create", "touch"} \subseteq Dos
  BY DEF Dos, Writes
<1>4. /\ e1 \in Seq(Steps) /\ e2 \in Seq(Steps) /\ e3 \in Seq(Steps)
      /\ Final(e1) /\ Final(e2) /\ Final(e3)
  BY <1>1, <1>2, <1>3, FinalEnds
<1> HIDE DEF e1, e2, e3
<1>5. ASSUME q.op = "create"
      PROVE  Final(CreateGroup(q))
  <2> DEFINE a == <<S("query", g), S("create", Head(q.users)), S("query", g)>>
             b == Each("add", Tail(q.users))
  <2>1. Head(q.users) \in Keys /\ Tail(q.users) \in Seq(Users)
    BY <1>5, KeysOfAsk DEF Keys
  <2>2. a \in Seq(Steps) /\ \A i \in DOMAIN a : a[i].do \notin {"answer", "list"}
    <3>1. /\ S("query", g) \in Steps /\ S("query", g).do = "query"
          /\ S("create", Head(q.users)) \in Steps /\ S("create", Head(q.users)).do = "create"
      BY <1>1, <1>2, <1>3, <2>1
    <3>2. a \in Seq(Steps) /\ DOMAIN a = {1, 2, 3} /\ a[1] = S("query", g)
          /\ a[2] = S("create", Head(q.users)) /\ a[3] = S("query", g)
      BY <3>1
    <3> HIDE DEF a
    <3> QED BY <3>1, <3>2
  <2>3. b \in Seq(Steps) /\ \A i \in DOMAIN b : b[i].do \notin {"answer", "list"}
    BY <2>1, EachFinal
  <2> HIDE DEF a, b
  <2>4. a \o b \in Seq(Steps) /\ \A i \in DOMAIN (a \o b) : (a \o b)[i].do \notin {"answer", "list"}
    BY <2>2, <2>3, Joined
  <2>5. Final((a \o b) \o e3)
    BY <1>4, <2>4, FinalJoined
  <2> QED BY <2>5 DEF CreateGroup, a, b, e3
<1>6. ASSUME NEW do \in {"add", "exit"}
      PROVE  Final((<<S("query", g)>> \o Each(do, q.users)) \o e2)
  <2> DEFINE a == <<S("query", g)>>
             b == Each(do, q.users)
  <2>1. a \in Seq(Steps) /\ \A i \in DOMAIN a : a[i].do \notin {"answer", "list"}
    BY <1>1, <1>2, <1>3, ShortSequences
  <2>2. b \in Seq(Steps) /\ \A i \in DOMAIN b : b[i].do \notin {"answer", "list"}
    BY <1>1, EachFinal
  <2> HIDE DEF a, b
  <2>3. a \o b \in Seq(Steps) /\ \A i \in DOMAIN (a \o b) : (a \o b)[i].do \notin {"answer", "list"}
    BY <2>1, <2>2, Joined
  <2>4. Final((a \o b) \o e2)
    BY <1>4, <2>3, FinalJoined
  <2> QED BY <2>4 DEF a, b
<1>7. ASSUME q.op = "friend"
      PROVE  Final(ManageFriend(q))
  <2> DEFINE a == <<S("query", q.users[1]), S("touch", q.users[1])>>
             b == IF Len(q.users) = 1 THEN <<>>
                  ELSE <<S("query", q.users[2]), S("touch", q.users[2])>>
  <2>1. q.users \in Seq(Keys) /\ q.users[1] \in Keys /\ (Len(q.users) # 1 => q.users[2] \in Keys)
    <3>1. q.users \in Seq(Keys) /\ q.users # <<>> /\ q.users[1] \in Keys
      BY <1>7, KeysOfAsk
    <3> QED BY <3>1, SecondOf
  <2>2. ASSUME NEW k \in Keys
        PROVE  LET s == <<S("query", k), S("touch", k)>> IN
                 s \in Seq(Steps) /\ \A i \in DOMAIN s : s[i].do \notin {"answer", "list"}
    <3> DEFINE s == <<S("query", k), S("touch", k)>>
    <3>1. s \in Seq(Steps) /\ DOMAIN s = {1, 2} /\ s[1].do = "query" /\ s[2].do = "touch"
      BY <1>2, <1>3, ShortSequences
    <3> HIDE DEF s
    <3>2. s \in Seq(Steps) /\ \A i \in DOMAIN s : s[i].do \notin {"answer", "list"}
      BY <3>1
    <3> QED BY <3>2 DEF s
  <2>3. a \in Seq(Steps) /\ \A i \in DOMAIN a : a[i].do \notin {"answer", "list"}
    BY <2>1, <2>2
  <2>4. b \in Seq(Steps) /\ \A i \in DOMAIN b : b[i].do \notin {"answer", "list"}
    <3>1. CASE Len(q.users) = 1
      BY <3>1
    <3>2. CASE Len(q.users) # 1
      <4> DEFINE d == <<S("query", q.users[2]), S("touch", q.users[2])>>
      <4>1. d \in Seq(Steps) /\ \A i \in DOMAIN d : d[i].do \notin {"answer", "list"}
        BY <2>1, <2>2, <3>2
      <4>2. b = d
        BY <3>2
      <4> HIDE DEF d, b
      <4> QED BY <4>1, <4>2
    <3> QED BY <3>1, <3>2
  <2> HIDE DEF a, b
  <2>5. a \o b \in Seq(Steps) /\ \A i \in DOMAIN (a \o b) : (a \o b)[i].do \notin {"answer", "list"}
    BY <2>3, <2>4, Joined
  <2>6. Final((a \o b) \o e1)
    BY <1>4, <2>5, FinalJoined
  <2> QED BY <2>6 DEF ManageFriend, a, b, e1
<1>8. CASE q.op = "create"
  BY <1>5, <1>8 DEF Plan
<1>9. CASE q.op = "add"
  BY <1>6, <1>9 DEF Plan, ChangeGroup, e2
<1>10. CASE q.op = "del"
  BY <1>6, <1>10 DEF Plan, ChangeGroup, e2
<1>11. CASE q.op = "friend"
  BY <1>7, <1>11 DEF Plan
<1> QED BY <1>8, <1>9, <1>10, <1>11 DEF Answering

\* A handler that goes on keeps to it.
LEMMA FinalMoves ==
  ASSUME TypeOK, AnswerLast, NEW w \in Workers, todo[w] # <<>>, serving' = serving,
         NEW x \in Seq(Steps), todo' = [todo EXCEPT ![w] = x],
         Op(w) \in Answering => Final(x)
  PROVE  AnswerLast'
<1>1. todo'[w] = x /\ \A v \in Workers : v # w => todo'[v] = todo[v]
  BY DEF TypeOK
<1>2. ASSUME NEW v \in Workers, todo'[v] # <<>>, Op(v)' \in Answering
      PROVE  Final(todo'[v])
  <2>1. Op(v)' = Op(v)
    BY DEF Op
  <2>2. CASE v = w
    BY <1>1, <1>2, <2>1, <2>2
  <2>3. CASE v # w
    BY <1>1, <1>2, <2>1, <2>3 DEF AnswerLast
  <2> QED BY <2>2, <2>3
<1> QED BY <1>2 DEF AnswerLast

LEMMA NextFinal == TypeOK /\ Fitting /\ AnswerLast /\ [Next]_vars => AnswerLast'
<1> SUFFICES ASSUME TypeOK, Fitting, AnswerLast, [Next]_vars
             PROVE  AnswerLast'
    OBVIOUS
<1>1. ASSUME NEW w \in Workers, NEW r \in Requests, Receive(w, r)
      PROVE  AnswerLast'
  <2>1. /\ todo'[w] = Plan(Ask[r]) /\ serving'[w] = r
        /\ \A v \in Workers : v # w => todo'[v] = todo[v] /\ serving'[v] = serving[v]
    BY <1>1 DEF Receive, TypeOK
  <2>2. ASSUME NEW v \in Workers, todo'[v] # <<>>, Op(v)' \in Answering
        PROVE  Final(todo'[v])
    <3>1. CASE v = w
      BY <2>1, <2>2, <3>1, PlanFinal DEF Op
    <3>2. CASE v # w
      <4>1. Op(v)' = Op(v) /\ todo'[v] = todo[v]
        BY <2>1, <3>2 DEF Op
      <4> QED BY <2>2, <4>1 DEF AnswerLast
    <3> QED BY <3>1, <3>2
  <2> QED BY <2>2 DEF AnswerLast
<1>2. ASSUME NEW w \in Workers, todo[w] # <<>>, serving' = serving, Pop(w)
      PROVE  AnswerLast'
  <2>1. todo[w] \in Seq(Steps) /\ Tail(todo[w]) \in Seq(Steps)
    BY <1>2, PopTo DEF TypeOK
  <2>2. Op(w) \in Answering => Final(Tail(todo[w]))
    BY <1>2, <2>1, FinalTail DEF AnswerLast
  <2> QED BY <1>2, <2>1, <2>2, FinalMoves DEF Pop
<1>3. ASSUME NEW w \in Workers, todo[w] # <<>>, serving' = serving,
             NEW do \in {"refresh", "store"}, Turn(w, do)
      PROVE  AnswerLast'
  <2> DEFINE s == S(do, Key(w))
             t == Tail(todo[w])
  <2>1. todo[w] \in Seq(Steps) /\ t \in Seq(Steps) /\ Key(w) \in Keys
    BY <1>3, PopTo DEF TypeOK
  <2>2. s \in Steps /\ s.do = do
    BY <2>1 DEF S, Steps, Dos
  <2>3. <<s>> \in Seq(Steps) /\ \A i \in DOMAIN <<s>> : <<s>>[i].do \notin {"answer", "list"}
    BY <2>2, ShortSequences
  <2>4. Op(w) \in Answering => Final(t)
    BY <1>3, <2>1, FinalTail DEF AnswerLast
  <2>5. todo' = [todo EXCEPT ![w] = <<s>> \o t]
    BY <1>3 DEF Turn
  <2> HIDE DEF s, t
  <2>6. <<s>> \o t \in Seq(Steps) /\ (Op(w) \in Answering => Final(<<s>> \o t))
    BY <2>1, <2>3, <2>4, Joined, FinalJoined
  <2> QED BY <1>3, <2>5, <2>6, FinalMoves
<1>4. ASSUME NEW w \in Workers, todo[w] # <<>>, serving' = serving, AfterWrite(w)
      PROVE  AnswerLast'
  BY <1>2, <1>3, <1>4 DEF AfterWrite
<1>5. ASSUME NEW w \in Workers, todo[w] # <<>>, serving' = serving, Break(w)
      PROVE  AnswerLast'
  <2>1. <<>> \in Seq(Steps) /\ Final(<<>>)
    BY DEF Final
  <2> QED BY <1>5, <2>1, FinalMoves DEF Break
<1>6. ASSUME NEW w \in Workers, ListMembers(w)
      PROVE  AnswerLast'
  <2>1. At(w, "list") /\ todo[w] # <<>> /\ serving' = serving
    BY <1>6 DEF ListMembers, At
  <2>2. Op(w) \notin Answering
    <3>1. todo[w] \in Seq(Steps) /\ todo[w][1].do = "list" /\ 1 \in DOMAIN todo[w]
      BY <2>1, TailOf DEF TypeOK, At
    <3> QED BY <2>1, <3>1 DEF AnswerLast, Final
  <2>3. PICK us \in Orders(rows[Key(w)]) : todo' = [todo EXCEPT ![w] = Each("refresh", us) \o Tail(@)]
    BY <1>6 DEF ListMembers
  <2>4. Each("refresh", us) \o Tail(todo[w]) \in Seq(Steps)
    BY <2>1, ListedTo
  <2> QED BY <2>1, <2>2, <2>3, <2>4, FinalMoves
<1>7. ASSUME Crash
      PROVE  AnswerLast'
  BY <1>7 DEF Crash, AnswerLast
<1>8. CASE UNCHANGED vars
  BY <1>8 DEF vars, jobVars, AnswerLast, Op, Final
<1>9. ASSUME NEW w \in Workers, Work(w)
      PROVE  AnswerLast'
  <2>1. CASE \E r \in Requests : Receive(w, r)
    BY <1>1, <2>1
  <2>2. CASE Query(w) \/ SelectNothing(w) \/ SelectFails(w) \/ Store(w) \/ StoreLost(w) \/ Answer(w)
    <3>1. todo[w] # <<>> /\ serving' = serving /\ Pop(w)
      BY <2>2 DEF Query, SelectNothing, SelectFails, Store, StoreLost, Answer, At
    <3> QED BY <1>2, <3>1
  <2>3. CASE QueryFails(w)
    <3>1. todo[w] # <<>> /\ serving' = serving /\ Break(w)
      BY <2>3 DEF QueryFails, At
    <3> QED BY <1>5, <3>1
  <2>4. CASE Execute(w) \/ ExecuteFails(w)
    <3>1. todo[w] # <<>> /\ serving' = serving /\ (AfterWrite(w) \/ Break(w))
      BY <2>4 DEF Execute, ExecuteFails, At
    <3> QED BY <1>4, <1>5, <3>1
  <2>5. CASE Select(w)
    <3>1. todo[w] # <<>> /\ serving' = serving /\ Turn(w, "store")
      BY <2>5 DEF Select, At
    <3> QED BY <1>3, <3>1
  <2>6. CASE ListMembers(w)
    BY <1>6, <2>6
  <2> QED BY <1>9, <2>1, <2>2, <2>3, <2>4, <2>5, <2>6 DEF Work
<1> QED BY <1>7, <1>8, <1>9 DEF Next

\* When a handler that answers last or all but last is at its answer, it has
\* nothing left to do for a user.
LEMMA AnswererOwesNoUser ==
  ASSUME TypeOK, AnswerLast, NEW w \in Workers, At(w, "answer"), Op(w) \in Answering,
         NEW u \in Users
  PROVE  ~ Owes(w, u)
<1>1. /\ todo[w] \in Seq(Steps) /\ todo[w] # <<>> /\ Final(todo[w])
      /\ 1 \in DOMAIN todo[w] /\ todo[w][1].do = "answer"
  BY TailOf DEF TypeOK, AnswerLast, At
<1>2. \A i \in DOMAIN todo[w] : i = 1 \/ i > 1
  BY <1>1
<1>3. ASSUME NEW i \in DOMAIN todo[w], todo[w][i] \in {S("refresh", u), S("store", u)}
      PROVE  FALSE
  <2>1. todo[w][i].do # "answer" /\ todo[w][i].key = u
    BY <1>3 DEF S
  <2>2. todo[w][i].key \in Groups
    BY <1>1, <1>2, <2>1 DEF Final
  <2> QED BY <2>1, <2>2
<1>4. \A i \in DOMAIN todo[w] : todo[w][i].do # "list"
  BY <1>1 DEF Final
<1> QED BY <1>3, <1>4 DEF Owes

LEMMA InitFinal == Init => AnswerLast
BY DEF Init, AnswerLast

\* As set_group_create, set_group_change (ADD and DEL) and set_friend_manage
\* answer, the lists of the users they changed are current, or another handler
\* will rebuild them, or something happened that no handler repairs.
THEOREM AnsweredAreCurrent == Spec => []AnsweredListsCurrent
<1>1. TypeOK /\ CacheCurrent /\ AnswerLast => AnsweredListsCurrent
  <2> SUFFICES ASSUME TypeOK, CacheCurrent, AnswerLast, NEW w \in Workers, At(w, "answer"),
                      Op(w) \in {"create", "add", "del", "friend"},
                      NEW n \in DOMAIN Ask[serving[w]].users
               PROVE  LET u == Ask[serving[w]].users[n] IN
                        cache[u] = db[u] \/ adrift[u] \/ \E v \in Workers \ {w} : Owes(v, u)
      BY DEF AnsweredListsCurrent
  <2> DEFINE u == Ask[serving[w]].users[n]
  <2>1. Op(w) \in Answering /\ serving[w] \in Requests
    BY DEF Answering, At, TypeOK
  <2>2. u \in Users
    BY <2>1, KeysOfAsk DEF Op
  <2> HIDE DEF u
  <2>3. ~ Owes(w, u)
    BY <2>1, <2>2, AnswererOwesNoUser
  <2>4. cache[u] = db[u] \/ adrift[u] \/ \E v \in Workers : Owes(v, u)
    BY <2>2 DEF CacheCurrent, Keys
  <2>5. cache[u] = db[u] \/ adrift[u] \/ \E v \in Workers \ {w} : Owes(v, u)
    BY <2>3, <2>4
  <2> QED BY <2>5 DEF u
<1>2. IInv => TypeOK /\ Fitting /\ CacheCurrent
  BY DEF IInv
<1>3. IInv /\ AnswerLast /\ [Next]_vars => AnswerLast'
  BY <1>2, NextFinal
<1> QED BY <1>1, <1>2, <1>3, InitFinal, Invariance, PTL DEF Spec
=============================================================================

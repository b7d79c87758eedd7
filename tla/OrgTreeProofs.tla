--------------------------- MODULE OrgTreeProofs ---------------------------
(***************************************************************************)
(* Theorems about OrgTree, for any number of workers, companies, requests  *)
(* and crashes, any loads and any failures.                                *)
(***************************************************************************)
EXTENDS OrgTree, TLAPS

(* The inductive invariant.                                                *)

\* Builds only select and store; nobody knows a state that is yet to come.
OpAt(x) ==
  /\ pc[x] \notin {"idle", "select", "store"} => Op(x) \notin Builders
  /\ pc[x] # "idle" => mine[x] <= db[Company(x)]
OpInv == \A x \in Workers : OpAt(x)

\* What is out of date in redis, or is about to be, has somebody to repair it.
Spoils(w, v, c) == Storing(w, v, c) /\ snap[w] # db[c]
CacheAt(v, c) ==
  Stale(<<v, c>>) \/ (\E w \in Workers : Spoils(w, v, c)) =>
    <<v, c>> \in adrift \/ \E w \in Workers : Repairs(w, v, c)
CacheInv == \A v \in Values, c \in Companies : CacheAt(v, c)

\* The same of the web server's copy.
Misleads(w, c) == Posting(w, c) /\ snap[w] # doc[c]
Renews(w, c) == Reselects(w, c) \/ (Posting(w, c) /\ snap[w] = doc[c])
WebAt(c) ==
  web[c] # doc[c] \/ (\E w \in Workers : Misleads(w, c)) =>
    c \in webAdrift \/ \E w \in Workers : Renews(w, c)
WebInv == \A c \in Companies : WebAt(c)

\* As long as no two workers have been at the buffer, it holds the header of
\* the one that is.
Using(w) == pc[w] = "printing" \/ pc[w] = "copy"
HeaderInv ==
  ~ mixed =>
    /\ ~ torn
    /\ \A w, o \in Workers : Using(w) /\ Using(o) => w = o
    /\ \A w \in Workers :
         /\ pc[w] = "printing" => buf = <<w>>
         /\ pc[w] = "copy" => buf = <<Company(w), snap[w]>>
         /\ pc[w] = "post" => Own(w)

\* x, which has made state n of company c, has dealt with the value v.
AfterUsers == {"json", "print", "printing", "copy", "post", "select", "store", "notify"}
AfterTree == AfterUsers \cup {"del cul_"}
Owes(x, v, c, n) ==
  /\ Op(x) \notin Builders /\ Company(x) = c /\ mine[x] = n
  /\ (v = "cul_" /\ pc[x] \in AfterUsers) \/ (v = "org_" /\ pc[x] \in AfterTree)

\* The value is not older than state n, and nobody is about to store an older.
Since(v, c, n) ==
  /\ cache[<<v, c>>] = Absent \/ cache[<<v, c>>] >= n \/ <<v, c>> \in adrift
  /\ \A o \in Workers : Storing(o, v, c) => snap[o] >= n \/ <<v, c>> \in adrift
NotedInv ==
  \A x \in Workers, v \in Values, c \in Companies, n \in Nat :
    Owes(x, v, c, n) => Since(v, c, n)

IndInv == TypeOK /\ OpInv /\ CacheInv /\ WebInv /\ HeaderInv /\ NotedInv

-----------------------------------------------------------------------------
(* Facts the steps need.                                                   *)

\* What a worker with a request serves.
LEMMA Served ==
  ASSUME TypeOK, NEW w \in Workers, pc[w] # "idle"
  PROVE  /\ Op(w) \in Ops /\ Company(w) \in Companies /\ serving[w] \in Requests
         /\ Builds(w) \in Values
BY OrgAssumption DEF TypeOK, Op, Company, Builds, Values

\* A handler comes to one of its steps.
LEMMA AfterIsStep ==
  ASSUME NEW op \in Ops, NEW s \in Steps
  PROVE  After(op, s) \in Steps
BY DEF After, Changing, Refreshing, Steps

\* A step that is w's own: the others are where they were.
SameBut(w) ==
  /\ ask' = ask
  /\ \A o \in Workers \ {w} :
       pc'[o] = pc[o] /\ serving'[o] = serving[o] /\ snap'[o] = snap[o] /\ mine'[o] = mine[o]

\* Every step of a worker is its own.
LEMMA OwnStep ==
  ASSUME TypeOK, NEW w \in Workers,
         \/ \E r \in Requests : Receive(w, r)
         \/ Return(w) \/ Change(w) \/ CardChange(w) \/ ChangeFails(w) \/ Query(w) \/ QueryFails(w)
         \/ \E v \in Values : Delete(w, v) \/ DeleteLost(w, v)
         \/ Select(w) \/ SelectFails(w) \/ Store(w) \/ StoreLost(w)
         \/ Json(w) \/ JsonFails(w)
         \/ BeginHeader(w) \/ EndHeader(w) \/ Copy(w) \/ Post(w) \/ PostTorn(w) \/ PostFails(w)
         \/ Notify(w)
  PROVE  SameBut(w)
<1>1. ASSUME NEW r \in Requests, Receive(w, r) PROVE SameBut(w)
  BY <1>1 DEF TypeOK, SameBut, jobVars, Receive, Goto
<1>2. ASSUME Return(w) PROVE SameBut(w)
  BY <1>2 DEF TypeOK, SameBut, jobVars, Return
<1>3. ASSUME Change(w) PROVE SameBut(w)
  BY <1>3 DEF TypeOK, SameBut, jobVars, Change, Go
<1>4. ASSUME ChangeFails(w) PROVE SameBut(w)
  BY <1>4 DEF TypeOK, SameBut, jobVars, ChangeFails, Go, Goto
<1>5. ASSUME Query(w) PROVE SameBut(w)
  BY <1>5 DEF TypeOK, SameBut, jobVars, Query, Go
<1>24. ASSUME CardChange(w) PROVE SameBut(w)
  BY <1>24 DEF TypeOK, SameBut, jobVars, CardChange, Go
<1>6. ASSUME QueryFails(w) PROVE SameBut(w)
  BY <1>6 DEF TypeOK, SameBut, jobVars, QueryFails, Break, Goto
<1>7. ASSUME NEW v \in Values, Delete(w, v) PROVE SameBut(w)
  BY <1>7 DEF TypeOK, SameBut, jobVars, Delete, Go
<1>8. ASSUME NEW v \in Values, DeleteLost(w, v) PROVE SameBut(w)
  BY <1>8 DEF TypeOK, SameBut, jobVars, DeleteLost, Go
<1>9. ASSUME Select(w) PROVE SameBut(w)
  BY <1>9 DEF TypeOK, SameBut, jobVars, Select, Go
<1>10. ASSUME SelectFails(w) PROVE SameBut(w)
  BY <1>10 DEF TypeOK, SameBut, jobVars, SelectFails, Goto
<1>11. ASSUME Store(w) PROVE SameBut(w)
  BY <1>11 DEF TypeOK, SameBut, jobVars, Store, Go
<1>12. ASSUME StoreLost(w) PROVE SameBut(w)
  BY <1>12 DEF TypeOK, SameBut, jobVars, StoreLost, Go
<1>13. ASSUME Json(w) PROVE SameBut(w)
  BY <1>13 DEF TypeOK, SameBut, jobVars, Json, Go
<1>14. ASSUME JsonFails(w) PROVE SameBut(w)
  BY <1>14 DEF TypeOK, SameBut, jobVars, JsonFails, Goto
<1>15. ASSUME BeginHeader(w) PROVE SameBut(w)
  BY <1>15 DEF TypeOK, SameBut, jobVars, BeginHeader, Go
<1>16. ASSUME EndHeader(w) PROVE SameBut(w)
  BY <1>16 DEF TypeOK, SameBut, jobVars, EndHeader, Go
<1>17. ASSUME Copy(w) PROVE SameBut(w)
  BY <1>17 DEF TypeOK, SameBut, jobVars, Copy, Go
<1>18. ASSUME Post(w) PROVE SameBut(w)
  BY <1>18 DEF TypeOK, SameBut, jobVars, Post, Go
<1>19. ASSUME PostTorn(w) PROVE SameBut(w)
  BY <1>19 DEF TypeOK, SameBut, jobVars, PostTorn, Go
<1>20. ASSUME PostFails(w) PROVE SameBut(w)
  BY <1>20 DEF TypeOK, SameBut, jobVars, PostFails, Go
<1>21. ASSUME Notify(w) PROVE SameBut(w)
  BY <1>21 DEF TypeOK, SameBut, jobVars, Notify, Go
<1> QED BY <1>1, <1>2, <1>3, <1>4, <1>5, <1>6, <1>7, <1>8, <1>9, <1>10, <1>11, <1>12, <1>13,
    <1>14, <1>15, <1>16, <1>17, <1>18, <1>19, <1>20, <1>21, <1>24

\* Every step keeps the types.
LEMMA TypeStep ==
  ASSUME TypeOK, [Next]_vars
  PROVE  TypeOK'
<1>1. ASSUME NEW w \in Workers, NEW r \in Requests, Receive(w, r) PROVE TypeOK'
  <2>1. ask[r].op \in Ops BY OrgAssumption DEF TypeOK
  <2>2. First(ask[r].op) \in Steps BY DEF First, Steps
  <2> QED BY <1>1, <2>2 DEF TypeOK, Receive, Goto, bufVars
<1>2. ASSUME NEW w \in Workers, Return(w) PROVE TypeOK'
  BY <1>2 DEF TypeOK, Return, Headers
<1>3. ASSUME NEW w \in Workers, Change(w) PROVE TypeOK'
  <2>1. pc[w] # "idle" BY <1>3 DEF Change
  <2>2. Op(w) \in Ops /\ Company(w) \in Companies /\ serving[w] \in Requests /\ Builds(w) \in Values
    BY <2>1, Served
  <2>s. {"idle", "notify", "store"} \subseteq Steps BY DEF Steps
  <2>3. pc' \in [Workers -> Steps] /\ serving' = serving
    BY <1>3, <2>2, <2>s, AfterIsStep DEF Change, TypeOK, Go, Goto, jobVars
  <2>4. adrift' \subseteq Values \X Companies
    BY <1>3, <2>2 DEF TypeOK, Change
  <2>5. webAdrift' \subseteq Companies
    BY <1>3, <2>2 DEF TypeOK, Change
  <2>6. /\ cache' \in [Values \X Companies -> Nat \cup {Absent}] 
        /\ web' \in [Companies -> Nat \cup {Garbage}]
    BY <1>3, <2>2 DEF TypeOK, Change, Key
  <2>7. /\ db' \in [Companies -> Nat] /\ doc' \in [Companies -> Nat]
        /\ mine' \in [Workers -> Nat] /\ snap' \in [Workers -> Nat]
        /\ mixed' \in BOOLEAN /\ torn' \in BOOLEAN
    BY <1>3, <2>2 DEF TypeOK, Change, jobVars, bufVars
  <2>8. /\ buf' \in Headers \cup {<<o>> : o \in Workers}
        /\ header' \in [Workers -> Headers \cup {<<o>> : o \in Workers}]
    BY <1>3, <2>2 DEF TypeOK, Change, bufVars, Headers
  <2>9. ask' = ask /\ waiting' = waiting /\ crashes' = crashes
    BY <1>3 DEF Change, jobVars
  <2>10. \A o \in Workers : pc'[o] # "idle" => serving'[o] \in Requests
    BY <1>3, <2>2, <2>3 DEF TypeOK, Change, Go, Goto
  <2> QED BY <2>2, <2>3, <2>4, <2>5, <2>6, <2>7, <2>8, <2>9, <2>10 DEF TypeOK
<1>4. ASSUME NEW w \in Workers, ChangeFails(w) PROVE TypeOK'
  <2>1. pc[w] # "idle" BY <1>4 DEF ChangeFails
  <2>2. Op(w) \in Ops /\ Company(w) \in Companies /\ serving[w] \in Requests /\ Builds(w) \in Values
    BY <2>1, Served
  <2>s. {"idle", "notify", "store"} \subseteq Steps BY DEF Steps
  <2>3. pc' \in [Workers -> Steps] /\ serving' = serving
    BY <1>4, <2>2, <2>s, AfterIsStep DEF ChangeFails, TypeOK, Go, Goto, jobVars
  <2>4. adrift' \subseteq Values \X Companies
    BY <1>4, <2>2 DEF TypeOK, ChangeFails
  <2>5. webAdrift' \subseteq Companies
    BY <1>4, <2>2 DEF TypeOK, ChangeFails
  <2>6. /\ cache' \in [Values \X Companies -> Nat \cup {Absent}] 
        /\ web' \in [Companies -> Nat \cup {Garbage}]
    BY <1>4, <2>2 DEF TypeOK, ChangeFails, Key
  <2>7. /\ db' \in [Companies -> Nat] /\ doc' \in [Companies -> Nat]
        /\ mine' \in [Workers -> Nat] /\ snap' \in [Workers -> Nat]
        /\ mixed' \in BOOLEAN /\ torn' \in BOOLEAN
    BY <1>4, <2>2 DEF TypeOK, ChangeFails, jobVars, bufVars
  <2>8. /\ buf' \in Headers \cup {<<o>> : o \in Workers}
        /\ header' \in [Workers -> Headers \cup {<<o>> : o \in Workers}]
    BY <1>4, <2>2 DEF TypeOK, ChangeFails, bufVars, Headers
  <2>9. ask' = ask /\ waiting' = waiting /\ crashes' = crashes
    BY <1>4 DEF ChangeFails, jobVars
  <2>10. \A o \in Workers : pc'[o] # "idle" => serving'[o] \in Requests
    BY <1>4, <2>2, <2>3 DEF TypeOK, ChangeFails, Go, Goto
  <2> QED BY <2>2, <2>3, <2>4, <2>5, <2>6, <2>7, <2>8, <2>9, <2>10 DEF TypeOK
<1>5. ASSUME NEW w \in Workers, Query(w) PROVE TypeOK'
  <2>1. pc[w] # "idle" BY <1>5 DEF Query
  <2>2. Op(w) \in Ops /\ Company(w) \in Companies /\ serving[w] \in Requests /\ Builds(w) \in Values
    BY <2>1, Served
  <2>s. {"idle", "notify", "store"} \subseteq Steps BY DEF Steps
  <2>3. pc' \in [Workers -> Steps] /\ serving' = serving
    BY <1>5, <2>2, <2>s, AfterIsStep DEF Query, TypeOK, Go, Goto, jobVars
  <2>4. adrift' \subseteq Values \X Companies
    BY <1>5, <2>2 DEF TypeOK, Query
  <2>5. webAdrift' \subseteq Companies
    BY <1>5, <2>2 DEF TypeOK, Query
  <2>6. /\ cache' \in [Values \X Companies -> Nat \cup {Absent}] 
        /\ web' \in [Companies -> Nat \cup {Garbage}]
    BY <1>5, <2>2 DEF TypeOK, Query, Key
  <2>7. /\ db' \in [Companies -> Nat] /\ doc' \in [Companies -> Nat]
        /\ mine' \in [Workers -> Nat] /\ snap' \in [Workers -> Nat]
        /\ mixed' \in BOOLEAN /\ torn' \in BOOLEAN
    BY <1>5, <2>2 DEF TypeOK, Query, jobVars, bufVars
  <2>8. /\ buf' \in Headers \cup {<<o>> : o \in Workers}
        /\ header' \in [Workers -> Headers \cup {<<o>> : o \in Workers}]
    BY <1>5, <2>2 DEF TypeOK, Query, bufVars, Headers
  <2>9. ask' = ask /\ waiting' = waiting /\ crashes' = crashes
    BY <1>5 DEF Query, jobVars
  <2>10. \A o \in Workers : pc'[o] # "idle" => serving'[o] \in Requests
    BY <1>5, <2>2, <2>3 DEF TypeOK, Query, Go, Goto
  <2> QED BY <2>2, <2>3, <2>4, <2>5, <2>6, <2>7, <2>8, <2>9, <2>10 DEF TypeOK
<1>24. ASSUME NEW w \in Workers, CardChange(w) PROVE TypeOK'
  <2>1. pc[w] # "idle" BY <1>24 DEF CardChange
  <2>2. Op(w) \in Ops /\ Company(w) \in Companies /\ serving[w] \in Requests /\ Builds(w) \in Values
    BY <2>1, Served
  <2>s. {"idle", "notify", "store"} \subseteq Steps BY DEF Steps
  <2>3. pc' \in [Workers -> Steps] /\ serving' = serving
    BY <1>24, <2>2, <2>s, AfterIsStep DEF CardChange, TypeOK, Go, Goto, jobVars
  <2>4. adrift' \subseteq Values \X Companies
    BY <1>24, <2>2 DEF TypeOK, CardChange
  <2>5. webAdrift' \subseteq Companies
    BY <1>24, <2>2 DEF TypeOK, CardChange
  <2>6. /\ cache' \in [Values \X Companies -> Nat \cup {Absent}] 
        /\ web' \in [Companies -> Nat \cup {Garbage}]
    BY <1>24, <2>2 DEF TypeOK, CardChange, Key
  <2>7. /\ db' \in [Companies -> Nat] /\ doc' \in [Companies -> Nat]
        /\ mine' \in [Workers -> Nat] /\ snap' \in [Workers -> Nat]
        /\ mixed' \in BOOLEAN /\ torn' \in BOOLEAN
    BY <1>24, <2>2 DEF TypeOK, CardChange, jobVars, bufVars
  <2>8. /\ buf' \in Headers \cup {<<o>> : o \in Workers}
        /\ header' \in [Workers -> Headers \cup {<<o>> : o \in Workers}]
    BY <1>24, <2>2 DEF TypeOK, CardChange, bufVars, Headers
  <2>9. ask' = ask /\ waiting' = waiting /\ crashes' = crashes
    BY <1>24 DEF CardChange, jobVars
  <2>10. \A o \in Workers : pc'[o] # "idle" => serving'[o] \in Requests
    BY <1>24, <2>2, <2>3 DEF TypeOK, CardChange, Go, Goto
  <2> QED BY <2>2, <2>3, <2>4, <2>5, <2>6, <2>7, <2>8, <2>9, <2>10 DEF TypeOK
<1>6. ASSUME NEW w \in Workers, QueryFails(w) PROVE TypeOK'
  <2>1. pc[w] # "idle" BY <1>6 DEF QueryFails
  <2>2. Op(w) \in Ops /\ Company(w) \in Companies /\ serving[w] \in Requests /\ Builds(w) \in Values
    BY <2>1, Served
  <2>s. {"idle", "notify", "store"} \subseteq Steps BY DEF Steps
  <2>3. pc' \in [Workers -> Steps] /\ serving' = serving
    BY <1>6, <2>2, <2>s, AfterIsStep DEF QueryFails, TypeOK, Go, Goto, jobVars, Break
  <2>4. adrift' \subseteq Values \X Companies
    BY <1>6, <2>2 DEF TypeOK, QueryFails, Break, Lose
  <2>5. webAdrift' \subseteq Companies
    BY <1>6, <2>2 DEF TypeOK, QueryFails, Break, LoseWeb
  <2>6. /\ cache' \in [Values \X Companies -> Nat \cup {Absent}] 
        /\ web' \in [Companies -> Nat \cup {Garbage}]
    BY <1>6, <2>2 DEF TypeOK, QueryFails, Key
  <2>7. /\ db' \in [Companies -> Nat] /\ doc' \in [Companies -> Nat]
        /\ mine' \in [Workers -> Nat] /\ snap' \in [Workers -> Nat]
        /\ mixed' \in BOOLEAN /\ torn' \in BOOLEAN
    BY <1>6, <2>2 DEF TypeOK, QueryFails, jobVars, bufVars
  <2>8. /\ buf' \in Headers \cup {<<o>> : o \in Workers}
        /\ header' \in [Workers -> Headers \cup {<<o>> : o \in Workers}]
    BY <1>6, <2>2 DEF TypeOK, QueryFails, bufVars, Headers
  <2>9. ask' = ask /\ waiting' = waiting /\ crashes' = crashes
    BY <1>6 DEF QueryFails, jobVars
  <2>10. \A o \in Workers : pc'[o] # "idle" => serving'[o] \in Requests
    BY <1>6, <2>2, <2>3 DEF TypeOK, QueryFails, Go, Goto, Break
  <2> QED BY <2>2, <2>3, <2>4, <2>5, <2>6, <2>7, <2>8, <2>9, <2>10 DEF TypeOK
<1>7. ASSUME NEW w \in Workers, NEW v \in Values, Delete(w, v) PROVE TypeOK'
  <2>1. pc[w] # "idle" BY <1>7 DEF Delete, Deleting
  <2>2. Op(w) \in Ops /\ Company(w) \in Companies /\ serving[w] \in Requests /\ Builds(w) \in Values
    BY <2>1, Served
  <2>s. {"idle", "notify", "store"} \subseteq Steps BY DEF Steps
  <2>3. pc' \in [Workers -> Steps] /\ serving' = serving
    BY <1>7, <2>2, <2>s, AfterIsStep DEF Delete, TypeOK, Go, Goto, jobVars
  <2>4. adrift' \subseteq Values \X Companies
    BY <1>7, <2>2 DEF TypeOK, Delete, Mend
  <2>5. webAdrift' \subseteq Companies
    BY <1>7, <2>2 DEF TypeOK, Delete
  <2>6. /\ cache' \in [Values \X Companies -> Nat \cup {Absent}] 
        /\ web' \in [Companies -> Nat \cup {Garbage}]
    BY <1>7, <2>2 DEF TypeOK, Delete, Key
  <2>7. /\ db' \in [Companies -> Nat] /\ doc' \in [Companies -> Nat]
        /\ mine' \in [Workers -> Nat] /\ snap' \in [Workers -> Nat]
        /\ mixed' \in BOOLEAN /\ torn' \in BOOLEAN
    BY <1>7, <2>2 DEF TypeOK, Delete, jobVars, bufVars
  <2>8. /\ buf' \in Headers \cup {<<o>> : o \in Workers}
        /\ header' \in [Workers -> Headers \cup {<<o>> : o \in Workers}]
    BY <1>7, <2>2 DEF TypeOK, Delete, bufVars, Headers
  <2>9. ask' = ask /\ waiting' = waiting /\ crashes' = crashes
    BY <1>7 DEF Delete, jobVars
  <2>10. \A o \in Workers : pc'[o] # "idle" => serving'[o] \in Requests
    BY <1>7, <2>2, <2>3 DEF TypeOK, Delete, Go, Goto
  <2> QED BY <2>2, <2>3, <2>4, <2>5, <2>6, <2>7, <2>8, <2>9, <2>10 DEF TypeOK
<1>8. ASSUME NEW w \in Workers, NEW v \in Values, DeleteLost(w, v) PROVE TypeOK'
  <2>1. pc[w] # "idle" BY <1>8 DEF DeleteLost, Deleting
  <2>2. Op(w) \in Ops /\ Company(w) \in Companies /\ serving[w] \in Requests /\ Builds(w) \in Values
    BY <2>1, Served
  <2>s. {"idle", "notify", "store"} \subseteq Steps BY DEF Steps
  <2>3. pc' \in [Workers -> Steps] /\ serving' = serving
    BY <1>8, <2>2, <2>s, AfterIsStep DEF DeleteLost, TypeOK, Go, Goto, jobVars
  <2>4. adrift' \subseteq Values \X Companies
    BY <1>8, <2>2 DEF TypeOK, DeleteLost, Lose
  <2>5. webAdrift' \subseteq Companies
    BY <1>8, <2>2 DEF TypeOK, DeleteLost
  <2>6. /\ cache' \in [Values \X Companies -> Nat \cup {Absent}] 
        /\ web' \in [Companies -> Nat \cup {Garbage}]
    BY <1>8, <2>2 DEF TypeOK, DeleteLost, Key
  <2>7. /\ db' \in [Companies -> Nat] /\ doc' \in [Companies -> Nat]
        /\ mine' \in [Workers -> Nat] /\ snap' \in [Workers -> Nat]
        /\ mixed' \in BOOLEAN /\ torn' \in BOOLEAN
    BY <1>8, <2>2 DEF TypeOK, DeleteLost, jobVars, bufVars
  <2>8. /\ buf' \in Headers \cup {<<o>> : o \in Workers}
        /\ header' \in [Workers -> Headers \cup {<<o>> : o \in Workers}]
    BY <1>8, <2>2 DEF TypeOK, DeleteLost, bufVars, Headers
  <2>9. ask' = ask /\ waiting' = waiting /\ crashes' = crashes
    BY <1>8 DEF DeleteLost, jobVars
  <2>10. \A o \in Workers : pc'[o] # "idle" => serving'[o] \in Requests
    BY <1>8, <2>2, <2>3 DEF TypeOK, DeleteLost, Go, Goto
  <2> QED BY <2>2, <2>3, <2>4, <2>5, <2>6, <2>7, <2>8, <2>9, <2>10 DEF TypeOK
<1>9. ASSUME NEW w \in Workers, Select(w) PROVE TypeOK'
  <2>1. pc[w] # "idle" BY <1>9 DEF Select
  <2>2. Op(w) \in Ops /\ Company(w) \in Companies /\ serving[w] \in Requests /\ Builds(w) \in Values
    BY <2>1, Served
  <2>s. {"idle", "notify", "store"} \subseteq Steps BY DEF Steps
  <2>3. pc' \in [Workers -> Steps] /\ serving' = serving
    BY <1>9, <2>2, <2>s, AfterIsStep DEF Select, TypeOK, Go, Goto, jobVars
  <2>4. adrift' \subseteq Values \X Companies
    BY <1>9, <2>2 DEF TypeOK, Select
  <2>5. webAdrift' \subseteq Companies
    BY <1>9, <2>2 DEF TypeOK, Select
  <2>6. /\ cache' \in [Values \X Companies -> Nat \cup {Absent}] 
        /\ web' \in [Companies -> Nat \cup {Garbage}]
    BY <1>9, <2>2 DEF TypeOK, Select, Key
  <2>7. /\ db' \in [Companies -> Nat] /\ doc' \in [Companies -> Nat]
        /\ mine' \in [Workers -> Nat] /\ snap' \in [Workers -> Nat]
        /\ mixed' \in BOOLEAN /\ torn' \in BOOLEAN
    BY <1>9, <2>2 DEF TypeOK, Select, jobVars, bufVars
  <2>8. /\ buf' \in Headers \cup {<<o>> : o \in Workers}
        /\ header' \in [Workers -> Headers \cup {<<o>> : o \in Workers}]
    BY <1>9, <2>2 DEF TypeOK, Select, bufVars, Headers
  <2>9. ask' = ask /\ waiting' = waiting /\ crashes' = crashes
    BY <1>9 DEF Select, jobVars
  <2>10. \A o \in Workers : pc'[o] # "idle" => serving'[o] \in Requests
    BY <1>9, <2>2, <2>3 DEF TypeOK, Select, Go, Goto
  <2> QED BY <2>2, <2>3, <2>4, <2>5, <2>6, <2>7, <2>8, <2>9, <2>10 DEF TypeOK
<1>10. ASSUME NEW w \in Workers, SelectFails(w) PROVE TypeOK'
  <2>1. pc[w] # "idle" BY <1>10 DEF SelectFails
  <2>2. Op(w) \in Ops /\ Company(w) \in Companies /\ serving[w] \in Requests /\ Builds(w) \in Values
    BY <2>1, Served
  <2>s. {"idle", "notify", "store"} \subseteq Steps BY DEF Steps
  <2>3. pc' \in [Workers -> Steps] /\ serving' = serving
    BY <1>10, <2>2, <2>s, AfterIsStep DEF SelectFails, TypeOK, Go, Goto, jobVars
  <2>4. adrift' \subseteq Values \X Companies
    BY <1>10, <2>2 DEF TypeOK, SelectFails, Lose, Key
  <2>5. webAdrift' \subseteq Companies
    BY <1>10, <2>2 DEF TypeOK, SelectFails
  <2>6. /\ cache' \in [Values \X Companies -> Nat \cup {Absent}] 
        /\ web' \in [Companies -> Nat \cup {Garbage}]
    BY <1>10, <2>2 DEF TypeOK, SelectFails, Key
  <2>7. /\ db' \in [Companies -> Nat] /\ doc' \in [Companies -> Nat]
        /\ mine' \in [Workers -> Nat] /\ snap' \in [Workers -> Nat]
        /\ mixed' \in BOOLEAN /\ torn' \in BOOLEAN
    BY <1>10, <2>2 DEF TypeOK, SelectFails, jobVars, bufVars
  <2>8. /\ buf' \in Headers \cup {<<o>> : o \in Workers}
        /\ header' \in [Workers -> Headers \cup {<<o>> : o \in Workers}]
    BY <1>10, <2>2 DEF TypeOK, SelectFails, bufVars, Headers
  <2>9. ask' = ask /\ waiting' = waiting /\ crashes' = crashes
    BY <1>10 DEF SelectFails, jobVars
  <2>10. \A o \in Workers : pc'[o] # "idle" => serving'[o] \in Requests
    BY <1>10, <2>2, <2>3 DEF TypeOK, SelectFails, Go, Goto
  <2> QED BY <2>2, <2>3, <2>4, <2>5, <2>6, <2>7, <2>8, <2>9, <2>10 DEF TypeOK
<1>11. ASSUME NEW w \in Workers, Store(w) PROVE TypeOK'
  <2>1. pc[w] # "idle" BY <1>11 DEF Store
  <2>2. Op(w) \in Ops /\ Company(w) \in Companies /\ serving[w] \in Requests /\ Builds(w) \in Values
    BY <2>1, Served
  <2>s. {"idle", "notify", "store"} \subseteq Steps BY DEF Steps
  <2>3. pc' \in [Workers -> Steps] /\ serving' = serving
    BY <1>11, <2>2, <2>s, AfterIsStep DEF Store, TypeOK, Go, Goto, jobVars
  <2>4. adrift' \subseteq Values \X Companies
    BY <1>11, <2>2 DEF TypeOK, Store, Mend, Key
  <2>5. webAdrift' \subseteq Companies
    BY <1>11, <2>2 DEF TypeOK, Store
  <2>6. /\ cache' \in [Values \X Companies -> Nat \cup {Absent}] 
        /\ web' \in [Companies -> Nat \cup {Garbage}]
    BY <1>11, <2>2 DEF TypeOK, Store, Key
  <2>7. /\ db' \in [Companies -> Nat] /\ doc' \in [Companies -> Nat]
        /\ mine' \in [Workers -> Nat] /\ snap' \in [Workers -> Nat]
        /\ mixed' \in BOOLEAN /\ torn' \in BOOLEAN
    BY <1>11, <2>2 DEF TypeOK, Store, jobVars, bufVars
  <2>8. /\ buf' \in Headers \cup {<<o>> : o \in Workers}
        /\ header' \in [Workers -> Headers \cup {<<o>> : o \in Workers}]
    BY <1>11, <2>2 DEF TypeOK, Store, bufVars, Headers
  <2>9. ask' = ask /\ waiting' = waiting /\ crashes' = crashes
    BY <1>11 DEF Store, jobVars
  <2>10. \A o \in Workers : pc'[o] # "idle" => serving'[o] \in Requests
    BY <1>11, <2>2, <2>3 DEF TypeOK, Store, Go, Goto
  <2> QED BY <2>2, <2>3, <2>4, <2>5, <2>6, <2>7, <2>8, <2>9, <2>10 DEF TypeOK
<1>12. ASSUME NEW w \in Workers, StoreLost(w) PROVE TypeOK'
  <2>1. pc[w] # "idle" BY <1>12 DEF StoreLost
  <2>2. Op(w) \in Ops /\ Company(w) \in Companies /\ serving[w] \in Requests /\ Builds(w) \in Values
    BY <2>1, Served
  <2>s. {"idle", "notify", "store"} \subseteq Steps BY DEF Steps
  <2>3. pc' \in [Workers -> Steps] /\ serving' = serving
    BY <1>12, <2>2, <2>s, AfterIsStep DEF StoreLost, TypeOK, Go, Goto, jobVars
  <2>4. adrift' \subseteq Values \X Companies
    BY <1>12, <2>2 DEF TypeOK, StoreLost, Lose, Key
  <2>5. webAdrift' \subseteq Companies
    BY <1>12, <2>2 DEF TypeOK, StoreLost
  <2>6. /\ cache' \in [Values \X Companies -> Nat \cup {Absent}] 
        /\ web' \in [Companies -> Nat \cup {Garbage}]
    BY <1>12, <2>2 DEF TypeOK, StoreLost, Key
  <2>7. /\ db' \in [Companies -> Nat] /\ doc' \in [Companies -> Nat]
        /\ mine' \in [Workers -> Nat] /\ snap' \in [Workers -> Nat]
        /\ mixed' \in BOOLEAN /\ torn' \in BOOLEAN
    BY <1>12, <2>2 DEF TypeOK, StoreLost, jobVars, bufVars
  <2>8. /\ buf' \in Headers \cup {<<o>> : o \in Workers}
        /\ header' \in [Workers -> Headers \cup {<<o>> : o \in Workers}]
    BY <1>12, <2>2 DEF TypeOK, StoreLost, bufVars, Headers
  <2>9. ask' = ask /\ waiting' = waiting /\ crashes' = crashes
    BY <1>12 DEF StoreLost, jobVars
  <2>10. \A o \in Workers : pc'[o] # "idle" => serving'[o] \in Requests
    BY <1>12, <2>2, <2>3 DEF TypeOK, StoreLost, Go, Goto
  <2> QED BY <2>2, <2>3, <2>4, <2>5, <2>6, <2>7, <2>8, <2>9, <2>10 DEF TypeOK
<1>13. ASSUME NEW w \in Workers, Json(w) PROVE TypeOK'
  <2>1. pc[w] # "idle" BY <1>13 DEF Json
  <2>2. Op(w) \in Ops /\ Company(w) \in Companies /\ serving[w] \in Requests /\ Builds(w) \in Values
    BY <2>1, Served
  <2>s. {"idle", "notify", "store"} \subseteq Steps BY DEF Steps
  <2>3. pc' \in [Workers -> Steps] /\ serving' = serving
    BY <1>13, <2>2, <2>s, AfterIsStep DEF Json, TypeOK, Go, Goto, jobVars
  <2>4. adrift' \subseteq Values \X Companies
    BY <1>13, <2>2 DEF TypeOK, Json
  <2>5. webAdrift' \subseteq Companies
    BY <1>13, <2>2 DEF TypeOK, Json
  <2>6. /\ cache' \in [Values \X Companies -> Nat \cup {Absent}] 
        /\ web' \in [Companies -> Nat \cup {Garbage}]
    BY <1>13, <2>2 DEF TypeOK, Json, Key
  <2>7. /\ db' \in [Companies -> Nat] /\ doc' \in [Companies -> Nat]
        /\ mine' \in [Workers -> Nat] /\ snap' \in [Workers -> Nat]
        /\ mixed' \in BOOLEAN /\ torn' \in BOOLEAN
    BY <1>13, <2>2 DEF TypeOK, Json, jobVars, bufVars
  <2>8. /\ buf' \in Headers \cup {<<o>> : o \in Workers}
        /\ header' \in [Workers -> Headers \cup {<<o>> : o \in Workers}]
    BY <1>13, <2>2 DEF TypeOK, Json, bufVars, Headers
  <2>9. ask' = ask /\ waiting' = waiting /\ crashes' = crashes
    BY <1>13 DEF Json, jobVars
  <2>10. \A o \in Workers : pc'[o] # "idle" => serving'[o] \in Requests
    BY <1>13, <2>2, <2>3 DEF TypeOK, Json, Go, Goto
  <2> QED BY <2>2, <2>3, <2>4, <2>5, <2>6, <2>7, <2>8, <2>9, <2>10 DEF TypeOK
<1>14. ASSUME NEW w \in Workers, JsonFails(w) PROVE TypeOK'
  <2>1. pc[w] # "idle" BY <1>14 DEF JsonFails
  <2>2. Op(w) \in Ops /\ Company(w) \in Companies /\ serving[w] \in Requests /\ Builds(w) \in Values
    BY <2>1, Served
  <2>s. {"idle", "notify", "store"} \subseteq Steps BY DEF Steps
  <2>3. pc' \in [Workers -> Steps] /\ serving' = serving
    BY <1>14, <2>2, <2>s, AfterIsStep DEF JsonFails, TypeOK, Go, Goto, jobVars
  <2>4. adrift' \subseteq Values \X Companies
    BY <1>14, <2>2 DEF TypeOK, JsonFails, Lose, Values
  <2>5. webAdrift' \subseteq Companies
    BY <1>14, <2>2 DEF TypeOK, JsonFails, LoseWeb
  <2>6. /\ cache' \in [Values \X Companies -> Nat \cup {Absent}] 
        /\ web' \in [Companies -> Nat \cup {Garbage}]
    BY <1>14, <2>2 DEF TypeOK, JsonFails, Key
  <2>7. /\ db' \in [Companies -> Nat] /\ doc' \in [Companies -> Nat]
        /\ mine' \in [Workers -> Nat] /\ snap' \in [Workers -> Nat]
        /\ mixed' \in BOOLEAN /\ torn' \in BOOLEAN
    BY <1>14, <2>2 DEF TypeOK, JsonFails, jobVars, bufVars
  <2>8. /\ buf' \in Headers \cup {<<o>> : o \in Workers}
        /\ header' \in [Workers -> Headers \cup {<<o>> : o \in Workers}]
    BY <1>14, <2>2 DEF TypeOK, JsonFails, bufVars, Headers
  <2>9. ask' = ask /\ waiting' = waiting /\ crashes' = crashes
    BY <1>14 DEF JsonFails, jobVars
  <2>10. \A o \in Workers : pc'[o] # "idle" => serving'[o] \in Requests
    BY <1>14, <2>2, <2>3 DEF TypeOK, JsonFails, Go, Goto
  <2> QED BY <2>2, <2>3, <2>4, <2>5, <2>6, <2>7, <2>8, <2>9, <2>10 DEF TypeOK
<1>15. ASSUME NEW w \in Workers, BeginHeader(w) PROVE TypeOK'
  <2>1. pc[w] # "idle" BY <1>15 DEF BeginHeader
  <2>2. Op(w) \in Ops /\ Company(w) \in Companies /\ serving[w] \in Requests /\ Builds(w) \in Values
    BY <2>1, Served
  <2>s. {"idle", "notify", "store"} \subseteq Steps BY DEF Steps
  <2>3. pc' \in [Workers -> Steps] /\ serving' = serving
    BY <1>15, <2>2, <2>s, AfterIsStep DEF BeginHeader, TypeOK, Go, Goto, jobVars
  <2>4. adrift' \subseteq Values \X Companies
    BY <1>15, <2>2 DEF TypeOK, BeginHeader
  <2>5. webAdrift' \subseteq Companies
    BY <1>15, <2>2 DEF TypeOK, BeginHeader
  <2>6. /\ cache' \in [Values \X Companies -> Nat \cup {Absent}] 
        /\ web' \in [Companies -> Nat \cup {Garbage}]
    BY <1>15, <2>2 DEF TypeOK, BeginHeader, Key
  <2>7. /\ db' \in [Companies -> Nat] /\ doc' \in [Companies -> Nat]
        /\ mine' \in [Workers -> Nat] /\ snap' \in [Workers -> Nat]
        /\ mixed' \in BOOLEAN /\ torn' \in BOOLEAN
    BY <1>15, <2>2 DEF TypeOK, BeginHeader, jobVars, bufVars
  <2>8. /\ buf' \in Headers \cup {<<o>> : o \in Workers}
        /\ header' \in [Workers -> Headers \cup {<<o>> : o \in Workers}]
    BY <1>15, <2>2 DEF TypeOK, BeginHeader, bufVars, Headers
  <2>9. ask' = ask /\ waiting' = waiting /\ crashes' = crashes
    BY <1>15 DEF BeginHeader, jobVars
  <2>10. \A o \in Workers : pc'[o] # "idle" => serving'[o] \in Requests
    BY <1>15, <2>2, <2>3 DEF TypeOK, BeginHeader, Go, Goto
  <2> QED BY <2>2, <2>3, <2>4, <2>5, <2>6, <2>7, <2>8, <2>9, <2>10 DEF TypeOK
<1>16. ASSUME NEW w \in Workers, EndHeader(w) PROVE TypeOK'
  <2>1. pc[w] # "idle" BY <1>16 DEF EndHeader
  <2>2. Op(w) \in Ops /\ Company(w) \in Companies /\ serving[w] \in Requests /\ Builds(w) \in Values
    BY <2>1, Served
  <2>s. {"idle", "notify", "store"} \subseteq Steps BY DEF Steps
  <2>3. pc' \in [Workers -> Steps] /\ serving' = serving
    BY <1>16, <2>2, <2>s, AfterIsStep DEF EndHeader, TypeOK, Go, Goto, jobVars
  <2>4. adrift' \subseteq Values \X Companies
    BY <1>16, <2>2 DEF TypeOK, EndHeader
  <2>5. webAdrift' \subseteq Companies
    BY <1>16, <2>2 DEF TypeOK, EndHeader
  <2>6. /\ cache' \in [Values \X Companies -> Nat \cup {Absent}] 
        /\ web' \in [Companies -> Nat \cup {Garbage}]
    BY <1>16, <2>2 DEF TypeOK, EndHeader, Key
  <2>7. /\ db' \in [Companies -> Nat] /\ doc' \in [Companies -> Nat]
        /\ mine' \in [Workers -> Nat] /\ snap' \in [Workers -> Nat]
        /\ mixed' \in BOOLEAN /\ torn' \in BOOLEAN
    BY <1>16, <2>2 DEF TypeOK, EndHeader, jobVars, bufVars
  <2>8. /\ buf' \in Headers \cup {<<o>> : o \in Workers}
        /\ header' \in [Workers -> Headers \cup {<<o>> : o \in Workers}]
    BY <1>16, <2>2 DEF TypeOK, EndHeader, bufVars, Headers
  <2>9. ask' = ask /\ waiting' = waiting /\ crashes' = crashes
    BY <1>16 DEF EndHeader, jobVars
  <2>10. \A o \in Workers : pc'[o] # "idle" => serving'[o] \in Requests
    BY <1>16, <2>2, <2>3 DEF TypeOK, EndHeader, Go, Goto
  <2> QED BY <2>2, <2>3, <2>4, <2>5, <2>6, <2>7, <2>8, <2>9, <2>10 DEF TypeOK
<1>17. ASSUME NEW w \in Workers, Copy(w) PROVE TypeOK'
  <2>1. pc[w] # "idle" BY <1>17 DEF Copy
  <2>2. Op(w) \in Ops /\ Company(w) \in Companies /\ serving[w] \in Requests /\ Builds(w) \in Values
    BY <2>1, Served
  <2>s. {"idle", "notify", "store"} \subseteq Steps BY DEF Steps
  <2>3. pc' \in [Workers -> Steps] /\ serving' = serving
    BY <1>17, <2>2, <2>s, AfterIsStep DEF Copy, TypeOK, Go, Goto, jobVars
  <2>4. adrift' \subseteq Values \X Companies
    BY <1>17, <2>2 DEF TypeOK, Copy
  <2>5. webAdrift' \subseteq Companies
    BY <1>17, <2>2 DEF TypeOK, Copy
  <2>6. /\ cache' \in [Values \X Companies -> Nat \cup {Absent}] 
        /\ web' \in [Companies -> Nat \cup {Garbage}]
    BY <1>17, <2>2 DEF TypeOK, Copy, Key
  <2>7. /\ db' \in [Companies -> Nat] /\ doc' \in [Companies -> Nat]
        /\ mine' \in [Workers -> Nat] /\ snap' \in [Workers -> Nat]
        /\ mixed' \in BOOLEAN /\ torn' \in BOOLEAN
    BY <1>17, <2>2 DEF TypeOK, Copy, jobVars, bufVars
  <2>8. /\ buf' \in Headers \cup {<<o>> : o \in Workers}
        /\ header' \in [Workers -> Headers \cup {<<o>> : o \in Workers}]
    BY <1>17, <2>2 DEF TypeOK, Copy, bufVars, Headers
  <2>9. ask' = ask /\ waiting' = waiting /\ crashes' = crashes
    BY <1>17 DEF Copy, jobVars
  <2>10. \A o \in Workers : pc'[o] # "idle" => serving'[o] \in Requests
    BY <1>17, <2>2, <2>3 DEF TypeOK, Copy, Go, Goto
  <2> QED BY <2>2, <2>3, <2>4, <2>5, <2>6, <2>7, <2>8, <2>9, <2>10 DEF TypeOK
<1>18. ASSUME NEW w \in Workers, Post(w) PROVE TypeOK'
  <2>1. pc[w] # "idle" BY <1>18 DEF Post
  <2>2. Op(w) \in Ops /\ Company(w) \in Companies /\ serving[w] \in Requests /\ Builds(w) \in Values
    BY <2>1, Served
  <2>s. {"idle", "notify", "store"} \subseteq Steps BY DEF Steps
  <2>3. pc' \in [Workers -> Steps] /\ serving' = serving
    BY <1>18, <2>2, <2>s, AfterIsStep DEF Post, TypeOK, Go, Goto, jobVars
  <2>4. adrift' \subseteq Values \X Companies
    BY <1>18, <2>2 DEF TypeOK, Post
  <2>5. webAdrift' \subseteq Companies
    BY <1>18, <2>2 DEF TypeOK, Post
  <2>6. /\ cache' \in [Values \X Companies -> Nat \cup {Absent}] 
        /\ web' \in [Companies -> Nat \cup {Garbage}]
    BY <1>18, <2>2 DEF TypeOK, Post, Key
  <2>7. /\ db' \in [Companies -> Nat] /\ doc' \in [Companies -> Nat]
        /\ mine' \in [Workers -> Nat] /\ snap' \in [Workers -> Nat]
        /\ mixed' \in BOOLEAN /\ torn' \in BOOLEAN
    BY <1>18, <2>2 DEF TypeOK, Post, jobVars, bufVars
  <2>8. /\ buf' \in Headers \cup {<<o>> : o \in Workers}
        /\ header' \in [Workers -> Headers \cup {<<o>> : o \in Workers}]
    BY <1>18, <2>2 DEF TypeOK, Post, bufVars, Headers
  <2>9. ask' = ask /\ waiting' = waiting /\ crashes' = crashes
    BY <1>18 DEF Post, jobVars
  <2>10. \A o \in Workers : pc'[o] # "idle" => serving'[o] \in Requests
    BY <1>18, <2>2, <2>3 DEF TypeOK, Post, Go, Goto
  <2> QED BY <2>2, <2>3, <2>4, <2>5, <2>6, <2>7, <2>8, <2>9, <2>10 DEF TypeOK
<1>19. ASSUME NEW w \in Workers, PostTorn(w) PROVE TypeOK'
  <2>1. pc[w] # "idle" BY <1>19 DEF PostTorn
  <2>2. Op(w) \in Ops /\ Company(w) \in Companies /\ serving[w] \in Requests /\ Builds(w) \in Values
    BY <2>1, Served
  <2>s. {"idle", "notify", "store"} \subseteq Steps BY DEF Steps
  <2>3. pc' \in [Workers -> Steps] /\ serving' = serving
    BY <1>19, <2>2, <2>s, AfterIsStep DEF PostTorn, TypeOK, Go, Goto, jobVars
  <2>4. adrift' \subseteq Values \X Companies
    BY <1>19, <2>2 DEF TypeOK, PostTorn
  <2>5. webAdrift' \subseteq Companies
    BY <1>19, <2>2 DEF TypeOK, PostTorn
  <2>6. /\ cache' \in [Values \X Companies -> Nat \cup {Absent}] 
        /\ web' \in [Companies -> Nat \cup {Garbage}]
    BY <1>19, <2>2 DEF TypeOK, PostTorn, Key
  <2>7. /\ db' \in [Companies -> Nat] /\ doc' \in [Companies -> Nat]
        /\ mine' \in [Workers -> Nat] /\ snap' \in [Workers -> Nat]
        /\ mixed' \in BOOLEAN /\ torn' \in BOOLEAN
    BY <1>19, <2>2 DEF TypeOK, PostTorn, jobVars, bufVars
  <2>8. /\ buf' \in Headers \cup {<<o>> : o \in Workers}
        /\ header' \in [Workers -> Headers \cup {<<o>> : o \in Workers}]
    BY <1>19, <2>2 DEF TypeOK, PostTorn, bufVars, Headers
  <2>9. ask' = ask /\ waiting' = waiting /\ crashes' = crashes
    BY <1>19 DEF PostTorn, jobVars
  <2>10. \A o \in Workers : pc'[o] # "idle" => serving'[o] \in Requests
    BY <1>19, <2>2, <2>3 DEF TypeOK, PostTorn, Go, Goto
  <2> QED BY <2>2, <2>3, <2>4, <2>5, <2>6, <2>7, <2>8, <2>9, <2>10 DEF TypeOK
<1>20. ASSUME NEW w \in Workers, PostFails(w) PROVE TypeOK'
  <2>1. pc[w] # "idle" BY <1>20 DEF PostFails
  <2>2. Op(w) \in Ops /\ Company(w) \in Companies /\ serving[w] \in Requests /\ Builds(w) \in Values
    BY <2>1, Served
  <2>s. {"idle", "notify", "store"} \subseteq Steps BY DEF Steps
  <2>3. pc' \in [Workers -> Steps] /\ serving' = serving
    BY <1>20, <2>2, <2>s, AfterIsStep DEF PostFails, TypeOK, Go, Goto, jobVars
  <2>4. adrift' \subseteq Values \X Companies
    BY <1>20, <2>2 DEF TypeOK, PostFails
  <2>5. webAdrift' \subseteq Companies
    BY <1>20, <2>2 DEF TypeOK, PostFails, LoseWeb
  <2>6. /\ cache' \in [Values \X Companies -> Nat \cup {Absent}] 
        /\ web' \in [Companies -> Nat \cup {Garbage}]
    BY <1>20, <2>2 DEF TypeOK, PostFails, Key
  <2>7. /\ db' \in [Companies -> Nat] /\ doc' \in [Companies -> Nat]
        /\ mine' \in [Workers -> Nat] /\ snap' \in [Workers -> Nat]
        /\ mixed' \in BOOLEAN /\ torn' \in BOOLEAN
    BY <1>20, <2>2 DEF TypeOK, PostFails, jobVars, bufVars
  <2>8. /\ buf' \in Headers \cup {<<o>> : o \in Workers}
        /\ header' \in [Workers -> Headers \cup {<<o>> : o \in Workers}]
    BY <1>20, <2>2 DEF TypeOK, PostFails, bufVars, Headers
  <2>9. ask' = ask /\ waiting' = waiting /\ crashes' = crashes
    BY <1>20 DEF PostFails, jobVars
  <2>10. \A o \in Workers : pc'[o] # "idle" => serving'[o] \in Requests
    BY <1>20, <2>2, <2>3 DEF TypeOK, PostFails, Go, Goto
  <2> QED BY <2>2, <2>3, <2>4, <2>5, <2>6, <2>7, <2>8, <2>9, <2>10 DEF TypeOK
<1>21. ASSUME NEW w \in Workers, Notify(w) PROVE TypeOK'
  <2>1. pc[w] # "idle" BY <1>21 DEF Notify
  <2>2. Op(w) \in Ops /\ Company(w) \in Companies /\ serving[w] \in Requests /\ Builds(w) \in Values
    BY <2>1, Served
  <2>s. {"idle", "notify", "store"} \subseteq Steps BY DEF Steps
  <2>3. pc' \in [Workers -> Steps] /\ serving' = serving
    BY <1>21, <2>2, <2>s, AfterIsStep DEF Notify, TypeOK, Go, Goto, jobVars
  <2>4. adrift' \subseteq Values \X Companies
    BY <1>21, <2>2 DEF TypeOK, Notify
  <2>5. webAdrift' \subseteq Companies
    BY <1>21, <2>2 DEF TypeOK, Notify
  <2>6. /\ cache' \in [Values \X Companies -> Nat \cup {Absent}] 
        /\ web' \in [Companies -> Nat \cup {Garbage}]
    BY <1>21, <2>2 DEF TypeOK, Notify, Key
  <2>7. /\ db' \in [Companies -> Nat] /\ doc' \in [Companies -> Nat]
        /\ mine' \in [Workers -> Nat] /\ snap' \in [Workers -> Nat]
        /\ mixed' \in BOOLEAN /\ torn' \in BOOLEAN
    BY <1>21, <2>2 DEF TypeOK, Notify, jobVars, bufVars
  <2>8. /\ buf' \in Headers \cup {<<o>> : o \in Workers}
        /\ header' \in [Workers -> Headers \cup {<<o>> : o \in Workers}]
    BY <1>21, <2>2 DEF TypeOK, Notify, bufVars, Headers
  <2>9. ask' = ask /\ waiting' = waiting /\ crashes' = crashes
    BY <1>21 DEF Notify, jobVars
  <2>10. \A o \in Workers : pc'[o] # "idle" => serving'[o] \in Requests
    BY <1>21, <2>2, <2>3 DEF TypeOK, Notify, Go, Goto
  <2> QED BY <2>2, <2>3, <2>4, <2>5, <2>6, <2>7, <2>8, <2>9, <2>10 DEF TypeOK
<1>22. ASSUME Crash PROVE TypeOK'
  <2>1. adrift' \subseteq Values \X Companies /\ webAdrift' \subseteq Companies
    BY <1>22 DEF TypeOK, Crash
  <2>2. crashes' \in 0 .. MaxCrashes BY <1>22, OrgAssumption DEF TypeOK, Crash
  <2>3. buf' \in Headers /\ header' \in [Workers -> Headers] /\ pc' \in [Workers -> Steps]
    BY <1>22 DEF Crash, Headers, Steps
  <2> QED BY <1>22, <2>1, <2>2, <2>3 DEF TypeOK, Crash
<1>23. ASSUME UNCHANGED vars PROVE TypeOK'
  BY <1>23 DEF vars, jobVars, bufVars, TypeOK
<1> QED BY [Next]_vars, <1>1, <1>2, <1>3, <1>4, <1>5, <1>6, <1>7, <1>8, <1>9, <1>10, <1>11,
    <1>12, <1>13, <1>14, <1>15, <1>16, <1>17, <1>18, <1>19, <1>20, <1>21, <1>22, <1>23, <1>24
  DEF Next, Done

\* A build comes to no step of a change, and states only grow.
LEMMA OpStep ==
  ASSUME TypeOK, OpInv, [Next]_vars
  PROVE  OpInv'
<1> SUFFICES ASSUME NEW x \in Workers PROVE OpAt(x)'
  BY DEF OpInv
<1>1. ASSUME NEW w \in Workers, NEW r \in Requests, Receive(w, r) PROVE OpAt(x)'
  <2>1. SameBut(w) BY <1>1, OwnStep
  <2>2. db' = db BY <1>1 DEF Receive
  <2>3. CASE x # w
    <3>1. pc'[x] = pc[x] /\ ask'[serving'[x]] = ask[serving[x]] /\ mine'[x] = mine[x]
      BY <2>1, <2>3 DEF SameBut
    <3> QED BY <2>2, <3>1 DEF OpInv, OpAt, Op, Company
  <2>4. CASE x = w
    <3>1. ask[r].op \in Ops /\ ask[r].company \in Companies BY OrgAssumption DEF TypeOK
    <3>2. db[ask[r].company] \in Nat /\ mine'[w] = 0 BY <1>1, <3>1 DEF Receive, TypeOK
    <3>3. ask' = ask /\ serving'[w] = r /\ pc'[w] = First(ask[r].op)
      BY <1>1 DEF Receive, Goto, TypeOK
    <3> QED BY <2>2, <2>4, <3>2, <3>3 DEF OpAt, Op, Company, First
  <2> QED BY <2>3, <2>4
<1>2. ASSUME NEW w \in Workers, Return(w) PROVE OpAt(x)'
  <2>1. SameBut(w) BY <1>2, OwnStep
  <2>2. db' = db BY <1>2 DEF Return
  <2>3. CASE x # w
    <3>1. pc'[x] = pc[x] /\ ask'[serving'[x]] = ask[serving[x]] /\ mine'[x] = mine[x]
      BY <2>1, <2>3 DEF SameBut
    <3> QED BY <2>2, <3>1 DEF OpInv, OpAt, Op, Company
  <2>4. CASE x = w
    BY <1>2, <2>4 DEF Return, OpAt
  <2> QED BY <2>3, <2>4
<1>3. ASSUME NEW w \in Workers, Change(w) PROVE OpAt(x)'
  <2>1. SameBut(w) BY <1>3, OwnStep
  <2>a. Company(w) \in Companies /\ Op(w) \in Ops BY <1>3, Served DEF Change
  <2>2. db' \in [Companies -> Nat] /\ \A c \in Companies : db'[c] >= db[c]
    BY <1>3, <2>a DEF Change, TypeOK
  <2>3. CASE x # w
    <3>1. pc'[x] = pc[x] /\ ask'[serving'[x]] = ask[serving[x]] /\ mine'[x] = mine[x]
      BY <2>1, <2>3 DEF SameBut
    <3>2. pc[x] # "idle" => Company(x) \in Companies /\ mine[x] \in Nat /\ mine[x] <= db[Company(x)]
      BY Served DEF TypeOK, OpInv, OpAt
    <3>3. pc'[x] # "idle" => mine'[x] <= db'[Company(x)]
      BY <2>2, <3>1, <3>2 DEF TypeOK
    <3> QED BY <3>1, <3>3 DEF OpInv, OpAt, Op, Company
  <2>4. CASE x = w
    <3>1. serving' = serving /\ ask' = ask /\ mine'[w] = db'[Company(w)]
      BY <1>3 DEF Change, TypeOK
    <3>2. Op(w) \notin Builders BY <1>3 DEF OpInv, OpAt, Change
    <3> QED BY <2>2, <2>4, <2>a, <3>1, <3>2 DEF OpAt, Op, Company
  <2> QED BY <2>3, <2>4
<1>4. ASSUME NEW w \in Workers, ChangeFails(w) PROVE OpAt(x)'
  <2>1. SameBut(w) BY <1>4, OwnStep
  <2>2. db' = db BY <1>4 DEF ChangeFails
  <2>3. CASE x # w
    <3>1. pc'[x] = pc[x] /\ ask'[serving'[x]] = ask[serving[x]] /\ mine'[x] = mine[x]
      BY <2>1, <2>3 DEF SameBut
    <3> QED BY <2>2, <3>1 DEF OpInv, OpAt, Op, Company
  <2>4. CASE x = w
    <3>1. serving' = serving /\ ask' = ask /\ mine' = mine BY <1>4 DEF ChangeFails, jobVars
    <3>2. pc[w] # "idle" BY <1>4 DEF ChangeFails, Deleting
    <3>3. pc'[w] \notin {"idle", "select", "store"} => pc[w] \notin {"idle", "select",
        "store"} \/ Op(w) \notin Builders
      BY <1>4 DEF ChangeFails, Deleting, Go, Goto, TypeOK, After, Changing, Refreshing
    <3> QED BY <2>2, <2>4, <3>1, <3>2, <3>3 DEF OpInv, OpAt, Op, Company
  <2> QED BY <2>3, <2>4
<1>5. ASSUME NEW w \in Workers, Query(w) PROVE OpAt(x)'
  <2>1. SameBut(w) BY <1>5, OwnStep
  <2>2. db' = db BY <1>5 DEF Query
  <2>3. CASE x # w
    <3>1. pc'[x] = pc[x] /\ ask'[serving'[x]] = ask[serving[x]] /\ mine'[x] = mine[x]
      BY <2>1, <2>3 DEF SameBut
    <3> QED BY <2>2, <3>1 DEF OpInv, OpAt, Op, Company
  <2>4. CASE x = w
    <3>1. serving' = serving /\ ask' = ask /\ mine' = mine BY <1>5 DEF Query, jobVars
    <3>2. pc[w] # "idle" BY <1>5 DEF Query, Deleting
    <3>3. pc'[w] \notin {"idle", "select", "store"} => pc[w] \notin {"idle", "select",
        "store"} \/ Op(w) \notin Builders
      BY <1>5 DEF Query, Deleting, Go, Goto, TypeOK, After, Changing, Refreshing
    <3> QED BY <2>2, <2>4, <3>1, <3>2, <3>3 DEF OpInv, OpAt, Op, Company
  <2> QED BY <2>3, <2>4
<1>24. ASSUME NEW w \in Workers, CardChange(w) PROVE OpAt(x)'
  <2>1. SameBut(w) BY <1>24, OwnStep
  <2>2. db' = db BY <1>24 DEF CardChange
  <2>3. CASE x # w
    <3>1. pc'[x] = pc[x] /\ ask'[serving'[x]] = ask[serving[x]] /\ mine'[x] = mine[x]
      BY <2>1, <2>3 DEF SameBut
    <3> QED BY <2>2, <3>1 DEF OpInv, OpAt, Op, Company
  <2>4. CASE x = w
    <3>1. serving' = serving /\ ask' = ask /\ mine' = mine BY <1>24 DEF CardChange, jobVars
    <3>2. pc[w] # "idle" BY <1>24 DEF CardChange, Deleting
    <3>3. pc'[w] \notin {"idle", "select", "store"} => pc[w] \notin {"idle", "select",
        "store"} \/ Op(w) \notin Builders
      BY <1>24 DEF CardChange, Deleting, Go, Goto, TypeOK, After, Changing, Refreshing, Refreshing
    <3> QED BY <2>2, <2>4, <3>1, <3>2, <3>3 DEF OpInv, OpAt, Op, Company
  <2> QED BY <2>3, <2>4
<1>6. ASSUME NEW w \in Workers, QueryFails(w) PROVE OpAt(x)'
  <2>1. SameBut(w) BY <1>6, OwnStep
  <2>2. db' = db BY <1>6 DEF QueryFails
  <2>3. CASE x # w
    <3>1. pc'[x] = pc[x] /\ ask'[serving'[x]] = ask[serving[x]] /\ mine'[x] = mine[x]
      BY <2>1, <2>3 DEF SameBut
    <3> QED BY <2>2, <3>1 DEF OpInv, OpAt, Op, Company
  <2>4. CASE x = w
    <3>1. serving' = serving /\ ask' = ask /\ mine' = mine BY <1>6 DEF QueryFails, jobVars
    <3>2. pc[w] # "idle" BY <1>6 DEF QueryFails, Deleting
    <3>3. pc'[w] \notin {"idle", "select", "store"} => pc[w] \notin {"idle", "select",
        "store"} \/ Op(w) \notin Builders
      BY <1>6 DEF QueryFails, Deleting, Go, Goto, TypeOK, After, Changing, Refreshing, Break
    <3> QED BY <2>2, <2>4, <3>1, <3>2, <3>3 DEF OpInv, OpAt, Op, Company
  <2> QED BY <2>3, <2>4
<1>7. ASSUME NEW w \in Workers, NEW v \in Values, Delete(w, v) PROVE OpAt(x)'
  <2>1. SameBut(w) BY <1>7, OwnStep
  <2>2. db' = db BY <1>7 DEF Delete
  <2>3. CASE x # w
    <3>1. pc'[x] = pc[x] /\ ask'[serving'[x]] = ask[serving[x]] /\ mine'[x] = mine[x]
      BY <2>1, <2>3 DEF SameBut
    <3> QED BY <2>2, <3>1 DEF OpInv, OpAt, Op, Company
  <2>4. CASE x = w
    <3>1. serving' = serving /\ ask' = ask /\ mine' = mine BY <1>7 DEF Delete, jobVars
    <3>2. pc[w] # "idle" BY <1>7 DEF Delete, Deleting
    <3>3. pc'[w] \notin {"idle", "select", "store"} => pc[w] \notin {"idle", "select",
        "store"} \/ Op(w) \notin Builders
      BY <1>7 DEF Delete, Deleting, Go, Goto, TypeOK, After, Changing, Refreshing
    <3> QED BY <2>2, <2>4, <3>1, <3>2, <3>3 DEF OpInv, OpAt, Op, Company
  <2> QED BY <2>3, <2>4
<1>8. ASSUME NEW w \in Workers, NEW v \in Values, DeleteLost(w, v) PROVE OpAt(x)'
  <2>1. SameBut(w) BY <1>8, OwnStep
  <2>2. db' = db BY <1>8 DEF DeleteLost
  <2>3. CASE x # w
    <3>1. pc'[x] = pc[x] /\ ask'[serving'[x]] = ask[serving[x]] /\ mine'[x] = mine[x]
      BY <2>1, <2>3 DEF SameBut
    <3> QED BY <2>2, <3>1 DEF OpInv, OpAt, Op, Company
  <2>4. CASE x = w
    <3>1. serving' = serving /\ ask' = ask /\ mine' = mine BY <1>8 DEF DeleteLost, jobVars
    <3>2. pc[w] # "idle" BY <1>8 DEF DeleteLost, Deleting
    <3>3. pc'[w] \notin {"idle", "select", "store"} => pc[w] \notin {"idle", "select",
        "store"} \/ Op(w) \notin Builders
      BY <1>8 DEF DeleteLost, Deleting, Go, Goto, TypeOK, After, Changing, Refreshing
    <3> QED BY <2>2, <2>4, <3>1, <3>2, <3>3 DEF OpInv, OpAt, Op, Company
  <2> QED BY <2>3, <2>4
<1>9. ASSUME NEW w \in Workers, Select(w) PROVE OpAt(x)'
  <2>1. SameBut(w) BY <1>9, OwnStep
  <2>2. db' = db BY <1>9 DEF Select
  <2>3. CASE x # w
    <3>1. pc'[x] = pc[x] /\ ask'[serving'[x]] = ask[serving[x]] /\ mine'[x] = mine[x]
      BY <2>1, <2>3 DEF SameBut
    <3> QED BY <2>2, <3>1 DEF OpInv, OpAt, Op, Company
  <2>4. CASE x = w
    <3>1. serving' = serving /\ ask' = ask /\ mine' = mine BY <1>9 DEF Select, jobVars
    <3>2. pc[w] # "idle" BY <1>9 DEF Select, Deleting
    <3>3. pc'[w] \notin {"idle", "select", "store"} => pc[w] \notin {"idle", "select",
        "store"} \/ Op(w) \notin Builders
      BY <1>9 DEF Select, Deleting, Go, Goto, TypeOK, After, Changing, Refreshing
    <3> QED BY <2>2, <2>4, <3>1, <3>2, <3>3 DEF OpInv, OpAt, Op, Company
  <2> QED BY <2>3, <2>4
<1>10. ASSUME NEW w \in Workers, SelectFails(w) PROVE OpAt(x)'
  <2>1. SameBut(w) BY <1>10, OwnStep
  <2>2. db' = db BY <1>10 DEF SelectFails
  <2>3. CASE x # w
    <3>1. pc'[x] = pc[x] /\ ask'[serving'[x]] = ask[serving[x]] /\ mine'[x] = mine[x]
      BY <2>1, <2>3 DEF SameBut
    <3> QED BY <2>2, <3>1 DEF OpInv, OpAt, Op, Company
  <2>4. CASE x = w
    <3>1. serving' = serving /\ ask' = ask /\ mine' = mine BY <1>10 DEF SelectFails, jobVars
    <3>2. pc[w] # "idle" BY <1>10 DEF SelectFails, Deleting
    <3>3. pc'[w] \notin {"idle", "select", "store"} => pc[w] \notin {"idle", "select",
        "store"} \/ Op(w) \notin Builders
      BY <1>10 DEF SelectFails, Deleting, Go, Goto, TypeOK, After, Changing, Refreshing
    <3> QED BY <2>2, <2>4, <3>1, <3>2, <3>3 DEF OpInv, OpAt, Op, Company
  <2> QED BY <2>3, <2>4
<1>11. ASSUME NEW w \in Workers, Store(w) PROVE OpAt(x)'
  <2>1. SameBut(w) BY <1>11, OwnStep
  <2>2. db' = db BY <1>11 DEF Store
  <2>3. CASE x # w
    <3>1. pc'[x] = pc[x] /\ ask'[serving'[x]] = ask[serving[x]] /\ mine'[x] = mine[x]
      BY <2>1, <2>3 DEF SameBut
    <3> QED BY <2>2, <3>1 DEF OpInv, OpAt, Op, Company
  <2>4. CASE x = w
    <3>1. serving' = serving /\ ask' = ask /\ mine' = mine BY <1>11 DEF Store, jobVars
    <3>2. pc[w] # "idle" BY <1>11 DEF Store, Deleting
    <3>3. pc'[w] \notin {"idle", "select", "store"} => pc[w] \notin {"idle", "select",
        "store"} \/ Op(w) \notin Builders
      BY <1>11 DEF Store, Deleting, Go, Goto, TypeOK, After, Changing, Refreshing
    <3> QED BY <2>2, <2>4, <3>1, <3>2, <3>3 DEF OpInv, OpAt, Op, Company
  <2> QED BY <2>3, <2>4
<1>12. ASSUME NEW w \in Workers, StoreLost(w) PROVE OpAt(x)'
  <2>1. SameBut(w) BY <1>12, OwnStep
  <2>2. db' = db BY <1>12 DEF StoreLost
  <2>3. CASE x # w
    <3>1. pc'[x] = pc[x] /\ ask'[serving'[x]] = ask[serving[x]] /\ mine'[x] = mine[x]
      BY <2>1, <2>3 DEF SameBut
    <3> QED BY <2>2, <3>1 DEF OpInv, OpAt, Op, Company
  <2>4. CASE x = w
    <3>1. serving' = serving /\ ask' = ask /\ mine' = mine BY <1>12 DEF StoreLost, jobVars
    <3>2. pc[w] # "idle" BY <1>12 DEF StoreLost, Deleting
    <3>3. pc'[w] \notin {"idle", "select", "store"} => pc[w] \notin {"idle", "select",
        "store"} \/ Op(w) \notin Builders
      BY <1>12 DEF StoreLost, Deleting, Go, Goto, TypeOK, After, Changing, Refreshing
    <3> QED BY <2>2, <2>4, <3>1, <3>2, <3>3 DEF OpInv, OpAt, Op, Company
  <2> QED BY <2>3, <2>4
<1>13. ASSUME NEW w \in Workers, Json(w) PROVE OpAt(x)'
  <2>1. SameBut(w) BY <1>13, OwnStep
  <2>2. db' = db BY <1>13 DEF Json
  <2>3. CASE x # w
    <3>1. pc'[x] = pc[x] /\ ask'[serving'[x]] = ask[serving[x]] /\ mine'[x] = mine[x]
      BY <2>1, <2>3 DEF SameBut
    <3> QED BY <2>2, <3>1 DEF OpInv, OpAt, Op, Company
  <2>4. CASE x = w
    <3>1. serving' = serving /\ ask' = ask /\ mine' = mine BY <1>13 DEF Json, jobVars
    <3>2. pc[w] # "idle" BY <1>13 DEF Json, Deleting
    <3>3. pc'[w] \notin {"idle", "select", "store"} => pc[w] \notin {"idle", "select",
        "store"} \/ Op(w) \notin Builders
      BY <1>13 DEF Json, Deleting, Go, Goto, TypeOK, After, Changing, Refreshing
    <3> QED BY <2>2, <2>4, <3>1, <3>2, <3>3 DEF OpInv, OpAt, Op, Company
  <2> QED BY <2>3, <2>4
<1>14. ASSUME NEW w \in Workers, JsonFails(w) PROVE OpAt(x)'
  <2>1. SameBut(w) BY <1>14, OwnStep
  <2>2. db' = db BY <1>14 DEF JsonFails
  <2>3. CASE x # w
    <3>1. pc'[x] = pc[x] /\ ask'[serving'[x]] = ask[serving[x]] /\ mine'[x] = mine[x]
      BY <2>1, <2>3 DEF SameBut
    <3> QED BY <2>2, <3>1 DEF OpInv, OpAt, Op, Company
  <2>4. CASE x = w
    <3>1. serving' = serving /\ ask' = ask /\ mine' = mine BY <1>14 DEF JsonFails, jobVars
    <3>2. pc[w] # "idle" BY <1>14 DEF JsonFails, Deleting
    <3>3. pc'[w] \notin {"idle", "select", "store"} => pc[w] \notin {"idle", "select",
        "store"} \/ Op(w) \notin Builders
      BY <1>14 DEF JsonFails, Deleting, Go, Goto, TypeOK, After, Changing, Refreshing
    <3> QED BY <2>2, <2>4, <3>1, <3>2, <3>3 DEF OpInv, OpAt, Op, Company
  <2> QED BY <2>3, <2>4
<1>15. ASSUME NEW w \in Workers, BeginHeader(w) PROVE OpAt(x)'
  <2>1. SameBut(w) BY <1>15, OwnStep
  <2>2. db' = db BY <1>15 DEF BeginHeader
  <2>3. CASE x # w
    <3>1. pc'[x] = pc[x] /\ ask'[serving'[x]] = ask[serving[x]] /\ mine'[x] = mine[x]
      BY <2>1, <2>3 DEF SameBut
    <3> QED BY <2>2, <3>1 DEF OpInv, OpAt, Op, Company
  <2>4. CASE x = w
    <3>1. serving' = serving /\ ask' = ask /\ mine' = mine BY <1>15 DEF BeginHeader, jobVars
    <3>2. pc[w] # "idle" BY <1>15 DEF BeginHeader, Deleting
    <3>3. pc'[w] \notin {"idle", "select", "store"} => pc[w] \notin {"idle", "select",
        "store"} \/ Op(w) \notin Builders
      BY <1>15 DEF BeginHeader, Deleting, Go, Goto, TypeOK, After, Changing, Refreshing
    <3> QED BY <2>2, <2>4, <3>1, <3>2, <3>3 DEF OpInv, OpAt, Op, Company
  <2> QED BY <2>3, <2>4
<1>16. ASSUME NEW w \in Workers, EndHeader(w) PROVE OpAt(x)'
  <2>1. SameBut(w) BY <1>16, OwnStep
  <2>2. db' = db BY <1>16 DEF EndHeader
  <2>3. CASE x # w
    <3>1. pc'[x] = pc[x] /\ ask'[serving'[x]] = ask[serving[x]] /\ mine'[x] = mine[x]
      BY <2>1, <2>3 DEF SameBut
    <3> QED BY <2>2, <3>1 DEF OpInv, OpAt, Op, Company
  <2>4. CASE x = w
    <3>1. serving' = serving /\ ask' = ask /\ mine' = mine BY <1>16 DEF EndHeader, jobVars
    <3>2. pc[w] # "idle" BY <1>16 DEF EndHeader, Deleting
    <3>3. pc'[w] \notin {"idle", "select", "store"} => pc[w] \notin {"idle", "select",
        "store"} \/ Op(w) \notin Builders
      BY <1>16 DEF EndHeader, Deleting, Go, Goto, TypeOK, After, Changing, Refreshing
    <3> QED BY <2>2, <2>4, <3>1, <3>2, <3>3 DEF OpInv, OpAt, Op, Company
  <2> QED BY <2>3, <2>4
<1>17. ASSUME NEW w \in Workers, Copy(w) PROVE OpAt(x)'
  <2>1. SameBut(w) BY <1>17, OwnStep
  <2>2. db' = db BY <1>17 DEF Copy
  <2>3. CASE x # w
    <3>1. pc'[x] = pc[x] /\ ask'[serving'[x]] = ask[serving[x]] /\ mine'[x] = mine[x]
      BY <2>1, <2>3 DEF SameBut
    <3> QED BY <2>2, <3>1 DEF OpInv, OpAt, Op, Company
  <2>4. CASE x = w
    <3>1. serving' = serving /\ ask' = ask /\ mine' = mine BY <1>17 DEF Copy, jobVars
    <3>2. pc[w] # "idle" BY <1>17 DEF Copy, Deleting
    <3>3. pc'[w] \notin {"idle", "select", "store"} => pc[w] \notin {"idle", "select",
        "store"} \/ Op(w) \notin Builders
      BY <1>17 DEF Copy, Deleting, Go, Goto, TypeOK, After, Changing, Refreshing
    <3> QED BY <2>2, <2>4, <3>1, <3>2, <3>3 DEF OpInv, OpAt, Op, Company
  <2> QED BY <2>3, <2>4
<1>18. ASSUME NEW w \in Workers, Post(w) PROVE OpAt(x)'
  <2>1. SameBut(w) BY <1>18, OwnStep
  <2>2. db' = db BY <1>18 DEF Post
  <2>3. CASE x # w
    <3>1. pc'[x] = pc[x] /\ ask'[serving'[x]] = ask[serving[x]] /\ mine'[x] = mine[x]
      BY <2>1, <2>3 DEF SameBut
    <3> QED BY <2>2, <3>1 DEF OpInv, OpAt, Op, Company
  <2>4. CASE x = w
    <3>1. serving' = serving /\ ask' = ask /\ mine' = mine BY <1>18 DEF Post, jobVars
    <3>2. pc[w] # "idle" BY <1>18 DEF Post, Deleting
    <3>3. pc'[w] \notin {"idle", "select", "store"} => pc[w] \notin {"idle", "select",
        "store"} \/ Op(w) \notin Builders
      BY <1>18 DEF Post, Deleting, Go, Goto, TypeOK, After, Changing, Refreshing
    <3> QED BY <2>2, <2>4, <3>1, <3>2, <3>3 DEF OpInv, OpAt, Op, Company
  <2> QED BY <2>3, <2>4
<1>19. ASSUME NEW w \in Workers, PostTorn(w) PROVE OpAt(x)'
  <2>1. SameBut(w) BY <1>19, OwnStep
  <2>2. db' = db BY <1>19 DEF PostTorn
  <2>3. CASE x # w
    <3>1. pc'[x] = pc[x] /\ ask'[serving'[x]] = ask[serving[x]] /\ mine'[x] = mine[x]
      BY <2>1, <2>3 DEF SameBut
    <3> QED BY <2>2, <3>1 DEF OpInv, OpAt, Op, Company
  <2>4. CASE x = w
    <3>1. serving' = serving /\ ask' = ask /\ mine' = mine BY <1>19 DEF PostTorn, jobVars
    <3>2. pc[w] # "idle" BY <1>19 DEF PostTorn, Deleting
    <3>3. pc'[w] \notin {"idle", "select", "store"} => pc[w] \notin {"idle", "select",
        "store"} \/ Op(w) \notin Builders
      BY <1>19 DEF PostTorn, Deleting, Go, Goto, TypeOK, After, Changing, Refreshing
    <3> QED BY <2>2, <2>4, <3>1, <3>2, <3>3 DEF OpInv, OpAt, Op, Company
  <2> QED BY <2>3, <2>4
<1>20. ASSUME NEW w \in Workers, PostFails(w) PROVE OpAt(x)'
  <2>1. SameBut(w) BY <1>20, OwnStep
  <2>2. db' = db BY <1>20 DEF PostFails
  <2>3. CASE x # w
    <3>1. pc'[x] = pc[x] /\ ask'[serving'[x]] = ask[serving[x]] /\ mine'[x] = mine[x]
      BY <2>1, <2>3 DEF SameBut
    <3> QED BY <2>2, <3>1 DEF OpInv, OpAt, Op, Company
  <2>4. CASE x = w
    <3>1. serving' = serving /\ ask' = ask /\ mine' = mine BY <1>20 DEF PostFails, jobVars
    <3>2. pc[w] # "idle" BY <1>20 DEF PostFails, Deleting
    <3>3. pc'[w] \notin {"idle", "select", "store"} => pc[w] \notin {"idle", "select",
        "store"} \/ Op(w) \notin Builders
      BY <1>20 DEF PostFails, Deleting, Go, Goto, TypeOK, After, Changing, Refreshing
    <3> QED BY <2>2, <2>4, <3>1, <3>2, <3>3 DEF OpInv, OpAt, Op, Company
  <2> QED BY <2>3, <2>4
<1>21. ASSUME NEW w \in Workers, Notify(w) PROVE OpAt(x)'
  <2>1. SameBut(w) BY <1>21, OwnStep
  <2>2. db' = db BY <1>21 DEF Notify
  <2>3. CASE x # w
    <3>1. pc'[x] = pc[x] /\ ask'[serving'[x]] = ask[serving[x]] /\ mine'[x] = mine[x]
      BY <2>1, <2>3 DEF SameBut
    <3> QED BY <2>2, <3>1 DEF OpInv, OpAt, Op, Company
  <2>4. CASE x = w
    <3>1. serving' = serving /\ ask' = ask /\ mine' = mine BY <1>21 DEF Notify, jobVars
    <3>2. pc[w] # "idle" BY <1>21 DEF Notify, Deleting
    <3>3. pc'[w] \notin {"idle", "select", "store"} => pc[w] \notin {"idle", "select",
        "store"} \/ Op(w) \notin Builders
      BY <1>21 DEF Notify, Deleting, Go, Goto, TypeOK, After, Changing, Refreshing
    <3> QED BY <2>2, <2>4, <3>1, <3>2, <3>3 DEF OpInv, OpAt, Op, Company
  <2> QED BY <2>3, <2>4
<1>22. ASSUME Crash PROVE OpAt(x)'
  BY <1>22 DEF Crash, OpAt
<1>23. ASSUME UNCHANGED vars PROVE OpAt(x)'
  BY <1>23 DEF vars, jobVars, OpInv, OpAt, Op, Company
<1> QED BY [Next]_vars, <1>1, <1>2, <1>3, <1>4, <1>5, <1>6, <1>7, <1>8, <1>9, <1>10, <1>11,
    <1>12, <1>13, <1>14, <1>15, <1>16, <1>17, <1>18, <1>19, <1>20, <1>21, <1>22, <1>23, <1>24
  DEF Next, Done

\* What the others spoil and repair stays as it is.
LEMMA OthersCache ==
  ASSUME NEW w \in Workers, NEW v \in Values, NEW c \in Companies, SameBut(w), db'[c] = db[c]
  PROVE  \A o \in Workers \ {w} : /\ Spoils(o, v, c)' <=> Spoils(o, v, c)
                                  /\ Repairs(o, v, c)' <=> Repairs(o, v, c)
<1> SUFFICES ASSUME NEW o \in Workers \ {w}
             PROVE  (Spoils(o, v, c)' <=> Spoils(o, v, c)) /\ (Repairs(o, v, c)' <=> Repairs(o,
                 v, c))
  OBVIOUS
<1>1. pc'[o] = pc[o] /\ ask'[serving'[o]] = ask[serving[o]] /\ snap'[o] = snap[o]
  BY DEF SameBut
<1> QED BY <1>1 DEF Spoils, Repairs, Storing, Company, Builds, Op

\* A step that takes no repair away and spoils nothing new.
LEMMA CacheQuiet ==
  ASSUME NEW w \in Workers, NEW v \in Values, NEW c \in Companies, SameBut(w), db'[c] = db[c],
         CacheAt(v, c),
         <<v, c>> \in adrift => <<v, c>> \in adrift',
         Stale(<<v, c>>)' => Stale(<<v, c>>) \/ Spoils(w, v, c),
         Spoils(w, v, c)' => Spoils(w, v, c),
         Repairs(w, v, c) => Repairs(w, v, c)'
  PROVE  CacheAt(v, c)'
<1>1. (\E o \in Workers : Spoils(o, v, c))' => \E o \in Workers : Spoils(o, v, c)
  BY OthersCache
<1>2. (\E o \in Workers : Repairs(o, v, c)) => (\E o \in Workers : Repairs(o, v, c))'
  BY OthersCache
<1> QED BY <1>1, <1>2 DEF CacheAt

\* A step after which w has nothing more to do about the value, and leaves it
\* right or gives up on it.
LEMMA CacheFreed ==
  ASSUME NEW w \in Workers, NEW v \in Values, NEW c \in Companies, SameBut(w), db'[c] = db[c],
         Stale(<<v, c>>)' \/ OldStore(w, v, c) => <<v, c>> \in adrift',
         ~ Storing(w, v, c)'
  PROVE  CacheAt(v, c)'
<1>1. (\E o \in Workers : Spoils(o, v, c))' => OldStore(w, v, c)
  BY OthersCache DEF OldStore, Spoils
<1> QED BY <1>1 DEF CacheAt

\* The same of the web server's copy.
LEMMA OthersWeb ==
  ASSUME NEW w \in Workers, NEW c \in Companies, SameBut(w), doc'[c] = doc[c]
  PROVE  \A o \in Workers \ {w} : /\ Misleads(o, c)' <=> Misleads(o, c)
                                  /\ Renews(o, c)' <=> Renews(o, c)
<1> SUFFICES ASSUME NEW o \in Workers \ {w}
             PROVE  (Misleads(o, c)' <=> Misleads(o, c)) /\ (Renews(o, c)' <=> Renews(o, c))
  OBVIOUS
<1>1. pc'[o] = pc[o] /\ ask'[serving'[o]] = ask[serving[o]] /\ snap'[o] = snap[o]
  BY DEF SameBut
<1> QED BY <1>1 DEF Misleads, Renews, Reselects, Posting, Company

LEMMA WebQuiet ==
  ASSUME NEW w \in Workers, NEW c \in Companies, SameBut(w), doc'[c] = doc[c], WebAt(c),
         c \in webAdrift => c \in webAdrift',
         web'[c] # doc'[c] => web[c] # doc[c] \/ Misleads(w, c),
         Misleads(w, c)' => Misleads(w, c),
         Renews(w, c) => Renews(w, c)'
  PROVE  WebAt(c)'
<1>1. (\E o \in Workers : Misleads(o, c))' => \E o \in Workers : Misleads(o, c)
  BY OthersWeb
<1>2. (\E o \in Workers : Renews(o, c)) => (\E o \in Workers : Renews(o, c))'
  BY OthersWeb
<1> QED BY <1>1, <1>2 DEF WebAt

LEMMA WebFreed ==
  ASSUME NEW w \in Workers, NEW c \in Companies, SameBut(w), doc'[c] = doc[c],
         web'[c] # doc'[c] \/ OldPost(w, c) => c \in webAdrift',
         ~ Posting(w, c)'
  PROVE  WebAt(c)'
<1>1. (\E o \in Workers : Misleads(o, c))' => OldPost(w, c)
  BY OthersWeb DEF OldPost, Misleads
<1> QED BY <1>1 DEF WebAt

\* A step that makes neither the value older nor what w is about to store.
LEMMA SinceQuiet ==
  ASSUME NEW w \in Workers, NEW v \in Values, NEW c \in Companies, NEW n \in Nat, SameBut(w),
         Since(v, c, n),
         <<v, c>> \in adrift => <<v, c>> \in adrift',
         \/ cache'[<<v, c>>] = cache[<<v, c>>]
         \/ cache'[<<v, c>>] = Absent \/ cache'[<<v, c>>] >= n \/ <<v, c>> \in adrift',
         Storing(w, v, c)' => (Storing(w, v, c) /\ snap'[w] = snap[w]) \/ snap'[w] >= n
  PROVE  Since(v, c, n)'
<1>1. \A o \in Workers \ {w} : Storing(o, v, c)' => Storing(o, v, c) /\ snap'[o] = snap[o]
  <2> SUFFICES ASSUME NEW o \in Workers \ {w}, Storing(o, v, c)'
               PROVE  Storing(o, v, c) /\ snap'[o] = snap[o]
    OBVIOUS
  <2>1. pc'[o] = pc[o] /\ ask'[serving'[o]] = ask[serving[o]] /\ snap'[o] = snap[o]
    BY DEF SameBut
  <2> QED BY <2>1 DEF Storing, Company, Builds, Op
<1>2. \A o \in Workers : Storing(o, v, c)' => snap'[o] >= n \/ <<v, c>> \in adrift'
  <2> SUFFICES ASSUME NEW o \in Workers, Storing(o, v, c)'
               PROVE  snap'[o] >= n \/ <<v, c>> \in adrift'
    OBVIOUS
  <2> QED BY <1>1 DEF Since
<1> QED BY <1>2 DEF Since

LEMMA SinceFreed ==
  ASSUME NEW w \in Workers, NEW v \in Values, NEW c \in Companies, NEW n \in Nat, SameBut(w),
         n <= db[c], db'[c] = db[c], db[c] \in Nat,
         Stale(<<v, c>>)' \/ OldStore(w, v, c) => <<v, c>> \in adrift',
         ~ Storing(w, v, c)'
  PROVE  Since(v, c, n)'
<1>1. \A o \in Workers \ {w} : Storing(o, v, c)' => Storing(o, v, c) /\ snap'[o] = snap[o]
  <2> SUFFICES ASSUME NEW o \in Workers \ {w}, Storing(o, v, c)'
               PROVE  Storing(o, v, c) /\ snap'[o] = snap[o]
    OBVIOUS
  <2>1. pc'[o] = pc[o] /\ ask'[serving'[o]] = ask[serving[o]] /\ snap'[o] = snap[o]
    BY DEF SameBut
  <2> QED BY <2>1 DEF Storing, Company, Builds, Op
<1>2. \A o \in Workers : Storing(o, v, c)' => snap'[o] >= n \/ <<v, c>> \in adrift'
  <2> SUFFICES ASSUME NEW o \in Workers, Storing(o, v, c)'
               PROVE  snap'[o] >= n \/ <<v, c>> \in adrift'
    OBVIOUS
  <2>1. o # w BY DEF OldStore
  <2>2. snap[o] # db[c] => <<v, c>> \in adrift' BY <1>1, <2>1 DEF OldStore
  <2> QED BY <1>1, <2>1, <2>2
<1>3. cache'[<<v, c>>] = Absent \/ cache'[<<v, c>>] = db[c] \/ <<v, c>> \in adrift'
  BY DEF Stale
<1> QED BY <1>2, <1>3 DEF Since

\* The others owe what they owed.
LEMMA OthersOwe ==
  ASSUME NEW w \in Workers, NEW x \in Workers \ {w}, NEW v \in Values, NEW c \in Companies,
      NEW n \in Nat,
         SameBut(w), Owes(x, v, c, n)'
  PROVE  Owes(x, v, c, n)
<1>1. pc'[x] = pc[x] /\ ask'[serving'[x]] = ask[serving[x]] /\ mine'[x] = mine[x]
  BY DEF SameBut
<1> QED BY <1>1 DEF Owes, Company, Op

\* What is out of date in redis keeps its repairer.
LEMMA CacheStep ==
  ASSUME TypeOK, OpInv, CacheInv, [Next]_vars
  PROVE  CacheInv'
<1> SUFFICES ASSUME NEW v \in Values, NEW c \in Companies PROVE CacheAt(v, c)'
  BY DEF CacheInv
<1>1. ASSUME NEW w \in Workers, NEW r \in Requests, Receive(w, r) PROVE CacheAt(v, c)'
  <2>1. SameBut(w) BY <1>1, OwnStep
  <2>2. db'[c] = db[c] BY <1>1 DEF Receive, TypeOK
  <2>3. <<v, c>> \in adrift => <<v, c>> \in adrift'
    BY <1>1 DEF Receive
  <2>4. Stale(<<v, c>>)' => Stale(<<v, c>>) \/ Spoils(w, v, c)
    BY <1>1, <2>2 DEF Receive, Stale
  <2>5. Spoils(w, v, c)' => Spoils(w, v, c)
    BY <1>1, <2>2 DEF Receive, Spoils, Storing, Goto, First, TypeOK, Op, Company, Builds,
        Builders
  <2>6. Repairs(w, v, c) => Repairs(w, v, c)'
    BY <1>1, <2>2, OrgAssumption DEF Receive, Repairs, Storing, Goto, First, TypeOK, Op,
        Company, Builds, BeforeTree, BeforeUsers, BeforeJson, BeforeSelect
  <2> QED BY <2>1, <2>2, <2>3, <2>4, <2>5, <2>6, CacheQuiet DEF CacheInv
<1>2. ASSUME NEW w \in Workers, Return(w) PROVE CacheAt(v, c)'
  <2>1. SameBut(w) BY <1>2, OwnStep
  <2>2. db'[c] = db[c] BY <1>2 DEF Return, TypeOK
  <2>3. <<v, c>> \in adrift => <<v, c>> \in adrift'
    BY <1>2 DEF Return
  <2>4. Stale(<<v, c>>)' => Stale(<<v, c>>) \/ Spoils(w, v, c)
    BY <1>2, <2>2 DEF Return, Stale
  <2>5. Spoils(w, v, c)' => Spoils(w, v, c)
    BY <1>2, <2>2 DEF Return, Spoils, Storing, TypeOK, Op, Company, Builds
  <2>6. Repairs(w, v, c) => Repairs(w, v, c)'
    BY <1>2, <2>2 DEF Return, Repairs, Storing, TypeOK, Op, Company, Builds, BeforeTree,
        BeforeUsers, BeforeJson, BeforeSelect
  <2> QED BY <2>1, <2>2, <2>3, <2>4, <2>5, <2>6, CacheQuiet DEF CacheInv
<1>3. ASSUME NEW w \in Workers, Change(w) PROVE CacheAt(v, c)'
  <2>0. serving' = serving /\ ask' = ask BY <1>3 DEF Change, jobVars
  <2>1. SameBut(w) BY <1>3, OwnStep
  <2>2. CASE c = Company(w)
    <3>1. Op(w) \notin Builders BY <1>3 DEF OpInv, OpAt, Change
    <3>2. pc'[w] \in {"result", "del org_"} BY <1>3 DEF Change, Go, After, Changing, TypeOK
    <3>3. Repairs(w, v, c)'
      BY <2>0, <2>2, <3>1, <3>2 DEF Repairs, Company, BeforeTree, BeforeUsers, BeforeJson,
          BeforeSelect, Values
    <3> QED BY <3>3 DEF CacheAt
  <2>3. CASE c # Company(w)
    <3>2. db'[c] = db[c] BY <1>3, <2>3 DEF Change, TypeOK
    <3>3. <<v, c>> \in adrift => <<v, c>> \in adrift'
      BY <1>3, <2>3 DEF Change
    <3>4. Stale(<<v, c>>)' => Stale(<<v, c>>) \/ Spoils(w, v, c)
      BY <1>3, <2>3, <3>2 DEF Change, Stale
    <3>5. Spoils(w, v, c)' => Spoils(w, v, c)
      BY <2>0, <1>3, <2>3, <3>2 DEF Change, Spoils, Storing, Go, After, Changing, TypeOK, Op,
          Company, Builds
    <3>6. Repairs(w, v, c) => Repairs(w, v, c)'
      BY <2>0, <1>3, <2>3, <3>2 DEF Change, Repairs, Storing, Go, After, Changing, TypeOK, Op,
          Company, Builds, BeforeTree, BeforeUsers, BeforeJson, BeforeSelect
    <3> QED BY <2>1, <3>2, <3>3, <3>4, <3>5, <3>6, CacheQuiet DEF CacheInv
  <2> QED BY <2>2, <2>3
<1>4. ASSUME NEW w \in Workers, ChangeFails(w) PROVE CacheAt(v, c)'
  <2>0. serving' = serving /\ ask' = ask BY <1>4 DEF ChangeFails, jobVars
  <2>1. SameBut(w) BY <1>4, OwnStep
  <2>2. db'[c] = db[c] BY <1>4 DEF ChangeFails, TypeOK
  <2>3. <<v, c>> \in adrift => <<v, c>> \in adrift'
    BY <1>4 DEF ChangeFails
  <2>4. Stale(<<v, c>>)' => Stale(<<v, c>>) \/ Spoils(w, v, c)
    BY <1>4, <2>2 DEF ChangeFails, Stale
  <2>5. Spoils(w, v, c)' => Spoils(w, v, c)
    BY <2>0, <1>4, <2>2 DEF ChangeFails, Spoils, Storing, Go, Goto, After, Changing, TypeOK,
        Op, Company, Builds
  <2>6. Repairs(w, v, c) => Repairs(w, v, c)'
    BY <2>0, <1>4, <2>2 DEF ChangeFails, Repairs, Storing, Go, Goto, After, Changing, TypeOK,
        Op, Company, Builds, BeforeTree, BeforeUsers, BeforeJson, BeforeSelect
  <2> QED BY <2>1, <2>2, <2>3, <2>4, <2>5, <2>6, CacheQuiet DEF CacheInv
<1>5. ASSUME NEW w \in Workers, Query(w) PROVE CacheAt(v, c)'
  <2>0. serving' = serving /\ ask' = ask BY <1>5 DEF Query, jobVars
  <2>1. SameBut(w) BY <1>5, OwnStep
  <2>2. db'[c] = db[c] BY <1>5 DEF Query, TypeOK
  <2>3. <<v, c>> \in adrift => <<v, c>> \in adrift'
    BY <1>5 DEF Query
  <2>4. Stale(<<v, c>>)' => Stale(<<v, c>>) \/ Spoils(w, v, c)
    BY <1>5, <2>2 DEF Query, Stale
  <2>5. Spoils(w, v, c)' => Spoils(w, v, c)
    BY <2>0, <1>5, <2>2 DEF Query, Spoils, Storing, Go, After, Changing, TypeOK, Op, Company,
        Builds
  <2>6. Repairs(w, v, c) => Repairs(w, v, c)'
    BY <2>0, <1>5, <2>2 DEF Query, Repairs, Storing, Go, After, Changing, TypeOK, Op, Company,
        Builds, BeforeTree, BeforeUsers, BeforeJson, BeforeSelect
  <2> QED BY <2>1, <2>2, <2>3, <2>4, <2>5, <2>6, CacheQuiet DEF CacheInv
<1>24. ASSUME NEW w \in Workers, CardChange(w) PROVE CacheAt(v, c)'
  <2>0. serving' = serving /\ ask' = ask BY <1>24 DEF CardChange, jobVars
  <2>1. SameBut(w) BY <1>24, OwnStep
  <2>2. db'[c] = db[c] BY <1>24 DEF CardChange, TypeOK
  <2>3. <<v, c>> \in adrift => <<v, c>> \in adrift'
    BY <1>24 DEF CardChange
  <2>4. Stale(<<v, c>>)' => Stale(<<v, c>>) \/ Spoils(w, v, c)
    BY <1>24, <2>2 DEF CardChange, Stale
  <2>5. Spoils(w, v, c)' => Spoils(w, v, c)
    BY <2>0, <1>24, <2>2 DEF CardChange, Spoils, Storing, Go, After, Changing, Refreshing, TypeOK, Op, Company,
        Builds
  <2>6. Repairs(w, v, c) => Repairs(w, v, c)'
    BY <2>0, <1>24, <2>2 DEF CardChange, Repairs, Storing, Go, After, Changing, Refreshing, TypeOK, Op, Company,
        Builds, BeforeTree, BeforeUsers, BeforeJson, BeforeSelect
  <2> QED BY <2>1, <2>2, <2>3, <2>4, <2>5, <2>6, CacheQuiet DEF CacheInv
<1>6. ASSUME NEW w \in Workers, QueryFails(w) PROVE CacheAt(v, c)'
  <2>0. serving' = serving /\ ask' = ask BY <1>6 DEF QueryFails, jobVars
  <2>1. SameBut(w) BY <1>6, OwnStep
  <2>5. CASE c = Company(w)
    <3>2. db'[c] = db[c] BY <1>6 DEF QueryFails, TypeOK
    <3>3. Stale(<<v, c>>)' \/ OldStore(w, v, c) => <<v, c>> \in adrift'
      BY <1>6, <2>5, <3>2 DEF QueryFails, Stale, Lose, Break, Builds
    <3>4. ~ Storing(w, v, c)'
      BY <2>0, <1>6, <2>5 DEF QueryFails, Storing, Goto, TypeOK, Builders, Break
    <3> QED BY <2>1, <3>2, <3>3, <3>4, CacheFreed
  <2>6. CASE ~ (c = Company(w))
    <3>2. db'[c] = db[c] BY <1>6, <2>6 DEF QueryFails, TypeOK
    <3>3. <<v, c>> \in adrift => <<v, c>> \in adrift'
      BY <1>6, <2>6 DEF QueryFails, Lose, Break
    <3>4. Stale(<<v, c>>)' => Stale(<<v, c>>) \/ Spoils(w, v, c)
      BY <1>6, <2>6, <3>2 DEF QueryFails, Stale
    <3>5. Spoils(w, v, c)' => Spoils(w, v, c)
      BY <2>0, <1>6, <2>6, <3>2 DEF QueryFails, Spoils, Storing, Goto, TypeOK, Op, Company,
          Builds, Break
    <3>6. Repairs(w, v, c) => Repairs(w, v, c)'
      BY <2>0, <1>6, <2>6, <3>2 DEF QueryFails, Repairs, Storing, Goto, TypeOK, Op, Company,
          Builds, BeforeTree, BeforeUsers, BeforeJson, BeforeSelect, Break
    <3> QED BY <2>1, <3>2, <3>3, <3>4, <3>5, <3>6, CacheQuiet DEF CacheInv
  <2> QED BY <2>5, <2>6
<1>7. ASSUME NEW w \in Workers, NEW u \in Values, Delete(w, u) PROVE CacheAt(v, c)'
  <2>0. serving' = serving /\ ask' = ask BY <1>7 DEF Delete, jobVars
  <2>1. SameBut(w) BY <1>7, OwnStep
  <2>b. Op(w) \notin Builders /\ Builds(w) = "org_" BY <1>7 DEF OpInv, OpAt, Delete, Deleting,
      Builds, Builders
  <2>5. CASE v = u /\ c = Company(w)
    <3>2. db'[c] = db[c] BY <1>7 DEF Delete, TypeOK
    <3>3. Stale(<<v, c>>)' \/ OldStore(w, v, c) => <<v, c>> \in adrift'
      BY <1>7, <2>5, <2>b, <3>2 DEF Delete, Stale, Mend, TypeOK, Builds
    <3>4. ~ Storing(w, v, c)'
      BY <2>0, <1>7, <2>5, <2>b DEF Delete, Deleting, Storing, Go, After, Refreshing, TypeOK,
          Builders
    <3> QED BY <2>1, <3>2, <3>3, <3>4, CacheFreed
  <2>6. CASE ~ (v = u /\ c = Company(w))
    <3>2. db'[c] = db[c] BY <1>7, <2>6, <2>b DEF Delete, TypeOK
    <3>3. <<v, c>> \in adrift => <<v, c>> \in adrift'
      BY <1>7, <2>6, <2>b DEF Delete, Mend
    <3>4. Stale(<<v, c>>)' => Stale(<<v, c>>) \/ Spoils(w, v, c)
      BY <1>7, <2>6, <2>b, <3>2 DEF Delete, Stale, TypeOK
    <3>5. Spoils(w, v, c)' => Spoils(w, v, c)
      BY <2>0, <1>7, <2>6, <2>b, <3>2 DEF Delete, Deleting, Spoils, Storing, Go, After,
          Refreshing, TypeOK, Op, Company, Builds
    <3>6. Repairs(w, v, c) => Repairs(w, v, c)'
      BY <2>0, <1>7, <2>6, <2>b, <3>2 DEF Delete, Deleting, Repairs, Storing, Go, After,
          Refreshing, TypeOK, Op, Company, Builds, BeforeTree, BeforeUsers, BeforeJson,
          BeforeSelect
    <3> QED BY <2>1, <3>2, <3>3, <3>4, <3>5, <3>6, CacheQuiet DEF CacheInv
  <2> QED BY <2>5, <2>6
<1>8. ASSUME NEW w \in Workers, NEW u \in Values, DeleteLost(w, u) PROVE CacheAt(v, c)'
  <2>0. serving' = serving /\ ask' = ask BY <1>8 DEF DeleteLost, jobVars
  <2>1. SameBut(w) BY <1>8, OwnStep
  <2>b. Op(w) \notin Builders /\ Builds(w) = "org_" BY <1>8 DEF OpInv, OpAt, DeleteLost,
      Deleting, Builds, Builders
  <2>5. CASE v = u /\ c = Company(w)
    <3>2. db'[c] = db[c] BY <1>8 DEF DeleteLost, TypeOK
    <3>3. Stale(<<v, c>>)' \/ OldStore(w, v, c) => <<v, c>> \in adrift'
      BY <1>8, <2>5, <2>b, <3>2 DEF DeleteLost, Stale, Lose, Builds
    <3>4. ~ Storing(w, v, c)'
      BY <2>0, <1>8, <2>5, <2>b DEF DeleteLost, Deleting, Storing, Go, After, Refreshing,
          TypeOK, Builders
    <3> QED BY <2>1, <3>2, <3>3, <3>4, CacheFreed
  <2>6. CASE ~ (v = u /\ c = Company(w))
    <3>2. db'[c] = db[c] BY <1>8, <2>6, <2>b DEF DeleteLost, TypeOK
    <3>3. <<v, c>> \in adrift => <<v, c>> \in adrift'
      BY <1>8, <2>6, <2>b DEF DeleteLost, Lose
    <3>4. Stale(<<v, c>>)' => Stale(<<v, c>>) \/ Spoils(w, v, c)
      BY <1>8, <2>6, <2>b, <3>2 DEF DeleteLost, Stale
    <3>5. Spoils(w, v, c)' => Spoils(w, v, c)
      BY <2>0, <1>8, <2>6, <2>b, <3>2 DEF DeleteLost, Deleting, Spoils, Storing, Go, After,
          Refreshing, TypeOK, Op, Company, Builds
    <3>6. Repairs(w, v, c) => Repairs(w, v, c)'
      BY <2>0, <1>8, <2>6, <2>b, <3>2 DEF DeleteLost, Deleting, Repairs, Storing, Go, After,
          Refreshing, TypeOK, Op, Company, Builds, BeforeTree, BeforeUsers, BeforeJson,
          BeforeSelect
    <3> QED BY <2>1, <3>2, <3>3, <3>4, <3>5, <3>6, CacheQuiet DEF CacheInv
  <2> QED BY <2>5, <2>6
<1>9. ASSUME NEW w \in Workers, Select(w) PROVE CacheAt(v, c)'
  <2>0. serving' = serving /\ ask' = ask BY <1>9 DEF Select, jobVars
  <2>1. SameBut(w) BY <1>9, OwnStep
  <2>2. db'[c] = db[c] BY <1>9 DEF Select, TypeOK
  <2>3. <<v, c>> \in adrift => <<v, c>> \in adrift'
    BY <1>9 DEF Select
  <2>4. Stale(<<v, c>>)' => Stale(<<v, c>>) \/ Spoils(w, v, c)
    BY <1>9, <2>2 DEF Select, Stale
  <2>5. Spoils(w, v, c)' => Spoils(w, v, c)
    BY <2>0, <1>9, <2>2 DEF Select, Spoils, Storing, Go, After, Refreshing, TypeOK, Op,
        Company, Builds
  <2>6. Repairs(w, v, c) => Repairs(w, v, c)'
    BY <2>0, <1>9, <2>2 DEF Select, Repairs, Storing, Go, After, Refreshing, TypeOK, Op,
        Company, Builds, BeforeTree, BeforeUsers, BeforeJson, BeforeSelect
  <2> QED BY <2>1, <2>2, <2>3, <2>4, <2>5, <2>6, CacheQuiet DEF CacheInv
<1>10. ASSUME NEW w \in Workers, SelectFails(w) PROVE CacheAt(v, c)'
  <2>0. serving' = serving /\ ask' = ask BY <1>10 DEF SelectFails, jobVars
  <2>1. SameBut(w) BY <1>10, OwnStep
  <2>5. CASE v = Builds(w) /\ c = Company(w)
    <3>2. db'[c] = db[c] BY <1>10 DEF SelectFails, TypeOK
    <3>3. Stale(<<v, c>>)' \/ OldStore(w, v, c) => <<v, c>> \in adrift'
      BY <1>10, <2>5, <3>2 DEF SelectFails, Stale, Lose, Key, Builds
    <3>4. ~ Storing(w, v, c)'
      BY <2>0, <1>10, <2>5 DEF SelectFails, Storing, Goto, After, Refreshing, TypeOK, Builders
    <3> QED BY <2>1, <3>2, <3>3, <3>4, CacheFreed
  <2>6. CASE ~ (v = Builds(w) /\ c = Company(w))
    <3>2. db'[c] = db[c] BY <1>10, <2>6 DEF SelectFails, TypeOK
    <3>3. <<v, c>> \in adrift => <<v, c>> \in adrift'
      BY <1>10, <2>6 DEF SelectFails, Lose, Key
    <3>4. Stale(<<v, c>>)' => Stale(<<v, c>>) \/ Spoils(w, v, c)
      BY <1>10, <2>6, <3>2 DEF SelectFails, Stale
    <3>5. Spoils(w, v, c)' => Spoils(w, v, c)
      BY <2>0, <1>10, <2>6, <3>2 DEF SelectFails, Spoils, Storing, Goto, After, Refreshing,
          TypeOK, Op, Company, Builds
    <3>6. Repairs(w, v, c) => Repairs(w, v, c)'
      BY <2>0, <1>10, <2>6, <3>2 DEF SelectFails, Repairs, Storing, Goto, After, Refreshing,
          TypeOK, Op, Company, Builds, BeforeTree, BeforeUsers, BeforeJson, BeforeSelect, Key
    <3> QED BY <2>1, <3>2, <3>3, <3>4, <3>5, <3>6, CacheQuiet DEF CacheInv
  <2> QED BY <2>5, <2>6
<1>11. ASSUME NEW w \in Workers, Store(w) PROVE CacheAt(v, c)'
  <2>0. serving' = serving /\ ask' = ask BY <1>11 DEF Store, jobVars
  <2>1. SameBut(w) BY <1>11, OwnStep
  <2>5. CASE v = Builds(w) /\ c = Company(w) /\ snap[w] = db[c]
    <3>2. db'[c] = db[c] BY <1>11 DEF Store, TypeOK
    <3>3. Stale(<<v, c>>)' \/ OldStore(w, v, c) => <<v, c>> \in adrift'
      BY <1>11, <2>5, <3>2 DEF Store, Stale, Mend, Key, TypeOK, Builds
    <3>4. ~ Storing(w, v, c)'
      BY <2>0, <1>11, <2>5 DEF Store, Storing, Go, After, Refreshing, TypeOK, Builders
    <3> QED BY <2>1, <3>2, <3>3, <3>4, CacheFreed
  <2>6. CASE ~ (v = Builds(w) /\ c = Company(w) /\ snap[w] = db[c])
    <3>2. db'[c] = db[c] BY <1>11, <2>6 DEF Store, TypeOK
    <3>3. <<v, c>> \in adrift => <<v, c>> \in adrift'
      BY <1>11, <2>6 DEF Store, Mend, Key
    <3>4. Stale(<<v, c>>)' => Stale(<<v, c>>) \/ Spoils(w, v, c)
      BY <1>11, <2>6, <3>2 DEF Store, Stale, Spoils, Storing, Key, TypeOK
    <3>5. Spoils(w, v, c)' => Spoils(w, v, c)
      BY <2>0, <1>11, <2>6, <3>2 DEF Store, Spoils, Storing, Go, After, Refreshing, TypeOK, Op,
          Company, Builds
    <3>6. Repairs(w, v, c) => Repairs(w, v, c)'
      BY <2>0, <1>11, <2>6, <3>2 DEF Store, Repairs, Storing, Go, After, Refreshing, TypeOK,
          Op, Company, Builds, BeforeTree, BeforeUsers, BeforeJson, BeforeSelect, Key
    <3> QED BY <2>1, <3>2, <3>3, <3>4, <3>5, <3>6, CacheQuiet DEF CacheInv
  <2> QED BY <2>5, <2>6
<1>12. ASSUME NEW w \in Workers, StoreLost(w) PROVE CacheAt(v, c)'
  <2>0. serving' = serving /\ ask' = ask BY <1>12 DEF StoreLost, jobVars
  <2>1. SameBut(w) BY <1>12, OwnStep
  <2>5. CASE v = Builds(w) /\ c = Company(w)
    <3>2. db'[c] = db[c] BY <1>12 DEF StoreLost, TypeOK
    <3>3. Stale(<<v, c>>)' \/ OldStore(w, v, c) => <<v, c>> \in adrift'
      BY <1>12, <2>5, <3>2 DEF StoreLost, Stale, Lose, Key, Builds
    <3>4. ~ Storing(w, v, c)'
      BY <2>0, <1>12, <2>5 DEF StoreLost, Storing, Go, After, Refreshing, TypeOK, Builders
    <3> QED BY <2>1, <3>2, <3>3, <3>4, CacheFreed
  <2>6. CASE ~ (v = Builds(w) /\ c = Company(w))
    <3>2. db'[c] = db[c] BY <1>12, <2>6 DEF StoreLost, TypeOK
    <3>3. <<v, c>> \in adrift => <<v, c>> \in adrift'
      BY <1>12, <2>6 DEF StoreLost, Lose, Key
    <3>4. Stale(<<v, c>>)' => Stale(<<v, c>>) \/ Spoils(w, v, c)
      BY <1>12, <2>6, <3>2 DEF StoreLost, Stale
    <3>5. Spoils(w, v, c)' => Spoils(w, v, c)
      BY <2>0, <1>12, <2>6, <3>2 DEF StoreLost, Spoils, Storing, Go, After, Refreshing, TypeOK,
          Op, Company, Builds
    <3>6. Repairs(w, v, c) => Repairs(w, v, c)'
      BY <2>0, <1>12, <2>6, <3>2 DEF StoreLost, Repairs, Storing, Go, After, Refreshing,
          TypeOK, Op, Company, Builds, BeforeTree, BeforeUsers, BeforeJson, BeforeSelect, Key
    <3> QED BY <2>1, <3>2, <3>3, <3>4, <3>5, <3>6, CacheQuiet DEF CacheInv
  <2> QED BY <2>5, <2>6
<1>13. ASSUME NEW w \in Workers, Json(w) PROVE CacheAt(v, c)'
  <2>0. serving' = serving /\ ask' = ask BY <1>13 DEF Json, jobVars
  <2>1. SameBut(w) BY <1>13, OwnStep
  <2>2. db'[c] = db[c] BY <1>13 DEF Json, TypeOK
  <2>3. <<v, c>> \in adrift => <<v, c>> \in adrift'
    BY <1>13 DEF Json
  <2>4. Stale(<<v, c>>)' => Stale(<<v, c>>) \/ Spoils(w, v, c)
    BY <1>13, <2>2 DEF Json, Stale
  <2>5. Spoils(w, v, c)' => Spoils(w, v, c)
    BY <2>0, <1>13, <2>2 DEF Json, Spoils, Storing, Go, After, Refreshing, TypeOK, Op, Company,
        Builds
  <2>6. Repairs(w, v, c) => Repairs(w, v, c)'
    BY <2>0, <1>13, <2>2 DEF Json, Repairs, Storing, Go, After, Refreshing, TypeOK, Op,
        Company, Builds, BeforeTree, BeforeUsers, BeforeJson, BeforeSelect
  <2> QED BY <2>1, <2>2, <2>3, <2>4, <2>5, <2>6, CacheQuiet DEF CacheInv
<1>14. ASSUME NEW w \in Workers, JsonFails(w) PROVE CacheAt(v, c)'
  <2>0. serving' = serving /\ ask' = ask BY <1>14 DEF JsonFails, jobVars
  <2>1. SameBut(w) BY <1>14, OwnStep
  <2>b. Op(w) \notin Builders /\ Builds(w) = "org_" BY <1>14 DEF OpInv, OpAt, JsonFails,
      Builds, Builders
  <2>5. CASE v = "org_" /\ c = Company(w)
    <3>2. db'[c] = db[c] BY <1>14 DEF JsonFails, TypeOK
    <3>3. Stale(<<v, c>>)' \/ OldStore(w, v, c) => <<v, c>> \in adrift'
      BY <1>14, <2>5, <2>b, <3>2 DEF JsonFails, Stale, Lose, Builds
    <3>4. ~ Storing(w, v, c)'
      BY <2>0, <1>14, <2>5, <2>b DEF JsonFails, Storing, Goto, TypeOK, Builders
    <3> QED BY <2>1, <3>2, <3>3, <3>4, CacheFreed
  <2>6. CASE ~ (v = "org_" /\ c = Company(w))
    <3>2. db'[c] = db[c] BY <1>14, <2>6, <2>b DEF JsonFails, TypeOK
    <3>3. <<v, c>> \in adrift => <<v, c>> \in adrift'
      BY <1>14, <2>6, <2>b DEF JsonFails, Lose
    <3>4. Stale(<<v, c>>)' => Stale(<<v, c>>) \/ Spoils(w, v, c)
      BY <1>14, <2>6, <2>b, <3>2 DEF JsonFails, Stale
    <3>5. Spoils(w, v, c)' => Spoils(w, v, c)
      BY <2>0, <1>14, <2>6, <2>b, <3>2 DEF JsonFails, Spoils, Storing, Goto, TypeOK, Op,
          Company, Builds
    <3>6. Repairs(w, v, c) => Repairs(w, v, c)'
      BY <2>0, <1>14, <2>6, <2>b, <3>2 DEF JsonFails, Repairs, Storing, Goto, TypeOK, Op,
          Company, Builds, BeforeTree, BeforeUsers, BeforeJson, BeforeSelect
    <3> QED BY <2>1, <3>2, <3>3, <3>4, <3>5, <3>6, CacheQuiet DEF CacheInv
  <2> QED BY <2>5, <2>6
<1>15. ASSUME NEW w \in Workers, BeginHeader(w) PROVE CacheAt(v, c)'
  <2>0. serving' = serving /\ ask' = ask BY <1>15 DEF BeginHeader, jobVars
  <2>1. SameBut(w) BY <1>15, OwnStep
  <2>2. db'[c] = db[c] BY <1>15 DEF BeginHeader, TypeOK
  <2>3. <<v, c>> \in adrift => <<v, c>> \in adrift'
    BY <1>15 DEF BeginHeader
  <2>4. Stale(<<v, c>>)' => Stale(<<v, c>>) \/ Spoils(w, v, c)
    BY <1>15, <2>2 DEF BeginHeader, Stale
  <2>5. Spoils(w, v, c)' => Spoils(w, v, c)
    BY <2>0, <1>15, <2>2 DEF BeginHeader, Spoils, Storing, Go, After, Refreshing, TypeOK, Op,
        Company, Builds
  <2>6. Repairs(w, v, c) => Repairs(w, v, c)'
    BY <2>0, <1>15, <2>2 DEF BeginHeader, Repairs, Storing, Go, After, Refreshing, TypeOK, Op,
        Company, Builds, BeforeTree, BeforeUsers, BeforeJson, BeforeSelect
  <2> QED BY <2>1, <2>2, <2>3, <2>4, <2>5, <2>6, CacheQuiet DEF CacheInv
<1>16. ASSUME NEW w \in Workers, EndHeader(w) PROVE CacheAt(v, c)'
  <2>0. serving' = serving /\ ask' = ask BY <1>16 DEF EndHeader, jobVars
  <2>1. SameBut(w) BY <1>16, OwnStep
  <2>2. db'[c] = db[c] BY <1>16 DEF EndHeader, TypeOK
  <2>3. <<v, c>> \in adrift => <<v, c>> \in adrift'
    BY <1>16 DEF EndHeader
  <2>4. Stale(<<v, c>>)' => Stale(<<v, c>>) \/ Spoils(w, v, c)
    BY <1>16, <2>2 DEF EndHeader, Stale
  <2>5. Spoils(w, v, c)' => Spoils(w, v, c)
    BY <2>0, <1>16, <2>2 DEF EndHeader, Spoils, Storing, Go, After, Refreshing, TypeOK, Op,
        Company, Builds
  <2>6. Repairs(w, v, c) => Repairs(w, v, c)'
    BY <2>0, <1>16, <2>2 DEF EndHeader, Repairs, Storing, Go, After, Refreshing, TypeOK, Op,
        Company, Builds, BeforeTree, BeforeUsers, BeforeJson, BeforeSelect
  <2> QED BY <2>1, <2>2, <2>3, <2>4, <2>5, <2>6, CacheQuiet DEF CacheInv
<1>17. ASSUME NEW w \in Workers, Copy(w) PROVE CacheAt(v, c)'
  <2>0. serving' = serving /\ ask' = ask BY <1>17 DEF Copy, jobVars
  <2>1. SameBut(w) BY <1>17, OwnStep
  <2>2. db'[c] = db[c] BY <1>17 DEF Copy, TypeOK
  <2>3. <<v, c>> \in adrift => <<v, c>> \in adrift'
    BY <1>17 DEF Copy
  <2>4. Stale(<<v, c>>)' => Stale(<<v, c>>) \/ Spoils(w, v, c)
    BY <1>17, <2>2 DEF Copy, Stale
  <2>5. Spoils(w, v, c)' => Spoils(w, v, c)
    BY <2>0, <1>17, <2>2 DEF Copy, Spoils, Storing, Go, After, Refreshing, TypeOK, Op, Company,
        Builds
  <2>6. Repairs(w, v, c) => Repairs(w, v, c)'
    BY <2>0, <1>17, <2>2 DEF Copy, Repairs, Storing, Go, After, Refreshing, TypeOK, Op,
        Company, Builds, BeforeTree, BeforeUsers, BeforeJson, BeforeSelect
  <2> QED BY <2>1, <2>2, <2>3, <2>4, <2>5, <2>6, CacheQuiet DEF CacheInv
<1>18. ASSUME NEW w \in Workers, Post(w) PROVE CacheAt(v, c)'
  <2>0. serving' = serving /\ ask' = ask BY <1>18 DEF Post, jobVars
  <2>1. SameBut(w) BY <1>18, OwnStep
  <2>2. db'[c] = db[c] BY <1>18 DEF Post, TypeOK
  <2>3. <<v, c>> \in adrift => <<v, c>> \in adrift'
    BY <1>18 DEF Post
  <2>4. Stale(<<v, c>>)' => Stale(<<v, c>>) \/ Spoils(w, v, c)
    BY <1>18, <2>2 DEF Post, Stale
  <2>5. Spoils(w, v, c)' => Spoils(w, v, c)
    BY <2>0, <1>18, <2>2 DEF Post, Spoils, Storing, Go, After, Refreshing, TypeOK, Op, Company,
        Builds
  <2>6. Repairs(w, v, c) => Repairs(w, v, c)'
    BY <2>0, <1>18, <2>2 DEF Post, Repairs, Storing, Go, After, Refreshing, TypeOK, Op,
        Company, Builds, BeforeTree, BeforeUsers, BeforeJson, BeforeSelect
  <2> QED BY <2>1, <2>2, <2>3, <2>4, <2>5, <2>6, CacheQuiet DEF CacheInv
<1>19. ASSUME NEW w \in Workers, PostTorn(w) PROVE CacheAt(v, c)'
  <2>0. serving' = serving /\ ask' = ask BY <1>19 DEF PostTorn, jobVars
  <2>1. SameBut(w) BY <1>19, OwnStep
  <2>2. db'[c] = db[c] BY <1>19 DEF PostTorn, TypeOK
  <2>3. <<v, c>> \in adrift => <<v, c>> \in adrift'
    BY <1>19 DEF PostTorn
  <2>4. Stale(<<v, c>>)' => Stale(<<v, c>>) \/ Spoils(w, v, c)
    BY <1>19, <2>2 DEF PostTorn, Stale
  <2>5. Spoils(w, v, c)' => Spoils(w, v, c)
    BY <2>0, <1>19, <2>2 DEF PostTorn, Spoils, Storing, Go, After, Refreshing, TypeOK, Op,
        Company, Builds
  <2>6. Repairs(w, v, c) => Repairs(w, v, c)'
    BY <2>0, <1>19, <2>2 DEF PostTorn, Repairs, Storing, Go, After, Refreshing, TypeOK, Op,
        Company, Builds, BeforeTree, BeforeUsers, BeforeJson, BeforeSelect
  <2> QED BY <2>1, <2>2, <2>3, <2>4, <2>5, <2>6, CacheQuiet DEF CacheInv
<1>20. ASSUME NEW w \in Workers, PostFails(w) PROVE CacheAt(v, c)'
  <2>0. serving' = serving /\ ask' = ask BY <1>20 DEF PostFails, jobVars
  <2>1. SameBut(w) BY <1>20, OwnStep
  <2>2. db'[c] = db[c] BY <1>20 DEF PostFails, TypeOK
  <2>3. <<v, c>> \in adrift => <<v, c>> \in adrift'
    BY <1>20 DEF PostFails
  <2>4. Stale(<<v, c>>)' => Stale(<<v, c>>) \/ Spoils(w, v, c)
    BY <1>20, <2>2 DEF PostFails, Stale
  <2>5. Spoils(w, v, c)' => Spoils(w, v, c)
    BY <2>0, <1>20, <2>2 DEF PostFails, Spoils, Storing, Go, After, Refreshing, TypeOK, Op,
        Company, Builds
  <2>6. Repairs(w, v, c) => Repairs(w, v, c)'
    BY <2>0, <1>20, <2>2 DEF PostFails, Repairs, Storing, Go, After, Refreshing, TypeOK, Op,
        Company, Builds, BeforeTree, BeforeUsers, BeforeJson, BeforeSelect
  <2> QED BY <2>1, <2>2, <2>3, <2>4, <2>5, <2>6, CacheQuiet DEF CacheInv
<1>21. ASSUME NEW w \in Workers, Notify(w) PROVE CacheAt(v, c)'
  <2>0. serving' = serving /\ ask' = ask BY <1>21 DEF Notify, jobVars
  <2>1. SameBut(w) BY <1>21, OwnStep
  <2>2. db'[c] = db[c] BY <1>21 DEF Notify, TypeOK
  <2>3. <<v, c>> \in adrift => <<v, c>> \in adrift'
    BY <1>21 DEF Notify
  <2>4. Stale(<<v, c>>)' => Stale(<<v, c>>) \/ Spoils(w, v, c)
    BY <1>21, <2>2 DEF Notify, Stale
  <2>5. Spoils(w, v, c)' => Spoils(w, v, c)
    BY <2>0, <1>21, <2>2 DEF Notify, Spoils, Storing, Go, After, Refreshing, TypeOK, Op,
        Company, Builds
  <2>6. Repairs(w, v, c) => Repairs(w, v, c)'
    BY <2>0, <1>21, <2>2 DEF Notify, Repairs, Storing, Go, After, Refreshing, TypeOK, Op,
        Company, Builds, BeforeTree, BeforeUsers, BeforeJson, BeforeSelect
  <2> QED BY <2>1, <2>2, <2>3, <2>4, <2>5, <2>6, CacheQuiet DEF CacheInv
<1>22. ASSUME Crash PROVE CacheAt(v, c)'
  <2>1. Stale(<<v, c>>)' => <<v, c>> \in adrift' BY <1>22 DEF Crash, Stale
  <2>2. \A o \in Workers : ~ Spoils(o, v, c)' BY <1>22 DEF Crash, Spoils, Storing
  <2> QED BY <2>1, <2>2 DEF CacheAt
<1>23. ASSUME UNCHANGED vars PROVE CacheAt(v, c)'
  <2>1. (\E o \in Workers : Spoils(o, v, c))' => \E o \in Workers : Spoils(o, v, c)
    BY <1>23 DEF vars, jobVars, Spoils, Storing, Company, Builds, Op
  <2>2. (\E o \in Workers : Repairs(o, v, c)) => (\E o \in Workers : Repairs(o, v, c))'
    <3>1. ASSUME NEW o \in Workers, Repairs(o, v, c) PROVE Repairs(o, v, c)'
      BY <1>23, <3>1 DEF vars, jobVars, Repairs, Storing, Company, Builds, Op
    <3> QED BY <3>1
  <2> QED BY <1>23, <2>1, <2>2 DEF vars, CacheInv, CacheAt, Stale
<1> QED BY [Next]_vars, <1>1, <1>2, <1>3, <1>4, <1>5, <1>6, <1>7, <1>8, <1>9, <1>10, <1>11,
    <1>12, <1>13, <1>14, <1>15, <1>16, <1>17, <1>18, <1>19, <1>20, <1>21, <1>22, <1>23, <1>24
  DEF Next, Done

\* What is out of date in the web server keeps somebody who posts it again.
LEMMA WebStep ==
  ASSUME TypeOK, OpInv, WebInv, [Next]_vars
  PROVE  WebInv'
<1> SUFFICES ASSUME NEW c \in Companies PROVE WebAt(c)'
  BY DEF WebInv
<1>1. ASSUME NEW w \in Workers, NEW r \in Requests, Receive(w, r) PROVE WebAt(c)'
  <2>1. SameBut(w) BY <1>1, OwnStep
  <2>2. doc'[c] = doc[c] BY <1>1 DEF Receive, TypeOK
  <2>3. c \in webAdrift => c \in webAdrift'
    BY <1>1 DEF Receive
  <2>4. web'[c] # doc'[c] => web[c] # doc[c] \/ Misleads(w, c)
    BY <1>1, <2>2 DEF Receive
  <2>5. Misleads(w, c)' => Misleads(w, c)
    BY <1>1, <2>2, OrgAssumption DEF Receive, Misleads, Posting, Goto, First, TypeOK, Company,
        bufVars, Builders
  <2>6. Renews(w, c) => Renews(w, c)'
    BY <1>1, <2>2, OrgAssumption DEF Receive, Renews, Reselects, Posting, Goto, First, TypeOK, Company,
        BeforeTree, BeforeUsers, BeforeJson, bufVars
  <2> QED BY <2>1, <2>2, <2>3, <2>4, <2>5, <2>6, WebQuiet DEF WebInv
<1>2. ASSUME NEW w \in Workers, Return(w) PROVE WebAt(c)'
  <2>1. SameBut(w) BY <1>2, OwnStep
  <2>2. doc'[c] = doc[c] BY <1>2 DEF Return, TypeOK
  <2>3. c \in webAdrift => c \in webAdrift'
    BY <1>2 DEF Return
  <2>4. web'[c] # doc'[c] => web[c] # doc[c] \/ Misleads(w, c)
    BY <1>2, <2>2 DEF Return
  <2>5. Misleads(w, c)' => Misleads(w, c)
    BY <1>2, <2>2 DEF Return, Misleads, Posting, TypeOK, Company, bufVars
  <2>6. Renews(w, c) => Renews(w, c)'
    BY <1>2, <2>2 DEF Return, Renews, Reselects, Posting, TypeOK, Company, BeforeTree, BeforeUsers,
        BeforeJson, bufVars
  <2> QED BY <2>1, <2>2, <2>3, <2>4, <2>5, <2>6, WebQuiet DEF WebInv
<1>3. ASSUME NEW w \in Workers, Change(w) PROVE WebAt(c)'
  <2>0. serving' = serving /\ ask' = ask BY <1>3 DEF Change, jobVars
  <2>1. SameBut(w) BY <1>3, OwnStep
  <2>2. CASE c = Company(w)
    <3>2. pc'[w] \in {"result", "del org_"} BY <1>3 DEF Change, Go, After, Changing, TypeOK
    <3>3. Renews(w, c)'
      BY <2>0, <2>2, <3>2 DEF Renews, Reselects, Company, BeforeTree, BeforeUsers, BeforeJson
    <3> QED BY <3>3 DEF WebAt
  <2>3. CASE c # Company(w)
    <3>2. doc'[c] = doc[c] BY <1>3, <2>3 DEF Change, TypeOK
    <3>3. c \in webAdrift => c \in webAdrift'
      BY <1>3, <2>3 DEF Change
    <3>4. web'[c] # doc'[c] => web[c] # doc[c] \/ Misleads(w, c)
      BY <1>3, <2>3, <3>2 DEF Change
    <3>5. Misleads(w, c)' => Misleads(w, c)
      BY <2>0, <1>3, <2>3, <3>2 DEF Change, Misleads, Posting, Go, After, Changing, TypeOK,
          Company, bufVars
    <3>6. Renews(w, c) => Renews(w, c)'
      BY <2>0, <1>3, <2>3, <3>2 DEF Change, Renews, Reselects, Posting, Go, After, Changing, TypeOK,
          Company, BeforeTree, BeforeUsers, BeforeJson, bufVars
    <3> QED BY <2>1, <3>2, <3>3, <3>4, <3>5, <3>6, WebQuiet DEF WebInv
  <2> QED BY <2>2, <2>3
<1>4. ASSUME NEW w \in Workers, ChangeFails(w) PROVE WebAt(c)'
  <2>0. serving' = serving /\ ask' = ask BY <1>4 DEF ChangeFails, jobVars
  <2>1. SameBut(w) BY <1>4, OwnStep
  <2>2. doc'[c] = doc[c] BY <1>4 DEF ChangeFails, TypeOK
  <2>3. c \in webAdrift => c \in webAdrift'
    BY <1>4 DEF ChangeFails
  <2>4. web'[c] # doc'[c] => web[c] # doc[c] \/ Misleads(w, c)
    BY <1>4, <2>2 DEF ChangeFails
  <2>5. Misleads(w, c)' => Misleads(w, c)
    BY <2>0, <1>4, <2>2 DEF ChangeFails, Misleads, Posting, Go, Goto, After, Changing, TypeOK,
        Company, bufVars
  <2>6. Renews(w, c) => Renews(w, c)'
    BY <2>0, <1>4, <2>2 DEF ChangeFails, Renews, Reselects, Posting, Go, Goto, After, Changing, TypeOK,
        Company, BeforeTree, BeforeUsers, BeforeJson, bufVars
  <2> QED BY <2>1, <2>2, <2>3, <2>4, <2>5, <2>6, WebQuiet DEF WebInv
<1>5. ASSUME NEW w \in Workers, Query(w) PROVE WebAt(c)'
  <2>0. serving' = serving /\ ask' = ask BY <1>5 DEF Query, jobVars
  <2>1. SameBut(w) BY <1>5, OwnStep
  <2>2. doc'[c] = doc[c] BY <1>5 DEF Query, TypeOK
  <2>3. c \in webAdrift => c \in webAdrift'
    BY <1>5 DEF Query
  <2>4. web'[c] # doc'[c] => web[c] # doc[c] \/ Misleads(w, c)
    BY <1>5, <2>2 DEF Query
  <2>5. Misleads(w, c)' => Misleads(w, c)
    BY <2>0, <1>5, <2>2 DEF Query, Misleads, Posting, Go, After, Changing, TypeOK, Company,
        bufVars
  <2>6. Renews(w, c) => Renews(w, c)'
    BY <2>0, <1>5, <2>2 DEF Query, Renews, Reselects, Posting, Go, After, Changing, TypeOK, Company,
        BeforeTree, BeforeUsers, BeforeJson, bufVars
  <2> QED BY <2>1, <2>2, <2>3, <2>4, <2>5, <2>6, WebQuiet DEF WebInv
<1>24. ASSUME NEW w \in Workers, CardChange(w) PROVE WebAt(c)'
  <2>0. serving' = serving /\ ask' = ask BY <1>24 DEF CardChange, jobVars
  <2>1. SameBut(w) BY <1>24, OwnStep
  <2>2. CASE c = Company(w) /\ \E o \in Workers : Reselects(o, c)
    <3>1. PICK o \in Workers : Reselects(o, c) BY <2>2
    <3>2. o # w
      BY <1>24, <3>1 DEF CardChange, Reselects, BeforeJson, BeforeUsers, BeforeTree
    <3>3. pc'[o] = pc[o] /\ ask'[serving'[o]] = ask[serving[o]]
      BY <2>1, <3>2 DEF SameBut
    <3>4. Renews(o, c)' BY <3>1, <3>3 DEF Renews, Reselects, Company
    <3> QED BY <3>4 DEF WebAt
  <2>3. CASE c = Company(w) /\ ~ \E o \in Workers : Reselects(o, c)
    BY <1>24, <2>3 DEF CardChange, WebAt
  <2>4. CASE c # Company(w)
    <3>2. doc'[c] = doc[c] BY <1>24, <2>4 DEF CardChange, TypeOK
    <3>3. c \in webAdrift => c \in webAdrift'
      BY <1>24 DEF CardChange
    <3>4. web'[c] # doc'[c] => web[c] # doc[c] \/ Misleads(w, c)
      BY <1>24, <3>2 DEF CardChange
    <3>5. Misleads(w, c)' => Misleads(w, c)
      BY <2>0, <2>4 DEF Misleads, Posting, Company
    <3>6. Renews(w, c) => Renews(w, c)'
      BY <2>0, <2>4 DEF Renews, Reselects, Posting, Company
    <3> QED BY <2>1, <3>2, <3>3, <3>4, <3>5, <3>6, WebQuiet DEF WebInv
  <2> QED BY <2>2, <2>3, <2>4
<1>6. ASSUME NEW w \in Workers, QueryFails(w) PROVE WebAt(c)'
  <2>0. serving' = serving /\ ask' = ask BY <1>6 DEF QueryFails, jobVars
  <2>1. SameBut(w) BY <1>6, OwnStep
  <2>5. CASE c = Company(w)
    <3>2. doc'[c] = doc[c] BY <1>6 DEF QueryFails, TypeOK
    <3>3. web'[c] # doc'[c] \/ OldPost(w, c) => c \in webAdrift'
      BY <1>6, <2>5, <3>2 DEF QueryFails, LoseWeb, Break
    <3>4. ~ Posting(w, c)'
      BY <2>0, <1>6, <2>5 DEF QueryFails, Posting, Goto, TypeOK, Break
    <3> QED BY <2>1, <3>2, <3>3, <3>4, WebFreed
  <2>6. CASE ~ (c = Company(w))
    <3>2. doc'[c] = doc[c] BY <1>6, <2>6 DEF QueryFails, TypeOK
    <3>3. c \in webAdrift => c \in webAdrift'
      BY <1>6, <2>6 DEF QueryFails, LoseWeb, Break
    <3>4. web'[c] # doc'[c] => web[c] # doc[c] \/ Misleads(w, c)
      BY <1>6, <2>6, <3>2 DEF QueryFails
    <3>5. Misleads(w, c)' => Misleads(w, c)
      BY <2>0, <1>6, <2>6, <3>2 DEF QueryFails, Misleads, Posting, Goto, TypeOK, Company,
          bufVars, Break
    <3>6. Renews(w, c) => Renews(w, c)'
      BY <2>0, <1>6, <2>6, <3>2 DEF QueryFails, Renews, Reselects, Posting, Goto, TypeOK, Company,
          BeforeTree, BeforeUsers, BeforeJson, bufVars, Break
    <3> QED BY <2>1, <3>2, <3>3, <3>4, <3>5, <3>6, WebQuiet DEF WebInv
  <2> QED BY <2>5, <2>6
<1>7. ASSUME NEW w \in Workers, NEW u \in Values, Delete(w, u) PROVE WebAt(c)'
  <2>0. serving' = serving /\ ask' = ask BY <1>7 DEF Delete, jobVars
  <2>1. SameBut(w) BY <1>7, OwnStep
  <2>2. doc'[c] = doc[c] BY <1>7 DEF Delete, TypeOK
  <2>3. c \in webAdrift => c \in webAdrift'
    BY <1>7 DEF Delete
  <2>4. web'[c] # doc'[c] => web[c] # doc[c] \/ Misleads(w, c)
    BY <1>7, <2>2 DEF Delete
  <2>5. Misleads(w, c)' => Misleads(w, c)
    BY <2>0, <1>7, <2>2 DEF Delete, Deleting, Misleads, Posting, Go, After, Refreshing, TypeOK,
        Company, bufVars
  <2>6. Renews(w, c) => Renews(w, c)'
    BY <2>0, <1>7, <2>2 DEF Delete, Deleting, Renews, Reselects, Posting, Go, After, Refreshing, TypeOK,
        Company, BeforeTree, BeforeUsers, BeforeJson, bufVars
  <2> QED BY <2>1, <2>2, <2>3, <2>4, <2>5, <2>6, WebQuiet DEF WebInv
<1>8. ASSUME NEW w \in Workers, NEW u \in Values, DeleteLost(w, u) PROVE WebAt(c)'
  <2>0. serving' = serving /\ ask' = ask BY <1>8 DEF DeleteLost, jobVars
  <2>1. SameBut(w) BY <1>8, OwnStep
  <2>2. doc'[c] = doc[c] BY <1>8 DEF DeleteLost, TypeOK
  <2>3. c \in webAdrift => c \in webAdrift'
    BY <1>8 DEF DeleteLost
  <2>4. web'[c] # doc'[c] => web[c] # doc[c] \/ Misleads(w, c)
    BY <1>8, <2>2 DEF DeleteLost
  <2>5. Misleads(w, c)' => Misleads(w, c)
    BY <2>0, <1>8, <2>2 DEF DeleteLost, Deleting, Misleads, Posting, Go, After, Refreshing,
        TypeOK, Company, bufVars
  <2>6. Renews(w, c) => Renews(w, c)'
    BY <2>0, <1>8, <2>2 DEF DeleteLost, Deleting, Renews, Reselects, Posting, Go, After, Refreshing,
        TypeOK, Company, BeforeTree, BeforeUsers, BeforeJson, bufVars
  <2> QED BY <2>1, <2>2, <2>3, <2>4, <2>5, <2>6, WebQuiet DEF WebInv
<1>9. ASSUME NEW w \in Workers, Select(w) PROVE WebAt(c)'
  <2>0. serving' = serving /\ ask' = ask BY <1>9 DEF Select, jobVars
  <2>1. SameBut(w) BY <1>9, OwnStep
  <2>2. doc'[c] = doc[c] BY <1>9 DEF Select, TypeOK
  <2>3. c \in webAdrift => c \in webAdrift'
    BY <1>9 DEF Select
  <2>4. web'[c] # doc'[c] => web[c] # doc[c] \/ Misleads(w, c)
    BY <1>9, <2>2 DEF Select
  <2>5. Misleads(w, c)' => Misleads(w, c)
    BY <2>0, <1>9, <2>2 DEF Select, Misleads, Posting, Go, After, Refreshing, TypeOK, Company,
        bufVars
  <2>6. Renews(w, c) => Renews(w, c)'
    BY <2>0, <1>9, <2>2 DEF Select, Renews, Reselects, Posting, Go, After, Refreshing, TypeOK, Company,
        BeforeTree, BeforeUsers, BeforeJson, bufVars
  <2> QED BY <2>1, <2>2, <2>3, <2>4, <2>5, <2>6, WebQuiet DEF WebInv
<1>10. ASSUME NEW w \in Workers, SelectFails(w) PROVE WebAt(c)'
  <2>0. serving' = serving /\ ask' = ask BY <1>10 DEF SelectFails, jobVars
  <2>1. SameBut(w) BY <1>10, OwnStep
  <2>2. doc'[c] = doc[c] BY <1>10 DEF SelectFails, TypeOK
  <2>3. c \in webAdrift => c \in webAdrift'
    BY <1>10 DEF SelectFails
  <2>4. web'[c] # doc'[c] => web[c] # doc[c] \/ Misleads(w, c)
    BY <1>10, <2>2 DEF SelectFails
  <2>5. Misleads(w, c)' => Misleads(w, c)
    BY <2>0, <1>10, <2>2 DEF SelectFails, Misleads, Posting, Goto, After, Refreshing, TypeOK,
        Company, bufVars
  <2>6. Renews(w, c) => Renews(w, c)'
    BY <2>0, <1>10, <2>2 DEF SelectFails, Renews, Reselects, Posting, Goto, After, Refreshing, TypeOK,
        Company, BeforeTree, BeforeUsers, BeforeJson, bufVars
  <2> QED BY <2>1, <2>2, <2>3, <2>4, <2>5, <2>6, WebQuiet DEF WebInv
<1>11. ASSUME NEW w \in Workers, Store(w) PROVE WebAt(c)'
  <2>0. serving' = serving /\ ask' = ask BY <1>11 DEF Store, jobVars
  <2>1. SameBut(w) BY <1>11, OwnStep
  <2>2. doc'[c] = doc[c] BY <1>11 DEF Store, TypeOK
  <2>3. c \in webAdrift => c \in webAdrift'
    BY <1>11 DEF Store
  <2>4. web'[c] # doc'[c] => web[c] # doc[c] \/ Misleads(w, c)
    BY <1>11, <2>2 DEF Store
  <2>5. Misleads(w, c)' => Misleads(w, c)
    BY <2>0, <1>11, <2>2 DEF Store, Misleads, Posting, Go, After, Refreshing, TypeOK, Company,
        bufVars
  <2>6. Renews(w, c) => Renews(w, c)'
    BY <2>0, <1>11, <2>2 DEF Store, Renews, Reselects, Posting, Go, After, Refreshing, TypeOK, Company,
        BeforeTree, BeforeUsers, BeforeJson, bufVars
  <2> QED BY <2>1, <2>2, <2>3, <2>4, <2>5, <2>6, WebQuiet DEF WebInv
<1>12. ASSUME NEW w \in Workers, StoreLost(w) PROVE WebAt(c)'
  <2>0. serving' = serving /\ ask' = ask BY <1>12 DEF StoreLost, jobVars
  <2>1. SameBut(w) BY <1>12, OwnStep
  <2>2. doc'[c] = doc[c] BY <1>12 DEF StoreLost, TypeOK
  <2>3. c \in webAdrift => c \in webAdrift'
    BY <1>12 DEF StoreLost
  <2>4. web'[c] # doc'[c] => web[c] # doc[c] \/ Misleads(w, c)
    BY <1>12, <2>2 DEF StoreLost
  <2>5. Misleads(w, c)' => Misleads(w, c)
    BY <2>0, <1>12, <2>2 DEF StoreLost, Misleads, Posting, Go, After, Refreshing, TypeOK,
        Company, bufVars
  <2>6. Renews(w, c) => Renews(w, c)'
    BY <2>0, <1>12, <2>2 DEF StoreLost, Renews, Reselects, Posting, Go, After, Refreshing, TypeOK,
        Company, BeforeTree, BeforeUsers, BeforeJson, bufVars
  <2> QED BY <2>1, <2>2, <2>3, <2>4, <2>5, <2>6, WebQuiet DEF WebInv
<1>13. ASSUME NEW w \in Workers, Json(w) PROVE WebAt(c)'
  <2>0. serving' = serving /\ ask' = ask BY <1>13 DEF Json, jobVars
  <2>1. SameBut(w) BY <1>13, OwnStep
  <2>2. doc'[c] = doc[c] BY <1>13 DEF Json, TypeOK
  <2>3. c \in webAdrift => c \in webAdrift'
    BY <1>13 DEF Json
  <2>4. web'[c] # doc'[c] => web[c] # doc[c] \/ Misleads(w, c)
    BY <1>13, <2>2 DEF Json
  <2>5. Misleads(w, c)' => Misleads(w, c)
    BY <2>0, <1>13, <2>2 DEF Json, Misleads, Posting, Go, After, Refreshing, TypeOK, Company,
        bufVars
  <2>6. Renews(w, c) => Renews(w, c)'
    BY <2>0, <1>13, <2>2 DEF Json, Renews, Reselects, Posting, Go, After, Refreshing, TypeOK, Company,
        BeforeTree, BeforeUsers, BeforeJson, bufVars
  <2> QED BY <2>1, <2>2, <2>3, <2>4, <2>5, <2>6, WebQuiet DEF WebInv
<1>14. ASSUME NEW w \in Workers, JsonFails(w) PROVE WebAt(c)'
  <2>0. serving' = serving /\ ask' = ask BY <1>14 DEF JsonFails, jobVars
  <2>1. SameBut(w) BY <1>14, OwnStep
  <2>5. CASE c = Company(w)
    <3>2. doc'[c] = doc[c] BY <1>14 DEF JsonFails, TypeOK
    <3>3. web'[c] # doc'[c] \/ OldPost(w, c) => c \in webAdrift'
      BY <1>14, <2>5, <3>2 DEF JsonFails, LoseWeb
    <3>4. ~ Posting(w, c)'
      BY <2>0, <1>14, <2>5 DEF JsonFails, Posting, Goto, TypeOK
    <3> QED BY <2>1, <3>2, <3>3, <3>4, WebFreed
  <2>6. CASE ~ (c = Company(w))
    <3>2. doc'[c] = doc[c] BY <1>14, <2>6 DEF JsonFails, TypeOK
    <3>3. c \in webAdrift => c \in webAdrift'
      BY <1>14, <2>6 DEF JsonFails, LoseWeb
    <3>4. web'[c] # doc'[c] => web[c] # doc[c] \/ Misleads(w, c)
      BY <1>14, <2>6, <3>2 DEF JsonFails
    <3>5. Misleads(w, c)' => Misleads(w, c)
      BY <2>0, <1>14, <2>6, <3>2 DEF JsonFails, Misleads, Posting, Goto, TypeOK, Company,
          bufVars
    <3>6. Renews(w, c) => Renews(w, c)'
      BY <2>0, <1>14, <2>6, <3>2 DEF JsonFails, Renews, Reselects, Posting, Goto, TypeOK, Company,
          BeforeTree, BeforeUsers, BeforeJson, bufVars
    <3> QED BY <2>1, <3>2, <3>3, <3>4, <3>5, <3>6, WebQuiet DEF WebInv
  <2> QED BY <2>5, <2>6
<1>15. ASSUME NEW w \in Workers, BeginHeader(w) PROVE WebAt(c)'
  <2>0. serving' = serving /\ ask' = ask BY <1>15 DEF BeginHeader, jobVars
  <2>1. SameBut(w) BY <1>15, OwnStep
  <2>2. doc'[c] = doc[c] BY <1>15 DEF BeginHeader, TypeOK
  <2>3. c \in webAdrift => c \in webAdrift'
    BY <1>15 DEF BeginHeader
  <2>4. web'[c] # doc'[c] => web[c] # doc[c] \/ Misleads(w, c)
    BY <1>15, <2>2 DEF BeginHeader
  <2>5. Misleads(w, c)' => Misleads(w, c)
    BY <2>0, <1>15, <2>2 DEF BeginHeader, Misleads, Posting, Go, After, Refreshing, TypeOK,
        Company, bufVars
  <2>6. Renews(w, c) => Renews(w, c)'
    BY <2>0, <1>15, <2>2 DEF BeginHeader, Renews, Reselects, Posting, Go, After, Refreshing, TypeOK,
        Company, BeforeTree, BeforeUsers, BeforeJson, bufVars
  <2> QED BY <2>1, <2>2, <2>3, <2>4, <2>5, <2>6, WebQuiet DEF WebInv
<1>16. ASSUME NEW w \in Workers, EndHeader(w) PROVE WebAt(c)'
  <2>0. serving' = serving /\ ask' = ask BY <1>16 DEF EndHeader, jobVars
  <2>1. SameBut(w) BY <1>16, OwnStep
  <2>2. doc'[c] = doc[c] BY <1>16 DEF EndHeader, TypeOK
  <2>3. c \in webAdrift => c \in webAdrift'
    BY <1>16 DEF EndHeader
  <2>4. web'[c] # doc'[c] => web[c] # doc[c] \/ Misleads(w, c)
    BY <1>16, <2>2 DEF EndHeader
  <2>5. Misleads(w, c)' => Misleads(w, c)
    BY <2>0, <1>16, <2>2 DEF EndHeader, Misleads, Posting, Go, After, Refreshing, TypeOK,
        Company, bufVars
  <2>6. Renews(w, c) => Renews(w, c)'
    BY <2>0, <1>16, <2>2 DEF EndHeader, Renews, Reselects, Posting, Go, After, Refreshing, TypeOK,
        Company, BeforeTree, BeforeUsers, BeforeJson, bufVars
  <2> QED BY <2>1, <2>2, <2>3, <2>4, <2>5, <2>6, WebQuiet DEF WebInv
<1>17. ASSUME NEW w \in Workers, Copy(w) PROVE WebAt(c)'
  <2>0. serving' = serving /\ ask' = ask BY <1>17 DEF Copy, jobVars
  <2>1. SameBut(w) BY <1>17, OwnStep
  <2>2. doc'[c] = doc[c] BY <1>17 DEF Copy, TypeOK
  <2>3. c \in webAdrift => c \in webAdrift'
    BY <1>17 DEF Copy
  <2>4. web'[c] # doc'[c] => web[c] # doc[c] \/ Misleads(w, c)
    BY <1>17, <2>2 DEF Copy
  <2>5. Misleads(w, c)' => Misleads(w, c)
    BY <2>0, <1>17, <2>2 DEF Copy, Misleads, Posting, Go, After, Refreshing, TypeOK, Company,
        bufVars
  <2>6. Renews(w, c) => Renews(w, c)'
    BY <2>0, <1>17, <2>2 DEF Copy, Renews, Reselects, Posting, Go, After, Refreshing, TypeOK, Company,
        BeforeTree, BeforeUsers, BeforeJson, bufVars
  <2> QED BY <2>1, <2>2, <2>3, <2>4, <2>5, <2>6, WebQuiet DEF WebInv
<1>18. ASSUME NEW w \in Workers, Post(w) PROVE WebAt(c)'
  <2>0. serving' = serving /\ ask' = ask BY <1>18 DEF Post, jobVars
  <2>1. SameBut(w) BY <1>18, OwnStep
  <2>5. CASE c = Company(w) /\ snap[w] = doc[c]
    <3>2. doc'[c] = doc[c] BY <1>18 DEF Post, TypeOK
    <3>3. web'[c] # doc'[c] \/ OldPost(w, c) => c \in webAdrift'
      BY <1>18, <2>5, <3>2 DEF Post, TypeOK
    <3>4. ~ Posting(w, c)'
      BY <2>0, <1>18, <2>5 DEF Post, Posting, Go, After, Refreshing, TypeOK
    <3> QED BY <2>1, <3>2, <3>3, <3>4, WebFreed
  <2>6. CASE ~ (c = Company(w) /\ snap[w] = doc[c])
    <3>2. doc'[c] = doc[c] BY <1>18, <2>6 DEF Post, TypeOK
    <3>3. c \in webAdrift => c \in webAdrift'
      BY <1>18, <2>6 DEF Post
    <3>4. web'[c] # doc'[c] => web[c] # doc[c] \/ Misleads(w, c)
      BY <1>18, <2>6, <3>2 DEF Post, Misleads, Posting, TypeOK
    <3>5. Misleads(w, c)' => Misleads(w, c)
      BY <2>0, <1>18, <2>6, <3>2 DEF Post, Misleads, Posting, Go, After, Refreshing, TypeOK,
          Company, bufVars
    <3>6. Renews(w, c) => Renews(w, c)'
      BY <2>0, <1>18, <2>6, <3>2 DEF Post, Renews, Reselects, Posting, Go, After, Refreshing, TypeOK,
          Company, BeforeTree, BeforeUsers, BeforeJson, bufVars
    <3> QED BY <2>1, <3>2, <3>3, <3>4, <3>5, <3>6, WebQuiet DEF WebInv
  <2> QED BY <2>5, <2>6
<1>19. ASSUME NEW w \in Workers, PostTorn(w) PROVE WebAt(c)'
  <2>0. serving' = serving /\ ask' = ask BY <1>19 DEF PostTorn, jobVars
  <2>1. SameBut(w) BY <1>19, OwnStep
  <2>5. CASE c \in webAdrift'
    BY <2>5 DEF WebAt
  <2>6. CASE c \notin webAdrift'
    <3>1. c # Company(w) /\ web'[c] = web[c]
      BY <1>19, <2>6 DEF PostTorn, TypeOK
    <3>2. doc'[c] = doc[c] BY <1>19, <2>6, <3>1 DEF PostTorn, TypeOK
    <3>3. c \in webAdrift => c \in webAdrift'
      BY <1>19, <2>6, <3>1 DEF PostTorn
    <3>4. web'[c] # doc'[c] => web[c] # doc[c] \/ Misleads(w, c)
      BY <1>19, <2>6, <3>1, <3>2 DEF PostTorn
    <3>5. Misleads(w, c)' => Misleads(w, c)
      BY <2>0, <1>19, <2>6, <3>1, <3>2 DEF PostTorn, Misleads, Posting, Go, After, Refreshing,
          TypeOK, Company, bufVars
    <3>6. Renews(w, c) => Renews(w, c)'
      BY <2>0, <1>19, <2>6, <3>1, <3>2 DEF PostTorn, Renews, Reselects, Posting, Go, After, Refreshing,
          TypeOK, Company, BeforeTree, BeforeUsers, BeforeJson, bufVars
    <3> QED BY <2>1, <3>2, <3>3, <3>4, <3>5, <3>6, WebQuiet DEF WebInv
  <2> QED BY <2>5, <2>6
<1>20. ASSUME NEW w \in Workers, PostFails(w) PROVE WebAt(c)'
  <2>0. serving' = serving /\ ask' = ask BY <1>20 DEF PostFails, jobVars
  <2>1. SameBut(w) BY <1>20, OwnStep
  <2>5. CASE c = Company(w)
    <3>2. doc'[c] = doc[c] BY <1>20 DEF PostFails, TypeOK
    <3>3. web'[c] # doc'[c] \/ OldPost(w, c) => c \in webAdrift'
      BY <1>20, <2>5, <3>2 DEF PostFails, LoseWeb
    <3>4. ~ Posting(w, c)'
      BY <2>0, <1>20, <2>5 DEF PostFails, Posting, Go, After, Refreshing, TypeOK
    <3> QED BY <2>1, <3>2, <3>3, <3>4, WebFreed
  <2>6. CASE ~ (c = Company(w))
    <3>2. doc'[c] = doc[c] BY <1>20, <2>6 DEF PostFails, TypeOK
    <3>3. c \in webAdrift => c \in webAdrift'
      BY <1>20, <2>6 DEF PostFails, LoseWeb
    <3>4. web'[c] # doc'[c] => web[c] # doc[c] \/ Misleads(w, c)
      BY <1>20, <2>6, <3>2 DEF PostFails
    <3>5. Misleads(w, c)' => Misleads(w, c)
      BY <2>0, <1>20, <2>6, <3>2 DEF PostFails, Misleads, Posting, Go, After, Refreshing,
          TypeOK, Company, bufVars
    <3>6. Renews(w, c) => Renews(w, c)'
      BY <2>0, <1>20, <2>6, <3>2 DEF PostFails, Renews, Reselects, Posting, Go, After, Refreshing, TypeOK,
          Company, BeforeTree, BeforeUsers, BeforeJson, bufVars
    <3> QED BY <2>1, <3>2, <3>3, <3>4, <3>5, <3>6, WebQuiet DEF WebInv
  <2> QED BY <2>5, <2>6
<1>21. ASSUME NEW w \in Workers, Notify(w) PROVE WebAt(c)'
  <2>0. serving' = serving /\ ask' = ask BY <1>21 DEF Notify, jobVars
  <2>1. SameBut(w) BY <1>21, OwnStep
  <2>2. doc'[c] = doc[c] BY <1>21 DEF Notify, TypeOK
  <2>3. c \in webAdrift => c \in webAdrift'
    BY <1>21 DEF Notify
  <2>4. web'[c] # doc'[c] => web[c] # doc[c] \/ Misleads(w, c)
    BY <1>21, <2>2 DEF Notify
  <2>5. Misleads(w, c)' => Misleads(w, c)
    BY <2>0, <1>21, <2>2 DEF Notify, Misleads, Posting, Go, After, Refreshing, TypeOK, Company,
        bufVars
  <2>6. Renews(w, c) => Renews(w, c)'
    BY <2>0, <1>21, <2>2 DEF Notify, Renews, Reselects, Posting, Go, After, Refreshing, TypeOK, Company,
        BeforeTree, BeforeUsers, BeforeJson, bufVars
  <2> QED BY <2>1, <2>2, <2>3, <2>4, <2>5, <2>6, WebQuiet DEF WebInv
<1>22. ASSUME Crash PROVE WebAt(c)'
  <2>1. web'[c] # doc'[c] => c \in webAdrift' BY <1>22 DEF Crash
  <2>2. \A o \in Workers : ~ Misleads(o, c)' BY <1>22 DEF Crash, Misleads, Posting
  <2> QED BY <2>1, <2>2 DEF WebAt
<1>23. ASSUME UNCHANGED vars PROVE WebAt(c)'
  <2>1. (\E o \in Workers : Misleads(o, c))' => \E o \in Workers : Misleads(o, c)
    BY <1>23 DEF vars, jobVars, Misleads, Posting, Company
  <2>2. (\E o \in Workers : Renews(o, c)) => (\E o \in Workers : Renews(o, c))'
    <3>1. ASSUME NEW o \in Workers, Renews(o, c) PROVE Renews(o, c)'
      BY <1>23, <3>1 DEF vars, jobVars, Renews, Reselects, Posting, Company
    <3> QED BY <3>1
  <2> QED BY <1>23, <2>1, <2>2 DEF vars, WebInv, WebAt
<1> QED BY [Next]_vars, <1>1, <1>2, <1>3, <1>4, <1>5, <1>6, <1>7, <1>8, <1>9, <1>10, <1>11,
    <1>12, <1>13, <1>14, <1>15, <1>16, <1>17, <1>18, <1>19, <1>20, <1>21, <1>22, <1>23, <1>24
  DEF Next, Done

\* Alone at the buffer a worker reads its own header.
LEMMA HeaderStep ==
  ASSUME TypeOK, HeaderInv, [Next]_vars
  PROVE  HeaderInv'
<1>1. ASSUME NEW w \in Workers, NEW r \in Requests, Receive(w, r) PROVE HeaderInv'
  BY <1>1, OrgAssumption DEF TypeOK, HeaderInv, Using, Own, Company, Op, Receive, Goto, First,
      jobVars, bufVars
<1>2. ASSUME NEW w \in Workers, Return(w) PROVE HeaderInv'
  BY <1>2 DEF TypeOK, HeaderInv, Using, Own, Company, Op, Return, jobVars, bufVars
<1>3. ASSUME NEW w \in Workers, Change(w) PROVE HeaderInv'
  BY <1>3 DEF TypeOK, HeaderInv, Using, Own, Company, Op, Change, Go, After, Changing, jobVars,
      bufVars
<1>4. ASSUME NEW w \in Workers, ChangeFails(w) PROVE HeaderInv'
  BY <1>4 DEF TypeOK, HeaderInv, Using, Own, Company, Op, ChangeFails, Go, Goto, After,
      Changing, jobVars, bufVars
<1>5. ASSUME NEW w \in Workers, Query(w) PROVE HeaderInv'
  BY <1>5 DEF TypeOK, HeaderInv, Using, Own, Company, Op, Query, Go, After, Changing, jobVars,
      bufVars
<1>24. ASSUME NEW w \in Workers, CardChange(w) PROVE HeaderInv'
  BY <1>24 DEF TypeOK, HeaderInv, Using, Own, Company, Op, CardChange, Go, After, Changing, Refreshing, jobVars,
      bufVars
<1>6. ASSUME NEW w \in Workers, QueryFails(w) PROVE HeaderInv'
  BY <1>6 DEF TypeOK, HeaderInv, Using, Own, Company, Op, QueryFails, Break, Lose, LoseWeb,
      Goto, jobVars, bufVars
<1>7. ASSUME NEW w \in Workers, NEW u \in Values, Delete(w, u) PROVE HeaderInv'
  BY <1>7 DEF TypeOK, HeaderInv, Using, Own, Company, Op, Delete, Deleting, Mend, Go, After,
      Refreshing, jobVars, bufVars
<1>8. ASSUME NEW w \in Workers, NEW u \in Values, DeleteLost(w, u) PROVE HeaderInv'
  BY <1>8 DEF TypeOK, HeaderInv, Using, Own, Company, Op, DeleteLost, Deleting, Lose, Go,
      After, Refreshing, jobVars, bufVars
<1>9. ASSUME NEW w \in Workers, Select(w) PROVE HeaderInv'
  BY <1>9 DEF TypeOK, HeaderInv, Using, Own, Company, Op, Select, Go, After, Refreshing,
      jobVars, bufVars
<1>10. ASSUME NEW w \in Workers, SelectFails(w) PROVE HeaderInv'
  BY <1>10 DEF TypeOK, HeaderInv, Using, Own, Company, Op, SelectFails, Lose, Key, Goto, After,
      Refreshing, jobVars, bufVars
<1>11. ASSUME NEW w \in Workers, Store(w) PROVE HeaderInv'
  BY <1>11 DEF TypeOK, HeaderInv, Using, Own, Company, Op, Store, Mend, Key, Go, After,
      Refreshing, jobVars, bufVars
<1>12. ASSUME NEW w \in Workers, StoreLost(w) PROVE HeaderInv'
  BY <1>12 DEF TypeOK, HeaderInv, Using, Own, Company, Op, StoreLost, Lose, Key, Go, After,
      Refreshing, jobVars, bufVars
<1>13. ASSUME NEW w \in Workers, Json(w) PROVE HeaderInv'
  BY <1>13 DEF TypeOK, HeaderInv, Using, Own, Company, Op, Json, Go, After, Refreshing,
      jobVars, bufVars
<1>14. ASSUME NEW w \in Workers, JsonFails(w) PROVE HeaderInv'
  BY <1>14 DEF TypeOK, HeaderInv, Using, Own, Company, Op, JsonFails, Lose, LoseWeb, Goto,
      jobVars, bufVars
<1>15. ASSUME NEW w \in Workers, BeginHeader(w) PROVE HeaderInv'
  BY <1>15 DEF TypeOK, HeaderInv, Using, Own, Company, Op, BeginHeader, Printing, BufferInUse,
      Go, After, Refreshing, jobVars, bufVars
<1>16. ASSUME NEW w \in Workers, EndHeader(w) PROVE HeaderInv'
  BY <1>16 DEF TypeOK, HeaderInv, Using, Own, Company, Op, EndHeader, Go, After, Refreshing,
      jobVars, bufVars
<1>17. ASSUME NEW w \in Workers, Copy(w) PROVE HeaderInv'
  BY <1>17 DEF TypeOK, HeaderInv, Using, Own, Company, Op, Copy, Go, After, Refreshing,
      jobVars, bufVars
<1>18. ASSUME NEW w \in Workers, Post(w) PROVE HeaderInv'
  BY <1>18 DEF TypeOK, HeaderInv, Using, Own, Company, Op, Post, Go, After, Refreshing,
      jobVars, bufVars
<1>19. ASSUME NEW w \in Workers, PostTorn(w) PROVE HeaderInv'
  BY <1>19 DEF TypeOK, HeaderInv, Using, Own, Company, Op, PostTorn, Go, After, Refreshing,
      jobVars, bufVars
<1>20. ASSUME NEW w \in Workers, PostFails(w) PROVE HeaderInv'
  BY <1>20 DEF TypeOK, HeaderInv, Using, Own, Company, Op, PostFails, LoseWeb, Go, After,
      Refreshing, jobVars, bufVars
<1>21. ASSUME NEW w \in Workers, Notify(w) PROVE HeaderInv'
  BY <1>21 DEF TypeOK, HeaderInv, Using, Own, Company, Op, Notify, Go, After, Refreshing,
      jobVars, bufVars
<1>22. ASSUME Crash PROVE HeaderInv'
  BY <1>22 DEF TypeOK, HeaderInv, Using, Own, Company, Op, Crash
<1>23. ASSUME UNCHANGED vars PROVE HeaderInv'
  BY <1>23 DEF TypeOK, HeaderInv, Using, Own, Company, Op, vars, jobVars, bufVars
<1> QED BY [Next]_vars, <1>1, <1>2, <1>3, <1>4, <1>5, <1>6, <1>7, <1>8, <1>9, <1>10, <1>11,
    <1>12, <1>13, <1>14, <1>15, <1>16, <1>17, <1>18, <1>19, <1>20, <1>21, <1>22, <1>23, <1>24
  DEF Next, Done

\* What a handler has dealt with stays at least as new as its change.
LEMMA NotedStep ==
  ASSUME TypeOK, OpInv, NotedInv, [Next]_vars
  PROVE  NotedInv'
<1> SUFFICES ASSUME NEW x \in Workers, NEW v \in Values, NEW c \in Companies, NEW n \in Nat,
                    Owes(x, v, c, n)'
             PROVE  Since(v, c, n)'
  BY DEF NotedInv
<1>n. n <= db'[c] /\ pc'[x] # "idle"
  <2>1. OpInv' BY OpStep
  <2> QED BY <2>1 DEF OpInv, OpAt, Owes, AfterUsers, AfterTree
<1>1. ASSUME NEW w \in Workers, NEW r \in Requests, Receive(w, r) PROVE Since(v, c, n)'
  <2>1. SameBut(w) BY <1>1, OwnStep
  <2>2. Owes(w, v, c, n)' => Owes(w, v, c, n)
    BY <1>1, OrgAssumption DEF Receive, jobVars, Owes, AfterUsers, AfterTree, Goto, First,
        TypeOK, Op, Company
  <2>3. Since(v, c, n) BY <2>1, <2>2, OthersOwe DEF NotedInv
  <2>4. <<v, c>> \in adrift => <<v, c>> \in adrift'
    BY <1>1 DEF Receive
  <2>5. \/ cache'[<<v, c>>] = cache[<<v, c>>]
        \/ cache'[<<v, c>>] = Absent \/ cache'[<<v, c>>] >= n \/ <<v, c>> \in adrift'
    BY <1>1, <2>3, <2>4 DEF Receive, TypeOK
  <2>6. Storing(w, v, c)' => (Storing(w, v, c) /\ snap'[w] = snap[w]) \/ snap'[w] >= n
    BY <1>1, <1>n DEF Receive, Storing, Goto, First, TypeOK, Op, Company, Builds, Builders
  <2> QED BY <2>1, <2>3, <2>4, <2>5, <2>6, SinceQuiet
<1>2. ASSUME NEW w \in Workers, Return(w) PROVE Since(v, c, n)'
  <2>1. SameBut(w) BY <1>2, OwnStep
  <2>2. Owes(w, v, c, n)' => Owes(w, v, c, n)
    BY <1>2 DEF Return, jobVars, Owes, AfterUsers, AfterTree, TypeOK, Op, Company
  <2>3. Since(v, c, n) BY <2>1, <2>2, OthersOwe DEF NotedInv
  <2>4. <<v, c>> \in adrift => <<v, c>> \in adrift'
    BY <1>2 DEF Return
  <2>5. \/ cache'[<<v, c>>] = cache[<<v, c>>]
        \/ cache'[<<v, c>>] = Absent \/ cache'[<<v, c>>] >= n \/ <<v, c>> \in adrift'
    BY <1>2, <2>3, <2>4 DEF Return, TypeOK
  <2>6. Storing(w, v, c)' => (Storing(w, v, c) /\ snap'[w] = snap[w]) \/ snap'[w] >= n
    BY <1>2, <1>n DEF Return, Storing, TypeOK, Op, Company, Builds
  <2> QED BY <2>1, <2>3, <2>4, <2>5, <2>6, SinceQuiet
<1>3. ASSUME NEW w \in Workers, Change(w) PROVE Since(v, c, n)'
  <2>0. serving' = serving /\ ask' = ask BY <1>3 DEF Change, jobVars
  <2>1. SameBut(w) BY <1>3, OwnStep
  <2>2. Owes(w, v, c, n)' => Owes(w, v, c, n)
    BY <2>0, <1>3 DEF Change, jobVars, Owes, AfterUsers, AfterTree, Go, After, Changing,
        TypeOK, Op, Company
  <2>3. Since(v, c, n) BY <2>1, <2>2, OthersOwe DEF NotedInv
  <2>4. <<v, c>> \in adrift => <<v, c>> \in adrift'
    BY <1>3 DEF Change
  <2>5. \/ cache'[<<v, c>>] = cache[<<v, c>>]
        \/ cache'[<<v, c>>] = Absent \/ cache'[<<v, c>>] >= n \/ <<v, c>> \in adrift'
    BY <1>3, <2>3, <2>4 DEF Change, TypeOK
  <2>6. Storing(w, v, c)' => (Storing(w, v, c) /\ snap'[w] = snap[w]) \/ snap'[w] >= n
    BY <2>0, <1>3, <1>n DEF Change, Storing, Go, After, Changing, TypeOK, Op, Company, Builds
  <2> QED BY <2>1, <2>3, <2>4, <2>5, <2>6, SinceQuiet
<1>4. ASSUME NEW w \in Workers, ChangeFails(w) PROVE Since(v, c, n)'
  <2>0. serving' = serving /\ ask' = ask BY <1>4 DEF ChangeFails, jobVars
  <2>1. SameBut(w) BY <1>4, OwnStep
  <2>2. Owes(w, v, c, n)' => Owes(w, v, c, n)
    BY <2>0, <1>4 DEF ChangeFails, jobVars, Owes, AfterUsers, AfterTree, Go, Goto, After,
        Changing, TypeOK, Op, Company
  <2>3. Since(v, c, n) BY <2>1, <2>2, OthersOwe DEF NotedInv
  <2>4. <<v, c>> \in adrift => <<v, c>> \in adrift'
    BY <1>4 DEF ChangeFails
  <2>5. \/ cache'[<<v, c>>] = cache[<<v, c>>]
        \/ cache'[<<v, c>>] = Absent \/ cache'[<<v, c>>] >= n \/ <<v, c>> \in adrift'
    BY <1>4, <2>3, <2>4 DEF ChangeFails, TypeOK
  <2>6. Storing(w, v, c)' => (Storing(w, v, c) /\ snap'[w] = snap[w]) \/ snap'[w] >= n
    BY <2>0, <1>4, <1>n DEF ChangeFails, Storing, Go, Goto, After, Changing, TypeOK, Op,
        Company, Builds
  <2> QED BY <2>1, <2>3, <2>4, <2>5, <2>6, SinceQuiet
<1>5. ASSUME NEW w \in Workers, Query(w) PROVE Since(v, c, n)'
  <2>0. serving' = serving /\ ask' = ask BY <1>5 DEF Query, jobVars
  <2>1. SameBut(w) BY <1>5, OwnStep
  <2>2. Owes(w, v, c, n)' => Owes(w, v, c, n)
    BY <2>0, <1>5 DEF Query, jobVars, Owes, AfterUsers, AfterTree, Go, After, Changing, TypeOK,
        Op, Company
  <2>3. Since(v, c, n) BY <2>1, <2>2, OthersOwe DEF NotedInv
  <2>4. <<v, c>> \in adrift => <<v, c>> \in adrift'
    BY <1>5 DEF Query
  <2>5. \/ cache'[<<v, c>>] = cache[<<v, c>>]
        \/ cache'[<<v, c>>] = Absent \/ cache'[<<v, c>>] >= n \/ <<v, c>> \in adrift'
    BY <1>5, <2>3, <2>4 DEF Query, TypeOK
  <2>6. Storing(w, v, c)' => (Storing(w, v, c) /\ snap'[w] = snap[w]) \/ snap'[w] >= n
    BY <2>0, <1>5, <1>n DEF Query, Storing, Go, After, Changing, TypeOK, Op, Company, Builds
  <2> QED BY <2>1, <2>3, <2>4, <2>5, <2>6, SinceQuiet
<1>24. ASSUME NEW w \in Workers, CardChange(w) PROVE Since(v, c, n)'
  <2>0. serving' = serving /\ ask' = ask BY <1>24 DEF CardChange, jobVars
  <2>1. SameBut(w) BY <1>24, OwnStep
  <2>2. Owes(w, v, c, n)' => Owes(w, v, c, n)
    BY <2>0, <1>24 DEF CardChange, jobVars, Owes, AfterUsers, AfterTree, Go, After, Changing, Refreshing, TypeOK,
        Op, Company
  <2>3. Since(v, c, n) BY <2>1, <2>2, OthersOwe DEF NotedInv
  <2>4. <<v, c>> \in adrift => <<v, c>> \in adrift'
    BY <1>24 DEF CardChange
  <2>5. \/ cache'[<<v, c>>] = cache[<<v, c>>]
        \/ cache'[<<v, c>>] = Absent \/ cache'[<<v, c>>] >= n \/ <<v, c>> \in adrift'
    BY <1>24, <2>3, <2>4 DEF CardChange, TypeOK
  <2>6. Storing(w, v, c)' => (Storing(w, v, c) /\ snap'[w] = snap[w]) \/ snap'[w] >= n
    BY <2>0, <1>24, <1>n DEF CardChange, Storing, Go, After, Changing, Refreshing, TypeOK, Op, Company, Builds
  <2> QED BY <2>1, <2>3, <2>4, <2>5, <2>6, SinceQuiet
<1>6. ASSUME NEW w \in Workers, QueryFails(w) PROVE Since(v, c, n)'
  <2>0. serving' = serving /\ ask' = ask BY <1>6 DEF QueryFails, jobVars
  <2>1. SameBut(w) BY <1>6, OwnStep
  <2>5. CASE c = Company(w)
    <3>2. db'[c] = db[c] BY <1>6 DEF QueryFails, TypeOK
    <3>3. Stale(<<v, c>>)' \/ OldStore(w, v, c) => <<v, c>> \in adrift'
      BY <1>6, <2>5, <3>2 DEF QueryFails, Stale, Lose, Break, Builds
    <3>4. ~ Storing(w, v, c)'
      BY <2>0, <1>6, <2>5 DEF QueryFails, Storing, Goto, TypeOK, Builders, Break
    <3>5. n <= db[c] /\ db[c] \in Nat BY <1>n, <3>2 DEF TypeOK
    <3> QED BY <2>1, <3>2, <3>3, <3>4, <3>5, SinceFreed
  <2>6. CASE ~ (c = Company(w))
    <3>2. Owes(w, v, c, n)' => Owes(w, v, c, n)
      BY <2>0, <1>6, <2>6 DEF QueryFails, jobVars, Owes, AfterUsers, AfterTree, Goto, TypeOK,
          Op, Company, Break
    <3>3. Since(v, c, n) BY <2>1, <3>2, OthersOwe DEF NotedInv
    <3>4. <<v, c>> \in adrift => <<v, c>> \in adrift'
      BY <1>6, <2>6 DEF QueryFails, Lose, Break
    <3>5. \/ cache'[<<v, c>>] = cache[<<v, c>>]
          \/ cache'[<<v, c>>] = Absent \/ cache'[<<v, c>>] >= n \/ <<v, c>> \in adrift'
      BY <1>6, <2>6, <3>3, <3>4 DEF QueryFails, TypeOK
    <3>6. Storing(w, v, c)' => (Storing(w, v, c) /\ snap'[w] = snap[w]) \/ snap'[w] >= n
      BY <2>0, <1>6, <2>6, <1>n DEF QueryFails, Storing, Goto, TypeOK, Op, Company, Builds,
          Break
    <3> QED BY <2>1, <3>3, <3>4, <3>5, <3>6, SinceQuiet
  <2> QED BY <2>5, <2>6
<1>7. ASSUME NEW w \in Workers, NEW u \in Values, Delete(w, u) PROVE Since(v, c, n)'
  <2>0. serving' = serving /\ ask' = ask BY <1>7 DEF Delete, jobVars
  <2>1. SameBut(w) BY <1>7, OwnStep
  <2>b. Op(w) \notin Builders /\ Builds(w) = "org_" BY <1>7 DEF OpInv, OpAt, Delete, Deleting,
      Builds, Builders
  <2>5. CASE v = u /\ c = Company(w)
    <3>2. db'[c] = db[c] BY <1>7 DEF Delete, TypeOK
    <3>3. Stale(<<v, c>>)' \/ OldStore(w, v, c) => <<v, c>> \in adrift'
      BY <1>7, <2>5, <2>b, <3>2 DEF Delete, Stale, Mend, TypeOK, Builds
    <3>4. ~ Storing(w, v, c)'
      BY <2>0, <1>7, <2>5, <2>b DEF Delete, Deleting, Storing, Go, After, Refreshing, TypeOK,
          Builders
    <3>5. n <= db[c] /\ db[c] \in Nat BY <1>n, <3>2 DEF TypeOK
    <3> QED BY <2>1, <3>2, <3>3, <3>4, <3>5, SinceFreed
  <2>6. CASE ~ (v = u /\ c = Company(w))
    <3>2. Owes(w, v, c, n)' => Owes(w, v, c, n)
      BY <2>0, <1>7, <2>6, <2>b DEF Delete, Deleting, jobVars, Owes, AfterUsers, AfterTree, Go,
          After, Refreshing, TypeOK, Op, Company
    <3>3. Since(v, c, n) BY <2>1, <3>2, OthersOwe DEF NotedInv
    <3>4. <<v, c>> \in adrift => <<v, c>> \in adrift'
      BY <1>7, <2>6, <2>b DEF Delete, Mend
    <3>5. \/ cache'[<<v, c>>] = cache[<<v, c>>]
          \/ cache'[<<v, c>>] = Absent \/ cache'[<<v, c>>] >= n \/ <<v, c>> \in adrift'
      BY <1>7, <2>6, <2>b, <3>3, <3>4 DEF Delete, TypeOK
    <3>6. Storing(w, v, c)' => (Storing(w, v, c) /\ snap'[w] = snap[w]) \/ snap'[w] >= n
      BY <2>0, <1>7, <2>6, <2>b, <1>n DEF Delete, Deleting, Storing, Go, After, Refreshing,
          TypeOK, Op, Company, Builds
    <3> QED BY <2>1, <3>3, <3>4, <3>5, <3>6, SinceQuiet
  <2> QED BY <2>5, <2>6
<1>8. ASSUME NEW w \in Workers, NEW u \in Values, DeleteLost(w, u) PROVE Since(v, c, n)'
  <2>0. serving' = serving /\ ask' = ask BY <1>8 DEF DeleteLost, jobVars
  <2>1. SameBut(w) BY <1>8, OwnStep
  <2>b. Op(w) \notin Builders /\ Builds(w) = "org_" BY <1>8 DEF OpInv, OpAt, DeleteLost,
      Deleting, Builds, Builders
  <2>5. CASE v = u /\ c = Company(w)
    <3>2. db'[c] = db[c] BY <1>8 DEF DeleteLost, TypeOK
    <3>3. Stale(<<v, c>>)' \/ OldStore(w, v, c) => <<v, c>> \in adrift'
      BY <1>8, <2>5, <2>b, <3>2 DEF DeleteLost, Stale, Lose, Builds
    <3>4. ~ Storing(w, v, c)'
      BY <2>0, <1>8, <2>5, <2>b DEF DeleteLost, Deleting, Storing, Go, After, Refreshing,
          TypeOK, Builders
    <3>5. n <= db[c] /\ db[c] \in Nat BY <1>n, <3>2 DEF TypeOK
    <3> QED BY <2>1, <3>2, <3>3, <3>4, <3>5, SinceFreed
  <2>6. CASE ~ (v = u /\ c = Company(w))
    <3>2. Owes(w, v, c, n)' => Owes(w, v, c, n)
      BY <2>0, <1>8, <2>6, <2>b DEF DeleteLost, Deleting, jobVars, Owes, AfterUsers, AfterTree,
          Go, After, Refreshing, TypeOK, Op, Company
    <3>3. Since(v, c, n) BY <2>1, <3>2, OthersOwe DEF NotedInv
    <3>4. <<v, c>> \in adrift => <<v, c>> \in adrift'
      BY <1>8, <2>6, <2>b DEF DeleteLost, Lose
    <3>5. \/ cache'[<<v, c>>] = cache[<<v, c>>]
          \/ cache'[<<v, c>>] = Absent \/ cache'[<<v, c>>] >= n \/ <<v, c>> \in adrift'
      BY <1>8, <2>6, <2>b, <3>3, <3>4 DEF DeleteLost, TypeOK
    <3>6. Storing(w, v, c)' => (Storing(w, v, c) /\ snap'[w] = snap[w]) \/ snap'[w] >= n
      BY <2>0, <1>8, <2>6, <2>b, <1>n DEF DeleteLost, Deleting, Storing, Go, After, Refreshing,
          TypeOK, Op, Company, Builds
    <3> QED BY <2>1, <3>3, <3>4, <3>5, <3>6, SinceQuiet
  <2> QED BY <2>5, <2>6
<1>9. ASSUME NEW w \in Workers, Select(w) PROVE Since(v, c, n)'
  <2>0. serving' = serving /\ ask' = ask BY <1>9 DEF Select, jobVars
  <2>1. SameBut(w) BY <1>9, OwnStep
  <2>2. Owes(w, v, c, n)' => Owes(w, v, c, n)
    BY <2>0, <1>9 DEF Select, jobVars, Owes, AfterUsers, AfterTree, Go, After, Refreshing,
        TypeOK, Op, Company
  <2>3. Since(v, c, n) BY <2>1, <2>2, OthersOwe DEF NotedInv
  <2>4. <<v, c>> \in adrift => <<v, c>> \in adrift'
    BY <1>9 DEF Select
  <2>5. \/ cache'[<<v, c>>] = cache[<<v, c>>]
        \/ cache'[<<v, c>>] = Absent \/ cache'[<<v, c>>] >= n \/ <<v, c>> \in adrift'
    BY <1>9, <2>3, <2>4 DEF Select, TypeOK
  <2>6. Storing(w, v, c)' => (Storing(w, v, c) /\ snap'[w] = snap[w]) \/ snap'[w] >= n
    BY <2>0, <1>9, <1>n DEF Select, Storing, Go, After, Refreshing, TypeOK, Op, Company, Builds
  <2> QED BY <2>1, <2>3, <2>4, <2>5, <2>6, SinceQuiet
<1>10. ASSUME NEW w \in Workers, SelectFails(w) PROVE Since(v, c, n)'
  <2>0. serving' = serving /\ ask' = ask BY <1>10 DEF SelectFails, jobVars
  <2>1. SameBut(w) BY <1>10, OwnStep
  <2>5. CASE v = Builds(w) /\ c = Company(w)
    <3>2. db'[c] = db[c] BY <1>10 DEF SelectFails, TypeOK
    <3>3. Stale(<<v, c>>)' \/ OldStore(w, v, c) => <<v, c>> \in adrift'
      BY <1>10, <2>5, <3>2 DEF SelectFails, Stale, Lose, Key, Builds
    <3>4. ~ Storing(w, v, c)'
      BY <2>0, <1>10, <2>5 DEF SelectFails, Storing, Goto, After, Refreshing, TypeOK, Builders
    <3>5. n <= db[c] /\ db[c] \in Nat BY <1>n, <3>2 DEF TypeOK
    <3> QED BY <2>1, <3>2, <3>3, <3>4, <3>5, SinceFreed
  <2>6. CASE ~ (v = Builds(w) /\ c = Company(w))
    <3>2. Owes(w, v, c, n)' => Owes(w, v, c, n)
      BY <2>0, <1>10, <2>6 DEF SelectFails, jobVars, Owes, AfterUsers, AfterTree, Goto, After,
          Refreshing, TypeOK, Op, Company
    <3>3. Since(v, c, n) BY <2>1, <3>2, OthersOwe DEF NotedInv
    <3>4. <<v, c>> \in adrift => <<v, c>> \in adrift'
      BY <1>10, <2>6 DEF SelectFails, Lose, Key
    <3>5. \/ cache'[<<v, c>>] = cache[<<v, c>>]
          \/ cache'[<<v, c>>] = Absent \/ cache'[<<v, c>>] >= n \/ <<v, c>> \in adrift'
      BY <1>10, <2>6, <3>3, <3>4 DEF SelectFails, TypeOK
    <3>6. Storing(w, v, c)' => (Storing(w, v, c) /\ snap'[w] = snap[w]) \/ snap'[w] >= n
      BY <2>0, <1>10, <2>6, <1>n DEF SelectFails, Storing, Goto, After, Refreshing, TypeOK, Op,
          Company, Builds
    <3> QED BY <2>1, <3>3, <3>4, <3>5, <3>6, SinceQuiet
  <2> QED BY <2>5, <2>6
<1>11. ASSUME NEW w \in Workers, Store(w) PROVE Since(v, c, n)'
  <2>0. serving' = serving /\ ask' = ask BY <1>11 DEF Store, jobVars
  <2>1. SameBut(w) BY <1>11, OwnStep
  <2>5. CASE v = Builds(w) /\ c = Company(w) /\ snap[w] = db[c]
    <3>2. db'[c] = db[c] BY <1>11 DEF Store, TypeOK
    <3>3. Stale(<<v, c>>)' \/ OldStore(w, v, c) => <<v, c>> \in adrift'
      BY <1>11, <2>5, <3>2 DEF Store, Stale, Mend, Key, TypeOK, Builds
    <3>4. ~ Storing(w, v, c)'
      BY <2>0, <1>11, <2>5 DEF Store, Storing, Go, After, Refreshing, TypeOK, Builders
    <3>5. n <= db[c] /\ db[c] \in Nat BY <1>n, <3>2 DEF TypeOK
    <3> QED BY <2>1, <3>2, <3>3, <3>4, <3>5, SinceFreed
  <2>6. CASE ~ (v = Builds(w) /\ c = Company(w) /\ snap[w] = db[c])
    <3>2. Owes(w, v, c, n)' => Owes(w, v, c, n)
      BY <2>0, <1>11, <2>6 DEF Store, jobVars, Owes, AfterUsers, AfterTree, Go, After,
          Refreshing, TypeOK, Op, Company
    <3>3. Since(v, c, n) BY <2>1, <3>2, OthersOwe DEF NotedInv
    <3>4. <<v, c>> \in adrift => <<v, c>> \in adrift'
      BY <1>11, <2>6 DEF Store, Mend, Key
    <3>5. \/ cache'[<<v, c>>] = cache[<<v, c>>]
          \/ cache'[<<v, c>>] = Absent \/ cache'[<<v, c>>] >= n \/ <<v, c>> \in adrift'
      BY <1>11, <2>6, <3>3, <3>4 DEF Store, TypeOK, Since, Storing, Key
    <3>6. Storing(w, v, c)' => (Storing(w, v, c) /\ snap'[w] = snap[w]) \/ snap'[w] >= n
      BY <2>0, <1>11, <2>6, <1>n DEF Store, Storing, Go, After, Refreshing, TypeOK, Op,
          Company, Builds
    <3> QED BY <2>1, <3>3, <3>4, <3>5, <3>6, SinceQuiet
  <2> QED BY <2>5, <2>6
<1>12. ASSUME NEW w \in Workers, StoreLost(w) PROVE Since(v, c, n)'
  <2>0. serving' = serving /\ ask' = ask BY <1>12 DEF StoreLost, jobVars
  <2>1. SameBut(w) BY <1>12, OwnStep
  <2>5. CASE v = Builds(w) /\ c = Company(w)
    <3>2. db'[c] = db[c] BY <1>12 DEF StoreLost, TypeOK
    <3>3. Stale(<<v, c>>)' \/ OldStore(w, v, c) => <<v, c>> \in adrift'
      BY <1>12, <2>5, <3>2 DEF StoreLost, Stale, Lose, Key, Builds
    <3>4. ~ Storing(w, v, c)'
      BY <2>0, <1>12, <2>5 DEF StoreLost, Storing, Go, After, Refreshing, TypeOK, Builders
    <3>5. n <= db[c] /\ db[c] \in Nat BY <1>n, <3>2 DEF TypeOK
    <3> QED BY <2>1, <3>2, <3>3, <3>4, <3>5, SinceFreed
  <2>6. CASE ~ (v = Builds(w) /\ c = Company(w))
    <3>2. Owes(w, v, c, n)' => Owes(w, v, c, n)
      BY <2>0, <1>12, <2>6 DEF StoreLost, jobVars, Owes, AfterUsers, AfterTree, Go, After,
          Refreshing, TypeOK, Op, Company
    <3>3. Since(v, c, n) BY <2>1, <3>2, OthersOwe DEF NotedInv
    <3>4. <<v, c>> \in adrift => <<v, c>> \in adrift'
      BY <1>12, <2>6 DEF StoreLost, Lose, Key
    <3>5. \/ cache'[<<v, c>>] = cache[<<v, c>>]
          \/ cache'[<<v, c>>] = Absent \/ cache'[<<v, c>>] >= n \/ <<v, c>> \in adrift'
      BY <1>12, <2>6, <3>3, <3>4 DEF StoreLost, TypeOK
    <3>6. Storing(w, v, c)' => (Storing(w, v, c) /\ snap'[w] = snap[w]) \/ snap'[w] >= n
      BY <2>0, <1>12, <2>6, <1>n DEF StoreLost, Storing, Go, After, Refreshing, TypeOK, Op,
          Company, Builds
    <3> QED BY <2>1, <3>3, <3>4, <3>5, <3>6, SinceQuiet
  <2> QED BY <2>5, <2>6
<1>13. ASSUME NEW w \in Workers, Json(w) PROVE Since(v, c, n)'
  <2>0. serving' = serving /\ ask' = ask BY <1>13 DEF Json, jobVars
  <2>1. SameBut(w) BY <1>13, OwnStep
  <2>2. Owes(w, v, c, n)' => Owes(w, v, c, n)
    BY <2>0, <1>13 DEF Json, jobVars, Owes, AfterUsers, AfterTree, Go, After, Refreshing,
        TypeOK, Op, Company
  <2>3. Since(v, c, n) BY <2>1, <2>2, OthersOwe DEF NotedInv
  <2>4. <<v, c>> \in adrift => <<v, c>> \in adrift'
    BY <1>13 DEF Json
  <2>5. \/ cache'[<<v, c>>] = cache[<<v, c>>]
        \/ cache'[<<v, c>>] = Absent \/ cache'[<<v, c>>] >= n \/ <<v, c>> \in adrift'
    BY <1>13, <2>3, <2>4 DEF Json, TypeOK
  <2>6. Storing(w, v, c)' => (Storing(w, v, c) /\ snap'[w] = snap[w]) \/ snap'[w] >= n
    BY <2>0, <1>13, <1>n DEF Json, Storing, Go, After, Refreshing, TypeOK, Op, Company, Builds
  <2> QED BY <2>1, <2>3, <2>4, <2>5, <2>6, SinceQuiet
<1>14. ASSUME NEW w \in Workers, JsonFails(w) PROVE Since(v, c, n)'
  <2>0. serving' = serving /\ ask' = ask BY <1>14 DEF JsonFails, jobVars
  <2>1. SameBut(w) BY <1>14, OwnStep
  <2>b. Op(w) \notin Builders /\ Builds(w) = "org_" BY <1>14 DEF OpInv, OpAt, JsonFails,
      Builds, Builders
  <2>5. CASE v = "org_" /\ c = Company(w)
    <3>2. db'[c] = db[c] BY <1>14 DEF JsonFails, TypeOK
    <3>3. Stale(<<v, c>>)' \/ OldStore(w, v, c) => <<v, c>> \in adrift'
      BY <1>14, <2>5, <2>b, <3>2 DEF JsonFails, Stale, Lose, Builds
    <3>4. ~ Storing(w, v, c)'
      BY <2>0, <1>14, <2>5, <2>b DEF JsonFails, Storing, Goto, TypeOK, Builders
    <3>5. n <= db[c] /\ db[c] \in Nat BY <1>n, <3>2 DEF TypeOK
    <3> QED BY <2>1, <3>2, <3>3, <3>4, <3>5, SinceFreed
  <2>6. CASE ~ (v = "org_" /\ c = Company(w))
    <3>2. Owes(w, v, c, n)' => Owes(w, v, c, n)
      BY <2>0, <1>14, <2>6, <2>b DEF JsonFails, jobVars, Owes, AfterUsers, AfterTree, Goto,
          TypeOK, Op, Company
    <3>3. Since(v, c, n) BY <2>1, <3>2, OthersOwe DEF NotedInv
    <3>4. <<v, c>> \in adrift => <<v, c>> \in adrift'
      BY <1>14, <2>6, <2>b DEF JsonFails, Lose
    <3>5. \/ cache'[<<v, c>>] = cache[<<v, c>>]
          \/ cache'[<<v, c>>] = Absent \/ cache'[<<v, c>>] >= n \/ <<v, c>> \in adrift'
      BY <1>14, <2>6, <2>b, <3>3, <3>4 DEF JsonFails, TypeOK
    <3>6. Storing(w, v, c)' => (Storing(w, v, c) /\ snap'[w] = snap[w]) \/ snap'[w] >= n
      BY <2>0, <1>14, <2>6, <2>b, <1>n DEF JsonFails, Storing, Goto, TypeOK, Op, Company, Builds
    <3> QED BY <2>1, <3>3, <3>4, <3>5, <3>6, SinceQuiet
  <2> QED BY <2>5, <2>6
<1>15. ASSUME NEW w \in Workers, BeginHeader(w) PROVE Since(v, c, n)'
  <2>0. serving' = serving /\ ask' = ask BY <1>15 DEF BeginHeader, jobVars
  <2>1. SameBut(w) BY <1>15, OwnStep
  <2>2. Owes(w, v, c, n)' => Owes(w, v, c, n)
    BY <2>0, <1>15 DEF BeginHeader, jobVars, Owes, AfterUsers, AfterTree, Go, After,
        Refreshing, TypeOK, Op, Company
  <2>3. Since(v, c, n) BY <2>1, <2>2, OthersOwe DEF NotedInv
  <2>4. <<v, c>> \in adrift => <<v, c>> \in adrift'
    BY <1>15 DEF BeginHeader
  <2>5. \/ cache'[<<v, c>>] = cache[<<v, c>>]
        \/ cache'[<<v, c>>] = Absent \/ cache'[<<v, c>>] >= n \/ <<v, c>> \in adrift'
    BY <1>15, <2>3, <2>4 DEF BeginHeader, TypeOK
  <2>6. Storing(w, v, c)' => (Storing(w, v, c) /\ snap'[w] = snap[w]) \/ snap'[w] >= n
    BY <2>0, <1>15, <1>n DEF BeginHeader, Storing, Go, After, Refreshing, TypeOK, Op, Company,
        Builds
  <2> QED BY <2>1, <2>3, <2>4, <2>5, <2>6, SinceQuiet
<1>16. ASSUME NEW w \in Workers, EndHeader(w) PROVE Since(v, c, n)'
  <2>0. serving' = serving /\ ask' = ask BY <1>16 DEF EndHeader, jobVars
  <2>1. SameBut(w) BY <1>16, OwnStep
  <2>2. Owes(w, v, c, n)' => Owes(w, v, c, n)
    BY <2>0, <1>16 DEF EndHeader, jobVars, Owes, AfterUsers, AfterTree, Go, After, Refreshing,
        TypeOK, Op, Company
  <2>3. Since(v, c, n) BY <2>1, <2>2, OthersOwe DEF NotedInv
  <2>4. <<v, c>> \in adrift => <<v, c>> \in adrift'
    BY <1>16 DEF EndHeader
  <2>5. \/ cache'[<<v, c>>] = cache[<<v, c>>]
        \/ cache'[<<v, c>>] = Absent \/ cache'[<<v, c>>] >= n \/ <<v, c>> \in adrift'
    BY <1>16, <2>3, <2>4 DEF EndHeader, TypeOK
  <2>6. Storing(w, v, c)' => (Storing(w, v, c) /\ snap'[w] = snap[w]) \/ snap'[w] >= n
    BY <2>0, <1>16, <1>n DEF EndHeader, Storing, Go, After, Refreshing, TypeOK, Op, Company,
        Builds
  <2> QED BY <2>1, <2>3, <2>4, <2>5, <2>6, SinceQuiet
<1>17. ASSUME NEW w \in Workers, Copy(w) PROVE Since(v, c, n)'
  <2>0. serving' = serving /\ ask' = ask BY <1>17 DEF Copy, jobVars
  <2>1. SameBut(w) BY <1>17, OwnStep
  <2>2. Owes(w, v, c, n)' => Owes(w, v, c, n)
    BY <2>0, <1>17 DEF Copy, jobVars, Owes, AfterUsers, AfterTree, Go, After, Refreshing,
        TypeOK, Op, Company
  <2>3. Since(v, c, n) BY <2>1, <2>2, OthersOwe DEF NotedInv
  <2>4. <<v, c>> \in adrift => <<v, c>> \in adrift'
    BY <1>17 DEF Copy
  <2>5. \/ cache'[<<v, c>>] = cache[<<v, c>>]
        \/ cache'[<<v, c>>] = Absent \/ cache'[<<v, c>>] >= n \/ <<v, c>> \in adrift'
    BY <1>17, <2>3, <2>4 DEF Copy, TypeOK
  <2>6. Storing(w, v, c)' => (Storing(w, v, c) /\ snap'[w] = snap[w]) \/ snap'[w] >= n
    BY <2>0, <1>17, <1>n DEF Copy, Storing, Go, After, Refreshing, TypeOK, Op, Company, Builds
  <2> QED BY <2>1, <2>3, <2>4, <2>5, <2>6, SinceQuiet
<1>18. ASSUME NEW w \in Workers, Post(w) PROVE Since(v, c, n)'
  <2>0. serving' = serving /\ ask' = ask BY <1>18 DEF Post, jobVars
  <2>1. SameBut(w) BY <1>18, OwnStep
  <2>2. Owes(w, v, c, n)' => Owes(w, v, c, n)
    BY <2>0, <1>18 DEF Post, jobVars, Owes, AfterUsers, AfterTree, Go, After, Refreshing,
        TypeOK, Op, Company
  <2>3. Since(v, c, n) BY <2>1, <2>2, OthersOwe DEF NotedInv
  <2>4. <<v, c>> \in adrift => <<v, c>> \in adrift'
    BY <1>18 DEF Post
  <2>5. \/ cache'[<<v, c>>] = cache[<<v, c>>]
        \/ cache'[<<v, c>>] = Absent \/ cache'[<<v, c>>] >= n \/ <<v, c>> \in adrift'
    BY <1>18, <2>3, <2>4 DEF Post, TypeOK
  <2>6. Storing(w, v, c)' => (Storing(w, v, c) /\ snap'[w] = snap[w]) \/ snap'[w] >= n
    BY <2>0, <1>18, <1>n DEF Post, Storing, Go, After, Refreshing, TypeOK, Op, Company, Builds
  <2> QED BY <2>1, <2>3, <2>4, <2>5, <2>6, SinceQuiet
<1>19. ASSUME NEW w \in Workers, PostTorn(w) PROVE Since(v, c, n)'
  <2>0. serving' = serving /\ ask' = ask BY <1>19 DEF PostTorn, jobVars
  <2>1. SameBut(w) BY <1>19, OwnStep
  <2>2. Owes(w, v, c, n)' => Owes(w, v, c, n)
    BY <2>0, <1>19 DEF PostTorn, jobVars, Owes, AfterUsers, AfterTree, Go, After, Refreshing,
        TypeOK, Op, Company
  <2>3. Since(v, c, n) BY <2>1, <2>2, OthersOwe DEF NotedInv
  <2>4. <<v, c>> \in adrift => <<v, c>> \in adrift'
    BY <1>19 DEF PostTorn
  <2>5. \/ cache'[<<v, c>>] = cache[<<v, c>>]
        \/ cache'[<<v, c>>] = Absent \/ cache'[<<v, c>>] >= n \/ <<v, c>> \in adrift'
    BY <1>19, <2>3, <2>4 DEF PostTorn, TypeOK
  <2>6. Storing(w, v, c)' => (Storing(w, v, c) /\ snap'[w] = snap[w]) \/ snap'[w] >= n
    BY <2>0, <1>19, <1>n DEF PostTorn, Storing, Go, After, Refreshing, TypeOK, Op, Company,
        Builds
  <2> QED BY <2>1, <2>3, <2>4, <2>5, <2>6, SinceQuiet
<1>20. ASSUME NEW w \in Workers, PostFails(w) PROVE Since(v, c, n)'
  <2>0. serving' = serving /\ ask' = ask BY <1>20 DEF PostFails, jobVars
  <2>1. SameBut(w) BY <1>20, OwnStep
  <2>2. Owes(w, v, c, n)' => Owes(w, v, c, n)
    BY <2>0, <1>20 DEF PostFails, jobVars, Owes, AfterUsers, AfterTree, Go, After, Refreshing,
        TypeOK, Op, Company
  <2>3. Since(v, c, n) BY <2>1, <2>2, OthersOwe DEF NotedInv
  <2>4. <<v, c>> \in adrift => <<v, c>> \in adrift'
    BY <1>20 DEF PostFails
  <2>5. \/ cache'[<<v, c>>] = cache[<<v, c>>]
        \/ cache'[<<v, c>>] = Absent \/ cache'[<<v, c>>] >= n \/ <<v, c>> \in adrift'
    BY <1>20, <2>3, <2>4 DEF PostFails, TypeOK
  <2>6. Storing(w, v, c)' => (Storing(w, v, c) /\ snap'[w] = snap[w]) \/ snap'[w] >= n
    BY <2>0, <1>20, <1>n DEF PostFails, Storing, Go, After, Refreshing, TypeOK, Op, Company,
        Builds
  <2> QED BY <2>1, <2>3, <2>4, <2>5, <2>6, SinceQuiet
<1>21. ASSUME NEW w \in Workers, Notify(w) PROVE Since(v, c, n)'
  <2>0. serving' = serving /\ ask' = ask BY <1>21 DEF Notify, jobVars
  <2>1. SameBut(w) BY <1>21, OwnStep
  <2>2. Owes(w, v, c, n)' => Owes(w, v, c, n)
    BY <2>0, <1>21 DEF Notify, jobVars, Owes, AfterUsers, AfterTree, Go, After, Refreshing,
        TypeOK, Op, Company
  <2>3. Since(v, c, n) BY <2>1, <2>2, OthersOwe DEF NotedInv
  <2>4. <<v, c>> \in adrift => <<v, c>> \in adrift'
    BY <1>21 DEF Notify
  <2>5. \/ cache'[<<v, c>>] = cache[<<v, c>>]
        \/ cache'[<<v, c>>] = Absent \/ cache'[<<v, c>>] >= n \/ <<v, c>> \in adrift'
    BY <1>21, <2>3, <2>4 DEF Notify, TypeOK
  <2>6. Storing(w, v, c)' => (Storing(w, v, c) /\ snap'[w] = snap[w]) \/ snap'[w] >= n
    BY <2>0, <1>21, <1>n DEF Notify, Storing, Go, After, Refreshing, TypeOK, Op, Company, Builds
  <2> QED BY <2>1, <2>3, <2>4, <2>5, <2>6, SinceQuiet
<1>22. ASSUME Crash PROVE Since(v, c, n)'
  BY <1>n, <1>22 DEF Crash
<1>23. ASSUME UNCHANGED vars PROVE Since(v, c, n)'
  <2>1. Owes(x, v, c, n) BY <1>23 DEF vars, jobVars, Owes, Company, Op
  <2>2. Since(v, c, n) BY <2>1 DEF NotedInv
  <2>3. ASSUME NEW o \in Workers, Storing(o, v, c)' PROVE snap'[o] >= n \/ <<v, c>> \in adrift'
    BY <1>23, <2>2, <2>3 DEF vars, jobVars, Since, Storing, Company, Builds, Op
  <2> QED BY <1>23, <2>2, <2>3 DEF vars, Since
<1> QED BY [Next]_vars, <1>1, <1>2, <1>3, <1>4, <1>5, <1>6, <1>7, <1>8, <1>9, <1>10, <1>11,
    <1>12, <1>13, <1>14, <1>15, <1>16, <1>17, <1>18, <1>19, <1>20, <1>21, <1>22, <1>23, <1>24
  DEF Next, Done

-----------------------------------------------------------------------------
(* The theorems.                                                           *)

LEMMA Inductive == Spec => []IndInv
<1>1. Init => IndInv
  <2> SUFFICES ASSUME Init PROVE IndInv
    OBVIOUS
  <2>1. TypeOK
    <3>1. crashes \in 0 .. MaxCrashes BY OrgAssumption DEF Init
    <3>2. pc \in [Workers -> Steps] /\ \A w \in Workers : pc[w] = "idle" BY DEF Init, Steps
    <3>3. buf \in Headers /\ header \in [Workers -> Headers] BY DEF Init, Headers
    <3>4. /\ web \in [Companies -> Nat \cup {Garbage}]
          /\ cache \in [Values \X Companies -> Nat \cup {Absent}]
      BY DEF Init
    <3>5. adrift \subseteq Values \X Companies /\ webAdrift \subseteq Companies BY DEF Init
    <3>6. /\ ask \in Loads /\ db \in [Companies -> Nat] /\ doc \in [Companies -> Nat] /\ waiting \subseteq Requests
          /\ serving \in [Workers -> Requests \cup {NoRequest}] /\ snap \in [Workers -> Nat]
          /\ mixed \in BOOLEAN /\ torn \in BOOLEAN /\ mine \in [Workers -> Nat]
      BY DEF Init
    <3> QED BY <3>1, <3>2, <3>3, <3>4, <3>5, <3>6 DEF TypeOK
  <2>2. OpInv BY DEF Init, OpInv, OpAt
  <2>3. CacheInv BY DEF Init, CacheInv, CacheAt, Stale, Spoils, Storing
  <2>4. WebInv BY DEF Init, WebInv, WebAt, Misleads, Posting
  <2>5. HeaderInv BY DEF Init, HeaderInv, Using
  <2>6. NotedInv BY DEF Init, NotedInv, Owes, AfterUsers, AfterTree
  <2> QED BY <2>1, <2>2, <2>3, <2>4, <2>5, <2>6 DEF IndInv
<1>2. IndInv /\ [Next]_vars => IndInv'
  BY TypeStep, OpStep, CacheStep, WebStep, HeaderStep, NotedStep DEF IndInv
<1> QED BY <1>1, <1>2, PTL DEF Spec

\* Every variable keeps its type.
THEOREM TypeCorrect == Spec => []TypeOK
BY Inductive, PTL DEF IndInv

\* A stale tree or list of users in redis has a handler that is about to
\* delete it or to build it again, but for the known losses.
THEOREM RedisIsCurrent == Spec => []RedisCurrent
<1>1. IndInv => RedisCurrent
  BY DEF IndInv, CacheInv, CacheAt, RedisCurrent
<1> QED BY <1>1, Inductive, PTL

\* A stale copy of the web server has a handler that is about to post it
\* again, but for the known losses, the cards users change among them.
THEOREM WebIsCurrent == Spec => []WebCurrent
<1>1. IndInv => WebCurrent
  BY DEF IndInv, WebInv, WebAt, Renews, Reselects, WebCurrent
<1> QED BY <1>1, Inductive, PTL

\* A body goes out behind another header only after two workers were at the
\* static buffer at the same time.
THEOREM HeadersAreOwn == Spec => []NobodysHeader
<1>1. IndInv => NobodysHeader
  BY DEF IndInv, HeaderInv, NobodysHeader, TypeOK
<1> QED BY <1>1, Inductive, PTL

\* When the others are told of a change, what they will read in redis is not
\* older than that change, but for the known losses.
THEOREM NotedIsStored == Spec => []NotifiedOfStored
<1>1. IndInv => NotifiedOfStored
  <2> SUFFICES ASSUME IndInv, NEW w \in Workers, pc[w] = "notify", NEW v \in Values
               PROVE  LET k == <<v, Company(w)>> IN
                      cache[k] = Absent \/ cache[k] >= mine[w] \/ k \in adrift
    BY DEF NotifiedOfStored
  <2>1. Company(w) \in Companies /\ mine[w] \in Nat
    BY Served DEF IndInv, TypeOK
  <2>2. Op(w) \notin Builders BY DEF IndInv, OpInv, OpAt
  <2>3. Owes(w, v, Company(w), mine[w])
    BY <2>2 DEF Owes, AfterUsers, AfterTree, Values
  <2>4. Since(v, Company(w), mine[w]) BY <2>1, <2>3 DEF IndInv, NotedInv
  <2> QED BY <2>4 DEF Since
<1> QED BY <1>1, Inductive, PTL
=============================================================================

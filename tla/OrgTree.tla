------------------------------- MODULE OrgTree -------------------------------
(***************************************************************************)
(* The organisation of a company and its three copies.  The web back end   *)
(* changes departments, positions and users over HTTP; the rows are in     *)
(* MySQL (mostly behind stored procedures), redis holds the tree (org_)    *)
(* and the users (cul_), the web server a JSON of everything, and the      *)
(* other servers are told over the status link.                            *)
(* A handler that has changed rows deletes both values of redis, selects   *)
(* the JSON, posts it, selects the tree again, stores it, and notifies.    *)
(* cul_ is built only when another server asks (update_user_id).  The      *)
(* header of the post is printed into one static buffer of all workers.    *)
(*                                                                         *)
(* A handler is straight-line code: it is at a step, and After says which  *)
(* comes next.  The rows of a company are represented by how often they    *)
(* have changed: those the values of redis are made of, and those of the   *)
(* JSON, which also holds the name, sex, mail and phone of the cards.      *)
(* These the clients themselves change (set_user_info), and nobody posts.  *)
(***************************************************************************)
EXTENDS Integers, Sequences

CONSTANTS Workers, Companies,
          Requests, NoRequest,
          Loads,          \* what the requests may be: [op, company] of each
          Failures,       \* which of "mysql", "redis" and "web" may fail
          MaxCrashes      \* bound: how often the process may be killed

Absent == -1
Garbage == -1
Values == {"org_", "cul_"}
Ops == {"procedure", "update", "add_user", "del_user", "build_org_", "build_cul_", "card"}

ASSUME OrgAssumption ==
  /\ NoRequest \notin Requests /\ MaxCrashes \in Nat
  /\ Loads \subseteq [Requests -> [op : Ops, company : Companies]]

VARIABLES
  ask,       \* the load of this behaviour
  db,        \* MySQL: the state of the rows of each company redis has values of
  doc,       \* MySQL: the state of the rows its JSON is made of
  cache,     \* redis: the state each value was built from, or Absent
  web,       \* the web server: the state of its copy of each company
  waiting, serving,
  pc,        \* the step a worker is at
  snap,      \* the state a worker has selected last
  buf,       \* the static buffer: <<w>> while w alone prints into it,
             \* <<company, state>> with a header of that body, <<>> garbage
  header,    \* the header a worker has copied out of the buffer
  adrift,    \* history: values of redis nobody is going to repair
  webAdrift, \* history: companies whose copy nobody is going to repair
  mixed,     \* history: a header was printed while another one was in use
  torn,      \* history: a body was posted behind a header that is not its own
  mine,      \* history: the state a worker's change led to
  crashes

jobVars == <<ask, waiting, serving, mine>>
bufVars == <<buf, header, mixed>>
vars == <<db, doc, cache, web, jobVars, pc, snap, bufVars, adrift, webAdrift, torn, crashes>>

-----------------------------------------------------------------------------
(* The handlers.                                                           *)

Steps == {"idle", "change", "result", "title", "groups", "del org_", "del cul_", "json", "print",
          "printing", "copy", "post", "select", "store", "notify", "card"}
Builders == {"build_org_", "build_cul_"}

First(op) ==
  IF op \in Builders THEN "select" ELSE IF op = "card" THEN "card" ELSE "change"

\* http_add_company, http_modify_company_info, http_add_department,
\* http_del_department, http_add_user_title, http_del_user_title and
\* http_mov_node call a procedure and then select the value it returned;
\* http_modify_department_info, http_modify_user_info and
\* http_modify_user_title run one update.  http_add_user gives a further title
\* to the new user, http_del_user selects the groups the user was in.
Changing(op, s) ==
  IF s = "change" /\ op # "update" THEN "result"
  ELSE IF s = "result" /\ op = "add_user" THEN "title"
  ELSE IF s = "result" /\ op = "del_user" THEN "groups"
  ELSE "del org_"

\* org_refresh_redis, http_req_refresh_company_org, org_update_notify_req; a
\* build selects and stores.
Refreshing(op, s) ==
  IF s = "del org_" THEN "del cul_" ELSE IF s = "del cul_" THEN "json"
  ELSE IF s = "json" THEN "print" ELSE IF s = "print" THEN "printing"
  ELSE IF s = "printing" THEN "copy" ELSE IF s = "copy" THEN "post"
  ELSE IF s = "post" THEN "select" ELSE IF s = "select" THEN "store"
  ELSE IF s = "store" /\ op \notin Builders THEN "notify"
  ELSE "idle"

\* Mutants: cul_ is forgotten; the header is made before its body; the others
\* are told first; the further title is given after the copies were made.
After_KeepsCul(op, s) ==
  IF s = "del org_" THEN "json"
  ELSE IF s \in {"change", "result", "title", "groups"} THEN Changing(op, s) ELSE Refreshing(op, s)
After_HeaderFirst(op, s) ==
  IF s = "del cul_" THEN "print" ELSE IF s = "printing" THEN "json" ELSE IF s = "json" THEN "copy"
  ELSE IF s \in {"change", "result", "title", "groups"} THEN Changing(op, s) ELSE Refreshing(op, s)
After_NotifyFirst(op, s) ==
  IF s = "notify" THEN "del org_" ELSE IF s = "store" THEN "idle"
  ELSE IF s \notin {"change", "result", "title", "groups"} THEN Refreshing(op, s)
  ELSE IF Changing(op, s) = "del org_" THEN "notify" ELSE Changing(op, s)
After_TitleLast(op, s) ==
  IF s = "notify" /\ op = "add_user" THEN "title" ELSE IF s = "title" THEN "idle"
  ELSE IF s = "result" /\ op = "add_user" THEN "del org_"
  ELSE IF s \in {"change", "result", "groups"} THEN Changing(op, s) ELSE Refreshing(op, s)

After(op, s) ==
  IF s \in {"change", "result", "title", "groups"} THEN Changing(op, s) ELSE Refreshing(op, s)

-----------------------------------------------------------------------------
Op(w) == ask[serving[w]].op
Company(w) == ask[serving[w]].company
Builds(w) == IF Op(w) = "build_cul_" THEN "cul_" ELSE "org_"

Headers == (Companies \X Nat) \cup {<<>>}

TypeOK ==
  /\ ask \in Loads
  /\ db \in [Companies -> Nat] /\ doc \in [Companies -> Nat]
  /\ cache \in [Values \X Companies -> Nat \cup {Absent}]
  /\ web \in [Companies -> Nat \cup {Garbage}]
  /\ waiting \subseteq Requests
  /\ serving \in [Workers -> Requests \cup {NoRequest}]
  /\ pc \in [Workers -> Steps]
  /\ \A w \in Workers : pc[w] # "idle" => serving[w] \in Requests
  /\ snap \in [Workers -> Nat]
  /\ buf \in Headers \cup {<<w>> : w \in Workers}
  /\ header \in [Workers -> Headers \cup {<<w>> : w \in Workers}]
  /\ adrift \subseteq Values \X Companies /\ webAdrift \subseteq Companies
  /\ mixed \in BOOLEAN /\ torn \in BOOLEAN
  /\ mine \in [Workers -> Nat]
  /\ crashes \in 0 .. MaxCrashes

Init ==
  /\ ask \in Loads
  /\ db = [c \in Companies |-> 0] /\ doc = [c \in Companies |-> 0]
  /\ cache = [k \in Values \X Companies |-> Absent]
  /\ web = [c \in Companies |-> 0]
  /\ waiting = Requests
  /\ serving = [w \in Workers |-> NoRequest]
  /\ pc = [w \in Workers |-> "idle"]
  /\ snap = [w \in Workers |-> 0]
  /\ buf = <<>>
  /\ header = [w \in Workers |-> <<>>]
  /\ adrift = {} /\ webAdrift = {}
  /\ mixed = FALSE /\ torn = FALSE
  /\ mine = [w \in Workers |-> 0]
  /\ crashes = 0

\* The steps from which a handler that has changed rows still comes to the
\* deletes, to the JSON and to the build.
BeforeTree == {"result", "title", "groups", "del org_"}
BeforeUsers == BeforeTree \cup {"del cul_"}
BeforeJson == BeforeUsers \cup {"json"}
BeforeSelect == BeforeJson \cup {"print", "printing", "copy", "post", "select"}

\* Does w still select the JSON of company c and post it?
Reselects(w, c) == pc[w] \in BeforeJson /\ Company(w) = c

\* Has another worker selected v of company c before its last change, and not
\* stored it yet?  The same of the JSON.
Storing(w, v, c) == pc[w] = "store" /\ Company(w) = c /\ Builds(w) = v
OldStore(w, v, c) == \E o \in Workers \ {w} : Storing(o, v, c) /\ snap[o] # db[c]

Posting(w, c) ==
  pc[w] \in {"print", "printing", "copy", "post"} /\ Company(w) = c
OldPost(w, c) == \E o \in Workers \ {w} : Posting(o, c) /\ snap[o] # doc[c]

Go(w) == pc' = [pc EXCEPT ![w] = After(Op(w), pc[w])]
Goto(w, s) == pc' = [pc EXCEPT ![w] = s]

Stale(k) == cache[k] \notin {Absent, db[k[2]]}
Key(w) == <<Builds(w), Company(w)>>

\* w will not do what it had still to do about the values K, or about the web
\* server: what is wrong with them, or about to be, stays.
Lose(w, K) == adrift' = adrift \cup {k \in K : Stale(k) \/ OldStore(w, k[1], k[2])}
LoseWeb(w) ==
  webAdrift' = webAdrift \cup {c \in {Company(w)} : web[c] # doc[c] \/ OldPost(w, c)}

\* w leaves the value k right: only what another has selected can spoil it.
Mend(w, k) == adrift' = (adrift \ {k}) \cup {x \in {k} : OldStore(w, x[1], x[2])}

\* The handler ends early.
Break(w) == Goto(w, "idle") /\ Lose(w, Values \X {Company(w)}) /\ LoseWeb(w)

-----------------------------------------------------------------------------
Receive(w, r) ==
  /\ serving[w] = NoRequest /\ r \in waiting
  /\ waiting' = waiting \ {r}
  /\ serving' = [serving EXCEPT ![w] = r]
  /\ Goto(w, First(ask[r].op))
  /\ mine' = [mine EXCEPT ![w] = 0]
  /\ UNCHANGED <<ask, db, doc, cache, web, snap, bufVars, adrift, webAdrift, torn, crashes>>

\* The handler returns; what it had selected was its own.
Return(w) ==
  /\ serving[w] # NoRequest /\ pc[w] = "idle"
  /\ serving' = [serving EXCEPT ![w] = NoRequest]
  /\ snap' = [snap EXCEPT ![w] = 0]
  /\ header' = [header EXCEPT ![w] = <<>>]
  /\ mine' = [mine EXCEPT ![w] = 0]
  /\ UNCHANGED <<ask, db, doc, cache, web, waiting, pc, buf, mixed, adrift, webAdrift, torn, crashes>>

Change(w) ==
  /\ pc[w] = "change" \/ pc[w] = "title"
  /\ db' = [db EXCEPT ![Company(w)] = @ + 1]
  /\ doc' = [doc EXCEPT ![Company(w)] = @ + 1]
  /\ mine' = [mine EXCEPT ![w] = db'[Company(w)]]
  /\ Go(w)
  /\ UNCHANGED <<ask, cache, web, waiting, serving, snap, bufVars, adrift, webAdrift, torn, crashes>>

\* set_user_info: one update of the card.  Nobody posts; only who has changed the
\* tree and is still to select the JSON will.
CardChange(w) ==
  /\ pc[w] = "card"
  /\ doc' = [doc EXCEPT ![Company(w)] = @ + 1]
  /\ webAdrift' = webAdrift \cup {c \in {Company(w)} : ~ \E o \in Workers : Reselects(o, c)}
  /\ Go(w)
  /\ UNCHANGED <<db, cache, web, jobVars, snap, bufVars, adrift, torn, crashes>>

\* The procedure refuses or the statement fails: "fail" is answered.  A title
\* that cannot be given is left out.
ChangeFails(w) ==
  /\ \/ pc[w] \in {"change", "card"} /\ Goto(w, "idle")
     \/ pc[w] = "title" /\ Go(w)
  /\ UNCHANGED <<db, doc, cache, web, jobVars, snap, bufVars, adrift, webAdrift, torn, crashes>>

Query(w) ==
  /\ pc[w] = "result" \/ pc[w] = "groups"
  /\ Go(w)
  /\ UNCHANGED <<db, doc, cache, web, jobVars, snap, bufVars, adrift, webAdrift, torn, crashes>>

\* "fail" is answered although the rows have changed.
QueryFails(w) ==
  /\ "mysql" \in Failures
  /\ pc[w] = "result" \/ pc[w] = "groups"
  /\ Break(w)
  /\ UNCHANGED <<db, doc, cache, web, jobVars, snap, bufVars, torn, crashes>>

-----------------------------------------------------------------------------
(* redis                                                                    *)

Deleting(w, v) == (v = "org_" /\ pc[w] = "del org_") \/ (v = "cul_" /\ pc[w] = "del cul_")

Delete(w, v) ==
  /\ Deleting(w, v)
  /\ cache' = [cache EXCEPT ![<<v, Company(w)>>] = Absent]
  /\ Mend(w, <<v, Company(w)>>)
  /\ Go(w)
  /\ UNCHANGED <<db, doc, web, jobVars, snap, bufVars, webAdrift, torn, crashes>>

DeleteLost(w, v) ==
  /\ "redis" \in Failures /\ Deleting(w, v)
  /\ Lose(w, {<<v, Company(w)>>})
  /\ Go(w)
  /\ UNCHANGED <<db, doc, cache, web, jobVars, snap, bufVars, webAdrift, torn, crashes>>

\* redis_org_tree, redis_user_id
Select(w) ==
  /\ pc[w] = "select"
  /\ snap' = [snap EXCEPT ![w] = db[Company(w)]]
  /\ Go(w)
  /\ UNCHANGED <<db, doc, cache, web, jobVars, bufVars, adrift, webAdrift, torn, crashes>>

\* The value is as good as it was.
SelectFails(w) ==
  /\ "mysql" \in Failures /\ pc[w] = "select"
  /\ Goto(w, After(Op(w), "store"))
  /\ Lose(w, {Key(w)})
  /\ UNCHANGED <<db, doc, cache, web, jobVars, snap, bufVars, webAdrift, torn, crashes>>

Store(w) ==
  /\ pc[w] = "store"
  /\ cache' = [cache EXCEPT ![Key(w)] = snap[w]]
  /\ IF snap[w] = db[Company(w)] THEN Mend(w, Key(w)) ELSE UNCHANGED adrift
  /\ Go(w)
  /\ UNCHANGED <<db, doc, web, jobVars, snap, bufVars, webAdrift, torn, crashes>>

StoreLost(w) ==
  /\ "redis" \in Failures /\ pc[w] = "store"
  /\ Lose(w, {Key(w)})
  /\ Go(w)
  /\ UNCHANGED <<db, doc, cache, web, jobVars, snap, bufVars, webAdrift, torn, crashes>>

-----------------------------------------------------------------------------
(* The copy of the web server: http_req_refresh_company_org                *)

Json(w) ==
  /\ pc[w] = "json"
  /\ snap' = [snap EXCEPT ![w] = doc[Company(w)]]
  /\ Go(w)
  /\ UNCHANGED <<db, doc, cache, web, jobVars, bufVars, adrift, webAdrift, torn, crashes>>

\* Nothing is posted and org_ is not built; the others are told all the same.
JsonFails(w) ==
  /\ "mysql" \in Failures /\ pc[w] = "json"
  /\ Goto(w, "notify")
  /\ Lose(w, {<<"org_", Company(w)>>}) /\ LoseWeb(w)
  /\ UNCHANGED <<db, doc, cache, web, jobVars, snap, bufVars, torn, crashes>>

\* Between its sprintf and its copy of the buffer a worker uses the buffer.
BufferInUse(w) == \E o \in Workers \ {w} : pc[o] = "printing" \/ pc[o] = "copy"
Printing(w) == \E o \in Workers \ {w} : pc[o] = "printing"

\* sprintf begins and ends; what two of them leave is one header or a mixture.
BeginHeader(w) ==
  /\ pc[w] = "print"
  /\ Go(w)
  /\ buf' = IF Printing(w) THEN <<>> ELSE <<w>>
  /\ mixed' = (mixed \/ BufferInUse(w))
  /\ UNCHANGED <<db, doc, cache, web, jobVars, snap, header, adrift, webAdrift, torn, crashes>>

EndHeader(w) ==
  /\ pc[w] = "printing"
  /\ buf' \in {<<Company(w), snap[w]>>} \cup (IF buf = <<w>> THEN {} ELSE {<<>>})
  /\ Go(w)
  /\ UNCHANGED <<db, doc, cache, web, jobVars, snap, header, mixed, adrift, webAdrift, torn, crashes>>

Copy(w) ==
  /\ pc[w] = "copy"
  /\ header' = [header EXCEPT ![w] = buf]
  /\ Go(w)
  /\ UNCHANGED <<db, doc, cache, web, jobVars, snap, buf, mixed, adrift, webAdrift, torn, crashes>>

\* http_send, do_http_connect: the path of the header says whose tree this is,
\* its length where it ends.
Own(w) == header[w] = <<Company(w), snap[w]>>

Post(w) ==
  LET c == Company(w) IN
  /\ pc[w] = "post" /\ Own(w)
  /\ web' = [web EXCEPT ![c] = snap[w]]
  /\ webAdrift' = IF snap[w] # doc[c] THEN webAdrift
                  ELSE (webAdrift \ {c}) \cup {x \in {c} : OldPost(w, x)}
  /\ Go(w)
  /\ UNCHANGED <<db, doc, cache, jobVars, snap, bufVars, adrift, torn, crashes>>

\* With another header the web server refuses the request or takes it for what
\* the header names.
PostTorn(w) ==
  LET named == {c \in Companies : Len(header[w]) = 2 /\ header[w][1] = c} IN
  /\ pc[w] = "post" /\ ~Own(w)
  /\ web' \in {web, [c \in Companies |-> IF c \in named THEN Garbage ELSE web[c]]}
  /\ webAdrift' = webAdrift \cup named \cup {Company(w)}
  /\ torn' = TRUE
  /\ Go(w)
  /\ UNCHANGED <<db, doc, cache, jobVars, snap, bufVars, adrift, crashes>>

\* The connect or the send fails: nobody tries again.
PostFails(w) ==
  /\ "web" \in Failures /\ pc[w] = "post"
  /\ LoseWeb(w)
  /\ Go(w)
  /\ UNCHANGED <<db, doc, cache, web, jobVars, snap, bufVars, adrift, torn, crashes>>

-----------------------------------------------------------------------------
\* org_update_notify_req
Notify(w) ==
  /\ pc[w] = "notify"
  /\ Go(w)
  /\ UNCHANGED <<db, doc, cache, web, jobVars, snap, bufVars, adrift, webAdrift, torn, crashes>>

\* The process is killed; MySQL, redis and the web server are others.
Crash ==
  /\ crashes < MaxCrashes
  /\ crashes' = crashes + 1
  /\ pc' = [w \in Workers |-> "idle"]
  /\ serving' = [w \in Workers |-> NoRequest]
  /\ snap' = [w \in Workers |-> 0]
  /\ header' = [w \in Workers |-> <<>>]
  /\ mine' = [w \in Workers |-> 0]
  /\ buf' = <<>>
  /\ adrift' = adrift \cup {k \in Values \X Companies : Stale(k)}
  /\ webAdrift' = webAdrift \cup {c \in Companies : web[c] # doc[c]}
  /\ UNCHANGED <<ask, db, doc, cache, web, waiting, mixed, torn>>

Done ==
  /\ waiting = {} /\ \A w \in Workers : pc[w] = "idle"
  /\ UNCHANGED vars

Next ==
  \/ \E w \in Workers :
       \/ \E r \in Requests : Receive(w, r)
       \/ Return(w) \/ Change(w) \/ CardChange(w) \/ ChangeFails(w) \/ Query(w) \/ QueryFails(w)
       \/ \E v \in Values : Delete(w, v) \/ DeleteLost(w, v)
       \/ Select(w) \/ SelectFails(w) \/ Store(w) \/ StoreLost(w)
       \/ Json(w) \/ JsonFails(w)
       \/ BeginHeader(w) \/ EndHeader(w) \/ Copy(w) \/ Post(w) \/ PostTorn(w) \/ PostFails(w)
       \/ Notify(w)
  \/ Crash
  \/ Done

Spec == Init /\ [][Next]_vars

-----------------------------------------------------------------------------
(* Properties.                                                              *)

\* Does w still delete, or store the present state of, value v of company c?
Repairs(w, v, c) ==
  /\ pc[w] # "idle" /\ Company(w) = c
  /\ \/ v = "org_" /\ pc[w] \in BeforeTree
     \/ v = "cul_" /\ pc[w] \in BeforeUsers
     \/ Builds(w) = v /\ pc[w] \in BeforeSelect
     \/ Storing(w, v, c) /\ snap[w] = db[c]

\* A tree or a list of users in redis that no longer is what the rows say is
\* about to be deleted or built again by the handler that changed the rows,
\* unless one of the known losses happened: a build that selected before the
\* change and stores behind the deletes, a handler that answered "fail" after
\* its change, a lost command or a crash.
RedisCurrent ==
  \A v \in Values, c \in Companies :
    Stale(<<v, c>>) => <<v, c>> \in adrift \/ \E w \in Workers : Repairs(w, v, c)

\* The copy of the web server, if it no longer is what the rows say, is about to be
\* posted anew, unless one of the same losses happened, a post failed or went out
\* behind a foreign header, or a user has changed a card and no handler of the tree
\* was about to select the JSON.
WebCurrent ==
  \A c \in Companies :
    web[c] # doc[c] =>
      \/ c \in webAdrift
      \/ \E w \in Workers : Reselects(w, c) \/ (Posting(w, c) /\ snap[w] = doc[c])

\* A body goes out behind the header of another company, or behind a mixture,
\* only when two workers were at the static buffer at the same time.
NobodysHeader == torn => mixed

\* When the other servers are told of a change, what they will read in redis
\* is not older than that change, but for the known losses.
NotifiedOfStored ==
  \A w \in Workers : pc[w] = "notify" =>
    \A v \in Values :
      LET k == <<v, Company(w)>> IN cache[k] = Absent \/ cache[k] >= mine[w] \/ k \in adrift
=============================================================================

------------------------------ MODULE FleetTable ------------------------------
(***************************************************************************)
(* The table of the Fleet page (web/handlers/pages.go, datastar.go): a     *)
(* page is rendered from the rows of SQLite, then opens an event stream    *)
(* (HandleFleetSSE) that patches its rows from the entity events of NATS,  *)
(* while the page's own requests answer with patches of their own on a     *)
(* connection of their own.  An event only says which row to look at: the  *)
(* stream reads the row again.                                             *)
(*                                                                         *)
(* A write of a row is named by its tick, and so is what a page shows of   *)
(* it.  A patch addresses every element with the row's id, and an          *)
(* insertion does not look for one (static/lib/datastar.js).               *)
(***************************************************************************)
EXTENDS Naturals, Sequences

CONSTANTS
  Entity,    \* entity ids, each given out once (uuid)
  Page,      \* browser pages, each reloaded at will
  Request,   \* requests served at the same time
  None,      \* no page: where the request of an API client, or of a page left, is from
  MaxTick,   \* bound: writes of rows
  MaxLoad,   \* bound: page loads
  MaxFail    \* bound: failing publications and reads, broken streams

ASSUME FleetAssumption ==
  None \notin Page \cup Entity /\ MaxTick \in Nat /\ MaxLoad \in Nat /\ MaxFail \in Nat

VARIABLES
  tick,     \* last tick given out
  created,  \* ids given out
  db,       \* db[e]: the row of e, 0 if there is none
  pc,       \* the step each request is at
  req,      \* what each request works on
  stream,   \* stream[c]: page not open, open without its stream, or with it
  inbox,    \* events NATS has for the subscription of each page
  hand,     \* the row the stream of each page has read and not yet sent, if any
  shown,    \* the elements of each page with the id of a row
  loads, fails,
  missed    \* history: rows of each page excepted from what is promised below

vars == <<tick, created, db, pc, req, stream, inbox, hand, shown, loads, fails, missed>>

rows     == <<tick, created, db>>
requests == <<pc, req>>
streams  == <<stream, inbox, hand>>

Kind  == {"create", "update", "delete"}
Event == [entity : Entity, type : Kind]
Hand  == [entity : Entity, type : {"create", "update"}, row : Nat]
Work  == [page : Page \cup {None}, entity : Entity, kind : Kind \cup {"view"}, row : Nat]
Elements == [n : Nat, rows : SUBSET Nat]

Absent == [n |-> 0, rows |-> {}]
NoRows == [e \in Entity |-> Absent]

Asked(page, entity, kind, row) ==
  [page |-> page, entity |-> entity, kind |-> kind, row |-> row]
NoRequest == Asked(None, None, "view", 0)

Init ==
  /\ tick = 0 /\ created = {} /\ db = [e \in Entity |-> 0]
  /\ pc = [p \in Request |-> "idle"] /\ req = [p \in Request |-> NoRequest]
  /\ stream = [c \in Page |-> "off"] /\ inbox = [c \in Page |-> <<>>]
  /\ hand = [c \in Page |-> {}] /\ shown = [c \in Page |-> NoRows]
  /\ loads = 0 /\ fails = 0
  /\ missed = [c \in Page |-> {}]

\* What the page shows of the row is the row.
Current(c, e) ==
  IF db[e] = 0 THEN shown[c][e] = Absent
  ELSE shown[c][e].n > 0 /\ shown[c][e].rows = {db[e]}

-----------------------------------------------------------------------------
(* Patches of the elements with the id of a row.                           *)

\* WithModeBefore, on the row of the form
Inserted(elements, row) == [n |-> elements.n + 1, rows |-> elements.rows \cup {row}]

\* Mutation: a patch puts the row where there is none.
Patched_Always(elements, row) == [n |-> elements.n, rows |-> {row}]

\* WithModeOuter or WithModeReplace, on #fleet-row-<id>
Patched(elements, row) ==
  IF elements.n = 0 THEN elements ELSE [n |-> elements.n, rows |-> {row}]

AfterPatch(elements, kind, row) ==
  CASE kind = "create" -> Inserted(elements, row)
    [] kind = "delete" -> Absent
    [] OTHER           -> Patched(elements, row)

-----------------------------------------------------------------------------
(* Requests: of a page's form, buttons and edit row, or of an API client.  *)

\* Pages a request of which has a row of e in hand, to be sent to the page.
Answering(e) ==
  {req[p].page : p \in {q \in Request : pc[q] \in {"publish", "reply"} /\ req[q].entity = e}}

Begin(p, c, e, kind, row, step) ==
  /\ pc[p] = "idle"
  /\ c \in Page => stream[c] # "off"
  /\ pc' = [pc EXCEPT ![p] = step]
  /\ req' = [req EXCEPT ![p] = Asked(c, e, kind, row)]
  /\ UNCHANGED <<streams, shown, loads, fails>>

\* Except what an answer on its way may overwrite with an older row.
Write(e, row) ==
  /\ db' = [db EXCEPT ![e] = row]
  /\ missed' = [c \in Page |-> IF c \in Answering(e) THEN missed[c] \cup {e} ELSE missed[c]]

\* HandleCreateFleetEntity
Create(p, c, e) ==
  /\ e \notin created /\ tick < MaxTick
  /\ tick' = tick + 1
  /\ created' = created \cup {e}
  /\ Write(e, tick + 1)
  /\ Begin(p, c, e, "create", tick + 1, "publish")

\* Mutation: the answer shows the row as it was before it is updated.
Update_ReadBefore(p, c, e) ==
  /\ db[e] # 0 /\ tick < MaxTick
  /\ tick' = tick + 1
  /\ Write(e, tick + 1)
  /\ Begin(p, c, e, "update", db[e], "publish")
  /\ UNCHANGED created

\* HandleUpdateFleetEntity; UpdateEntity reads back the row it has updated
Update(p, c, e) ==
  /\ db[e] # 0 /\ tick < MaxTick
  /\ tick' = tick + 1
  /\ Write(e, tick + 1)
  /\ Begin(p, c, e, "update", 0, "reread")
  /\ UNCHANGED created

\* HandleDeleteFleetEntity
Delete(p, c, e) ==
  /\ db[e] # 0
  /\ Write(e, 0)
  /\ Begin(p, c, e, "delete", 0, "publish")
  /\ UNCHANGED <<tick, created>>

\* HandleFleetEdit, HandleFleetCancel: the row is read and shown, as a form or
\* as it was.
View(p, c, e) ==
  /\ c # None /\ db[e] # 0
  /\ Begin(p, c, e, "view", db[e], "reply")
  /\ UNCHANGED <<rows, missed>>

Continue(p, step) ==
  /\ pc' = [pc EXCEPT ![p] = step]
  /\ UNCHANGED <<rows, loads>>

End(p) ==
  /\ req' = [req EXCEPT ![p] = NoRequest]
  /\ Continue(p, "idle")

Reread(p) ==
  /\ pc[p] = "reread" /\ db[req[p].entity] # 0
  /\ req' = [req EXCEPT ![p] = Asked(@.page, @.entity, @.kind, db[@.entity])]
  /\ Continue(p, "publish")
  /\ UNCHANGED <<streams, shown, fails, missed>>

RereadNotFound(p) ==
  /\ pc[p] = "reread" /\ db[req[p].entity] = 0
  /\ End(p)
  /\ UNCHANGED <<streams, shown, fails, missed>>

\* A page whose stream is not open does not get the event, which matters if it
\* does not show the row already.
Publish(p) ==
  /\ pc[p] = "publish"
  /\ LET e == req[p].entity IN
     /\ inbox' = [c \in Page |->
                    IF stream[c] = "live"
                    THEN Append(inbox[c], [entity |-> e, type |-> req[p].kind]) ELSE inbox[c]]
     /\ missed' = [c \in Page |->
                     IF stream[c] = "loaded" /\ ~Current(c, e)
                     THEN missed[c] \cup {e} ELSE missed[c]]
  /\ Continue(p, "reply")
  /\ UNCHANGED <<req, stream, hand, shown, fails>>

\* The request ends with an error, and the row stays as it has been written.
PublishFails(p) ==
  /\ pc[p] = "publish" /\ fails < MaxFail
  /\ fails' = fails + 1
  /\ missed' = [c \in Page |-> missed[c] \cup {req[p].entity}]
  /\ End(p)
  /\ UNCHANGED <<streams, shown>>

\* The answer patches the page the request came from.
Reply(p) ==
  /\ pc[p] = "reply"
  /\ LET r == req[p] IN
     shown' = [c \in Page |->
                 IF c = r.page
                 THEN [shown[c] EXCEPT ![r.entity] = AfterPatch(@, r.kind, r.row)]
                 ELSE shown[c]]
  /\ End(p)
  /\ UNCHANGED <<streams, fails, missed>>

\* The key of the entity or the organizations' names cannot be had: an error
\* is answered, and nothing is patched.
ReplyFails(p) ==
  /\ pc[p] = "reply" /\ fails < MaxFail
  /\ fails' = fails + 1
  /\ End(p)
  /\ UNCHANGED <<streams, shown, missed>>

-----------------------------------------------------------------------------
(* Pages and their streams.                                                *)

Unasked(r) == Asked(None, r.entity, r.kind, r.row)

\* HandleFleetPage: a load is a new page; answers to the former one are lost.
Load(c) ==
  /\ loads < MaxLoad
  /\ loads' = loads + 1
  /\ stream' = [stream EXCEPT ![c] = "loaded"]
  /\ inbox' = [inbox EXCEPT ![c] = <<>>] /\ hand' = [hand EXCEPT ![c] = {}]
  /\ shown' = [shown EXCEPT ![c] = [e \in Entity |->
                 IF db[e] = 0 THEN Absent ELSE [n |-> 1, rows |-> {db[e]}]]]
  /\ req' = [p \in Request |-> IF req[p].page = c THEN Unasked(req[p]) ELSE req[p]]
  /\ missed' = [missed EXCEPT ![c] = {}]
  /\ UNCHANGED <<rows, pc, fails>>

\* HandleFleetSSE: only what is published from now on is delivered.
Subscribe(c) ==
  /\ stream[c] = "loaded"
  /\ stream' = [stream EXCEPT ![c] = "live"]
  /\ UNCHANGED <<rows, requests, inbox, hand, shown, loads, fails, missed>>

Undelivered(c) == {inbox[c][i].entity : i \in DOMAIN inbox[c]} \cup {h.entity : h \in hand[c]}

\* The connection breaks and the subscription ends with it; the page opens
\* another one, and is not rendered again.
Break(c) ==
  /\ stream[c] = "live" /\ fails < MaxFail
  /\ fails' = fails + 1
  /\ stream' = [stream EXCEPT ![c] = "loaded"]
  /\ inbox' = [inbox EXCEPT ![c] = <<>>] /\ hand' = [hand EXCEPT ![c] = {}]
  /\ missed' = [missed EXCEPT ![c] = @ \cup {e \in Undelivered(c) : ~Current(c, e)}]
  /\ UNCHANGED <<rows, requests, shown, loads>>

NextEvent(c) == Head(inbox[c])

Take(c) ==
  /\ inbox[c] # <<>> /\ hand[c] = {}
  /\ inbox' = [inbox EXCEPT ![c] = Tail(@)]
  /\ UNCHANGED <<rows, requests, stream, loads>>

\* Mutation: the row of an update is taken to be known already.
StreamRead_CreatedOnly(c) ==
  /\ Take(c)
  /\ NextEvent(c).type # "delete"
  /\ LET e == NextEvent(c).entity IN
     hand' = [hand EXCEPT ![c] =
                IF db[e] = 0 \/ NextEvent(c).type = "update" THEN {}
                ELSE {[entity |-> e, type |-> NextEvent(c).type, row |-> db[e]]}]
  /\ UNCHANGED <<shown, fails, missed>>

\* created and updated: the row is read, and nothing is done if it is gone
StreamRead(c) ==
  /\ Take(c)
  /\ NextEvent(c).type # "delete"
  /\ LET e == NextEvent(c).entity IN
     hand' = [hand EXCEPT ![c] =
                IF db[e] = 0 THEN {}
                ELSE {[entity |-> e, type |-> NextEvent(c).type, row |-> db[e]]}]
  /\ UNCHANGED <<shown, fails, missed>>

\* The row or the organizations cannot be read: the event is dropped.
StreamReadFails(c) ==
  /\ Take(c)
  /\ NextEvent(c).type # "delete" /\ fails < MaxFail
  /\ fails' = fails + 1
  /\ missed' = [missed EXCEPT ![c] = @ \cup {NextEvent(c).entity}]
  /\ UNCHANGED <<hand, shown>>

StreamPatch(c) ==
  /\ \E h \in hand[c] : shown' = [shown EXCEPT ![c][h.entity] = AfterPatch(@, h.type, h.row)]
  /\ hand' = [hand EXCEPT ![c] = {}]
  /\ UNCHANGED <<rows, requests, stream, inbox, loads, fails, missed>>

StreamRemove(c) ==
  /\ Take(c)
  /\ NextEvent(c).type = "delete"
  /\ shown' = [shown EXCEPT ![c][NextEvent(c).entity] = Absent]
  /\ UNCHANGED <<hand, fails, missed>>

-----------------------------------------------------------------------------
Start(p) ==
  \E c \in Page \cup {None}, e \in Entity :
    Create(p, c, e) \/ Update(p, c, e) \/ Delete(p, c, e) \/ View(p, c, e)

Step(p) ==
  \/ Reread(p) \/ RereadNotFound(p) \/ Publish(p) \/ PublishFails(p)
  \/ Reply(p) \/ ReplyFails(p)

Stream(c) == StreamRead(c) \/ StreamReadFails(c) \/ StreamPatch(c) \/ StreamRemove(c)

Next ==
  \/ \E p \in Request : Start(p) \/ Step(p)
  \/ \E c \in Page : Load(c) \/ Subscribe(c) \/ Break(c) \/ Stream(c)

Spec == Init /\ [][Next]_vars

\* Requests are served, a page opens its stream, and the stream is read.
Fairness ==
  /\ \A p \in Request : WF_vars(Step(p))
  /\ \A c \in Page : WF_vars(Subscribe(c)) /\ WF_vars(Stream(c))

FairSpec == Spec /\ Fairness

-----------------------------------------------------------------------------
(* Properties.                                                             *)

\* Every variable has its type; a page shows no version of a row it has no
\* element for.
TypeOK ==
  /\ tick \in Nat /\ created \subseteq Entity /\ db \in [Entity -> Nat]
  /\ pc \in [Request -> {"idle", "reread", "publish", "reply"}]
  /\ req \in [Request -> Work \cup {NoRequest}]
  /\ \A p \in Request : pc[p] # "idle" => req[p] \in Work
  /\ stream \in [Page -> {"off", "loaded", "live"}]
  /\ inbox \in [Page -> Seq(Event)]
  /\ hand \in [Page -> SUBSET Hand]
  /\ \A c \in Page : \A g, h \in hand[c] : g = h
  /\ shown \in [Page -> [Entity -> Elements]]
  /\ \A c \in Page, e \in Entity : shown[c][e].n = 0 <=> shown[c][e].rows = {}
  /\ loads \in Nat /\ fails \in Nat
  /\ missed \in [Page -> SUBSET Entity]

Publishing(e, kind) ==
  \E p \in Request : pc[p] \in {"reread", "publish"} /\ req[p].entity = e /\ req[p].kind = kind

Queued(c, e, kind) == \E i \in DOMAIN inbox[c] : inbox[c][i] = [entity |-> e, type |-> kind]

Owed(c, e, kind) == Publishing(e, kind) \/ Queued(c, e, kind)

RemovalOwed(c, e) == db[e] = 0 /\ shown[c][e].n > 0 => Owed(c, e, "delete")

InsertionOwed(c, e) ==
  db[e] # 0 /\ shown[c][e].n = 0 =>
    Owed(c, e, "create") \/ \E h \in hand[c] : h.entity = e /\ h.type = "create"

PatchOwed(c, e) ==
  db[e] # 0 /\ shown[c][e].n > 0 /\ shown[c][e].rows # {db[e]} =>
    \/ Owed(c, e, "update")
    \/ \E h \in hand[c] : h.entity = e /\ h.type = "update" /\ h.row = db[e]

\* What an open page shows of a row is the row, or the event or patch that puts
\* it right is still to come: a row that is gone is to be removed, a new one to
\* be inserted, an older version to be patched.  The exceptions are the rows of
\* a lost event and those an answer on its way overwrites (missed).
RowOwed ==
  \A c \in Page, e \in Entity :
    stream[c] # "off" /\ e \notin missed[c] =>
      RemovalOwed(c, e) /\ InsertionOwed(c, e) /\ PatchOwed(c, e)

\* Nothing that concerns row e is on its way to page c.
Settled(c, e) ==
  /\ \A p \in Request : pc[p] \in {"reread", "publish"} => req[p].entity # e
  /\ e \notin Undelivered(c)

\* From end to end: a page for which no request has yet to publish and whose
\* stream has nothing to send shows the row as it is, whatever interleaving of
\* requests, answers, events, reloads and reconnections lies behind it.
CurrentAtRest ==
  \A c \in Page, e \in Entity :
    stream[c] # "off" /\ e \notin missed[c] /\ Settled(c, e) => Current(c, e)

\* Once the writes are over, every page with an open stream comes to show the
\* rows as they are, and stays so.
Settles ==
  <>[](\A c \in Page, e \in Entity :
         stream[c] = "live" /\ e \notin missed[c] => Current(c, e))

\* A created row is inserted once (datastar.go:741 "Insert the new fleet row
\* before the form row").  The code does not have it: the page that creates a
\* row inserts it from the answer and again from its stream, and a page loaded
\* between the row and its event shows it already when the event comes.
OneRowPerEntity == \A c \in Page, e \in Entity : shown[c][e].n <= 1

=============================================================================

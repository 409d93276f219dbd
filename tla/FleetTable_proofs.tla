------------------------- MODULE FleetTable_proofs -------------------------
(***************************************************************************)
(* Proofs about FleetTable, for any number of entities, pages and requests *)
(* and every bound.  RowOwed is not inductive: what an event or a patch on *)
(* its way will do to the page has to be known too.  An announced deletion *)
(* is one of a row that is gone (Announced), a stream holds the row as it  *)
(* is or has another event coming (HandOwed), an answer holds the row as   *)
(* it is (AnswerCurrent), and nothing is on its way to an id not given out *)
(* (Unborn).                                                               *)
(***************************************************************************)
EXTENDS FleetTable, SequenceTheorems, TLAPS

USE FleetAssumption

Unborn ==
  \A e \in Entity \ created :
    /\ db[e] = 0
    /\ \A p \in Request : pc[p] # "idle" => req[p].entity # e
    /\ \A c \in Page : /\ shown[c][e].n = 0
                       /\ \A kind \in Kind : ~Queued(c, e, kind)
                       /\ \A h \in hand[c] : h.entity # e

Announced ==
  /\ \A c \in Page, e \in Entity : Queued(c, e, "delete") => db[e] = 0
  /\ \A p \in Request : pc[p] # "idle" /\ req[p].kind = "delete" => db[req[p].entity] = 0

HandOwed ==
  \A c \in Page : \A h \in hand[c] :
    /\ h.row # 0
    /\ h.entity \notin missed[c] /\ h.row # db[h.entity] =>
         Owed(c, h.entity, IF db[h.entity] = 0 THEN "delete" ELSE "update")

AnswerCurrent ==
  \A p \in Request :
    /\ pc[p] = "reread" => req[p].kind = "update"
    /\ pc[p] = "publish" => req[p].kind \in Kind
    /\ pc[p] \in {"publish", "reply"} /\ req[p].kind # "delete" =>
         /\ req[p].row # 0
         /\ req[p].page \in Page /\ req[p].entity \notin missed[req[p].page]
              => req[p].row = db[req[p].entity]

Closed == \A c \in Page : stream[c] # "live" => inbox[c] = <<>> /\ hand[c] = {}

TableInv ==
  TypeOK /\ Unborn /\ Announced /\ HandOwed /\ AnswerCurrent /\ Closed /\ RowOwed

-----------------------------------------------------------------------------
(* Queues.                                                                 *)

LEMMA InAppend ==
  ASSUME NEW q \in Seq(Event), NEW m \in Event, NEW x
  PROVE  /\ Append(q, m) \in Seq(Event)
         /\ (\E i \in DOMAIN Append(q, m) : Append(q, m)[i] = x) <=>
              x = m \/ \E i \in DOMAIN q : q[i] = x
<1> DEFINE r == Append(q, m)
<1>1. /\ r \in Seq(Event)
      /\ DOMAIN q = 1 .. Len(q) /\ DOMAIN r = 1 .. Len(q) + 1
      /\ r[Len(q) + 1] = m
      /\ \A i \in 1 .. Len(q) : r[i] = q[i]
      /\ Len(q) \in Nat
  BY AppendProperties, LenProperties
<1> QED
  BY <1>1

LEMMA InTail ==
  ASSUME NEW q \in Seq(Event), q # <<>>
  PROVE  /\ Head(q) \in Event /\ Tail(q) \in Seq(Event)
         /\ \A x : (\E i \in DOMAIN q : q[i] = x) <=>
                    x = Head(q) \/ \E i \in DOMAIN Tail(q) : Tail(q)[i] = x
<1> DEFINE t == Tail(q)
<1>1. /\ Head(q) \in Event /\ t \in Seq(Event)
      /\ Len(q) \in Nat \ {0}
      /\ DOMAIN q = 1 .. Len(q) /\ DOMAIN t = 1 .. Len(q) - 1
      /\ \A i \in 1 .. Len(q) - 1 : t[i] = q[i + 1]
      /\ Head(q) = q[1]
  BY HeadTailProperties, LenProperties, EmptySeq
<1>2. ASSUME NEW x
      PROVE  (\E i \in DOMAIN q : q[i] = x) <=> x = q[1] \/ \E i \in DOMAIN t : t[i] = x
  <2>1. ASSUME NEW i \in DOMAIN q, q[i] = x PROVE x = q[1] \/ \E j \in DOMAIN t : t[j] = x
    <3>1. CASE i = 1
      BY <2>1, <3>1
    <3>2. CASE i # 1
      <4>1. i - 1 \in DOMAIN t /\ t[i - 1] = q[i]
        BY <1>1, <3>2
      <4> QED
        BY <2>1, <4>1
    <3> QED
      BY <3>1, <3>2
  <2>2. ASSUME NEW i \in DOMAIN t PROVE i + 1 \in DOMAIN q /\ q[i + 1] = t[i]
    BY <1>1
  <2>3. 1 \in DOMAIN q
    BY <1>1
  <2> QED
    BY <2>1, <2>2, <2>3
<1> QED
  BY <1>1, <1>2


LEMMA WorkFields ==
  ASSUME TypeOK, NEW p \in Request, pc[p] # "idle"
  PROVE  /\ req[p].page \in Page \cup {None} /\ req[p].entity \in Entity
         /\ req[p].kind \in Kind \cup {"view"} /\ req[p].row \in Nat
         /\ req[p] = Asked(req[p].page, req[p].entity, req[p].kind, req[p].row)
BY DEF TypeOK, Work, Asked

-----------------------------------------------------------------------------
(* What a request that begins or goes on changes.                          *)

LEMMA BeginFacts ==
  ASSUME TypeOK, NEW p \in Request, NEW c \in Page \cup {None}, NEW e \in Entity,
         NEW kind \in Kind \cup {"view"}, NEW row \in Nat, NEW step \in {"reread", "publish", "reply"},
         Begin(p, c, e, kind, row, step)
  PROVE  /\ pc[p] = "idle" /\ (c \in Page => stream[c] # "off")
         /\ pc' \in [Request -> {"idle", "reread", "publish", "reply"}]
         /\ req' \in [Request -> Work \cup {NoRequest}]
         /\ \A q \in Request : pc'[q] # "idle" => req'[q] \in Work
         /\ pc'[p] = step /\ req'[p] = Asked(c, e, kind, row)
         /\ \A q \in Request \ {p} : pc'[q] = pc[q] /\ req'[q] = req[q]
         /\ UNCHANGED <<stream, inbox, hand, shown, loads, fails>>
         /\ \A x \in Page, f \in Entity, k \in Kind :
              /\ Queued(x, f, k)' <=> Queued(x, f, k)
              /\ Publishing(f, k)' <=>
                   Publishing(f, k) \/ (step # "reply" /\ f = e /\ k = kind)
<1>1. Asked(c, e, kind, row) \in Work
  BY DEF Work, Asked
<1>2. /\ pc[p] = "idle" /\ (c \in Page => stream[c] # "off")
      /\ pc' = [pc EXCEPT ![p] = step]
      /\ req' = [req EXCEPT ![p] = Asked(c, e, kind, row)]
      /\ UNCHANGED <<stream, inbox, hand, shown, loads, fails>>
  BY DEF Begin, streams
<1>3. /\ pc' \in [Request -> {"idle", "reread", "publish", "reply"}]
      /\ req' \in [Request -> Work \cup {NoRequest}]
      /\ pc'[p] = step /\ req'[p] = Asked(c, e, kind, row)
      /\ \A q \in Request \ {p} : pc'[q] = pc[q] /\ req'[q] = req[q]
  BY <1>1, <1>2 DEF TypeOK
<1>4. \A q \in Request : pc'[q] # "idle" => req'[q] \in Work
  BY <1>1, <1>3 DEF TypeOK
<1>5. req'[p].entity = e /\ req'[p].kind = kind
  BY <1>3 DEF Asked
<1>6. ASSUME NEW f \in Entity, NEW k \in Kind
      PROVE  Publishing(f, k)' <=> Publishing(f, k) \/ (step # "reply" /\ f = e /\ k = kind)
  BY <1>2, <1>3, <1>5 DEF Publishing
<1>7. \A x \in Page, f \in Entity, k \in Kind : Queued(x, f, k)' <=> Queued(x, f, k)
  BY <1>2 DEF Queued
<1> QED
  BY <1>2, <1>3, <1>4, <1>6, <1>7

\* A page that shows of a row what it did, of the same row, and is owed what it
\* was or more, keeps what it is promised.
LEMMA CellKept ==
  ASSUME TypeOK, RowOwed, NEW c \in Page, NEW e \in Entity,
         stream[c] # "off", e \notin missed[c],
         db'[e] = db[e], shown'[c][e] = shown[c][e], hand'[c] = hand[c],
         \A k \in Kind : Owed(c, e, k) => Owed(c, e, k)'
  PROVE  RemovalOwed(c, e)' /\ InsertionOwed(c, e)' /\ PatchOwed(c, e)'
BY DEF RowOwed, RemovalOwed, InsertionOwed, PatchOwed, Kind

LEMMA CreateKeepsInv ==
  ASSUME TableInv, NEW p \in Request, NEW c \in Page \cup {None}, NEW e \in Entity, Create(p, c, e)
  PROVE  TableInv'
<1> DEFINE row == tick + 1
<1>0. TypeOK /\ row \in Nat
  BY DEF TableInv, TypeOK
<1>1. /\ e \notin created /\ tick' = row /\ created' = created \cup {e}
      /\ Write(e, row) /\ Begin(p, c, e, "create", row, "publish")
  BY DEF Create
<1>2. /\ pc[p] = "idle" /\ (c \in Page => stream[c] # "off")
      /\ pc' \in [Request -> {"idle", "reread", "publish", "reply"}]
      /\ req' \in [Request -> Work \cup {NoRequest}]
      /\ \A q \in Request : pc'[q] # "idle" => req'[q] \in Work
      /\ pc'[p] = "publish" /\ req'[p] = Asked(c, e, "create", row)
      /\ \A q \in Request \ {p} : pc'[q] = pc[q] /\ req'[q] = req[q]
      /\ UNCHANGED <<stream, inbox, hand, shown, loads, fails>>
      /\ \A x \in Page, f \in Entity, k \in Kind :
           /\ Queued(x, f, k)' <=> Queued(x, f, k)
           /\ Publishing(f, k)' <=> Publishing(f, k) \/ (f = e /\ k = "create")
  BY <1>0, <1>1, BeginFacts DEF Kind
<1>3. /\ db' \in [Entity -> Nat] /\ db'[e] = row
      /\ \A f \in Entity \ {e} : db'[f] = db[f]
      /\ missed' \in [Page -> SUBSET Entity]
      /\ \A x \in Page : missed[x] \subseteq missed'[x] 
      /\ \A x \in Page : x \in Answering(e) => e \in missed'[x]
  BY <1>0, <1>1 DEF Write, TypeOK
<1>4. TypeOK'
  BY <1>0, <1>1, <1>2, <1>3 DEF TypeOK
<1>5. \A x \in Page : \A h \in hand[x] : h.entity \in Entity
  BY <1>0 DEF TypeOK, Hand
<1>6. req'[p].entity = e /\ req'[p].kind = "create" /\ req'[p].row = row /\ row # 0
  BY <1>0, <1>2 DEF Asked, TypeOK
<1>7. Unborn'
  BY <1>1, <1>2, <1>3, <1>6 DEF Unborn, TableInv
<1>8. Announced'
  <2>1. ASSUME NEW q \in Request, pc'[q] # "idle", req'[q].kind = "delete"
        PROVE  db'[req'[q].entity] = 0
    <3>1. q # p /\ pc[q] # "idle" /\ req'[q] = req[q]
      BY <1>2, <1>6, <2>1
    <3>2. req[q].entity \in Entity /\ req[q].entity # e /\ db[req[q].entity] = 0
      BY <1>0, <1>1, <2>1, <3>1, WorkFields DEF Unborn, Announced, TableInv
    <3> QED
      BY <1>3, <3>1, <3>2
  <2>2. ASSUME NEW x \in Page, NEW f \in Entity, Queued(x, f, "delete")' PROVE db'[f] = 0
    BY <1>1, <1>2, <1>3, <2>2 DEF Announced, Unborn, TableInv, Kind
  <2> QED
    BY <2>1, <2>2 DEF Announced
<1>9. HandOwed'
  BY <1>1, <1>2, <1>3, <1>5 DEF HandOwed, Unborn, TableInv, Owed, Kind
<1>10. AnswerCurrent'
  <2> SUFFICES ASSUME NEW q \in Request
               PROVE  /\ pc'[q] = "reread" => req'[q].kind = "update"
                      /\ pc'[q] = "publish" => req'[q].kind \in Kind
                      /\ pc'[q] \in {"publish", "reply"} /\ req'[q].kind # "delete" =>
                           /\ req'[q].row # 0
                           /\ req'[q].page \in Page /\ req'[q].entity \notin missed'[req'[q].page]
                                => req'[q].row = db'[req'[q].entity]
    BY DEF AnswerCurrent
  <2>1. CASE q = p
    BY <1>2, <1>3, <1>6, <2>1 DEF Kind
  <2>2. CASE q # p /\ pc[q] # "idle"
    <3>1. req[q].entity \in Entity /\ req[q].entity # e
      BY <1>0, <1>1, <2>2, WorkFields DEF Unborn, TableInv
    <3> QED
      BY <1>2, <1>3, <2>2, <3>1 DEF AnswerCurrent, TableInv
  <2>3. CASE q # p /\ pc[q] = "idle"
    BY <1>2, <2>3
  <2> QED
    BY <2>1, <2>2, <2>3
<1>11. Closed'
  BY <1>2 DEF Closed, TableInv
<1>12. RowOwed'
  <2> SUFFICES ASSUME NEW x \in Page, NEW f \in Entity, stream[x] # "off", f \notin missed'[x]
               PROVE  RemovalOwed(x, f)' /\ InsertionOwed(x, f)' /\ PatchOwed(x, f)'
    BY <1>2 DEF RowOwed
  <2>1. f \notin missed[x]
    BY <1>3
  <2>2. CASE f = e
    BY <1>1, <1>2, <1>3, <1>6, <2>2 DEF Unborn, TableInv, RemovalOwed, InsertionOwed, PatchOwed, Owed, Kind
  <2>3. CASE f # e
    BY <1>0, <1>2, <1>3, <2>1, <2>3, CellKept DEF TableInv, Owed
  <2> QED
    BY <2>2, <2>3
<1> QED
  BY <1>4, <1>7, <1>8, <1>9, <1>10, <1>11, <1>12 DEF TableInv

LEMMA ChangeKeepsInv ==
  ASSUME TableInv, NEW p \in Request, NEW c \in Page \cup {None}, NEW e \in Entity,
         db[e] # 0, tick' \in Nat, created' = created,
         NEW row \in Nat, NEW kind \in {"update", "delete"}, NEW step \in {"reread", "publish"},
         kind = "update" <=> row # 0, kind = "update" <=> step = "reread",
         Write(e, row), Begin(p, c, e, kind, 0, step)
  PROVE  TableInv'
<1>0. TypeOK
  BY DEF TableInv
<1>1. /\ pc[p] = "idle" /\ (c \in Page => stream[c] # "off")
      /\ pc' \in [Request -> {"idle", "reread", "publish", "reply"}]
      /\ req' \in [Request -> Work \cup {NoRequest}]
      /\ \A q \in Request : pc'[q] # "idle" => req'[q] \in Work
      /\ pc'[p] = step /\ req'[p] = Asked(c, e, kind, 0)
      /\ \A q \in Request \ {p} : pc'[q] = pc[q] /\ req'[q] = req[q]
      /\ UNCHANGED <<stream, inbox, hand, shown, loads, fails>>
      /\ \A x \in Page, f \in Entity, k \in Kind :
           /\ Queued(x, f, k)' <=> Queued(x, f, k)
           /\ Publishing(f, k)' <=> Publishing(f, k) \/ (f = e /\ k = kind)
  BY <1>0, BeginFacts DEF Kind
<1>2. /\ db' \in [Entity -> Nat] /\ db'[e] = row
      /\ \A f \in Entity \ {e} : db'[f] = db[f]
      /\ missed' \in [Page -> SUBSET Entity]
      /\ \A x \in Page : missed[x] \subseteq missed'[x]
      /\ \A x \in Page : x \in Answering(e) => e \in missed'[x]
  BY <1>0 DEF Write, TypeOK
<1>3. TypeOK'
  BY <1>0, <1>1, <1>2 DEF TypeOK
<1>4. \A x \in Page : \A h \in hand[x] : h.entity \in Entity
  BY <1>0 DEF TypeOK, Hand
<1>5. req'[p].entity = e /\ req'[p].kind = kind
  BY <1>1 DEF Asked
<1>6. e \in created
  BY DEF TableInv, Unborn
<1>7. Unborn'
  BY <1>1, <1>2, <1>5, <1>6 DEF Unborn, TableInv
<1>8. Announced'
  <2>1. ASSUME NEW q \in Request, pc'[q] # "idle", req'[q].kind = "delete"
        PROVE  db'[req'[q].entity] = 0
    <3>1. CASE q = p
      BY <1>2, <1>5, <2>1, <3>1
    <3>2. CASE q # p
      <4>1. /\ pc[q] # "idle" /\ req'[q] = req[q]
            /\ req[q].entity \in Entity /\ req[q].entity # e /\ db[req[q].entity] = 0
        BY <1>0, <1>1, <2>1, <3>2, WorkFields DEF Announced, TableInv
      <4> QED
        BY <1>2, <4>1
    <3> QED
      BY <3>1, <3>2
  <2>2. ASSUME NEW x \in Page, NEW f \in Entity, Queued(x, f, "delete")' PROVE db'[f] = 0
    BY <1>1, <1>2, <2>2 DEF Announced, TableInv, Kind
  <2> QED
    BY <2>1, <2>2 DEF Announced
<1>9. HandOwed'
  BY <1>1, <1>2, <1>4 DEF HandOwed, TableInv, Owed, Kind
<1>10. AnswerCurrent'
  <2> SUFFICES ASSUME NEW q \in Request
               PROVE  /\ pc'[q] = "reread" => req'[q].kind = "update"
                      /\ pc'[q] = "publish" => req'[q].kind \in Kind
                      /\ pc'[q] \in {"publish", "reply"} /\ req'[q].kind # "delete" =>
                           /\ req'[q].row # 0
                           /\ req'[q].page \in Page /\ req'[q].entity \notin missed'[req'[q].page]
                                => req'[q].row = db'[req'[q].entity]
    BY DEF AnswerCurrent
  <2>1. CASE q = p
    BY <1>1, <1>5, <2>1 DEF Kind
  <2>2. CASE q # p /\ pc[q] # "idle" /\ req[q].entity # e
    <3>1. req[q].entity \in Entity
      BY <1>0, <2>2, WorkFields
    <3> QED
      BY <1>1, <1>2, <2>2, <3>1 DEF AnswerCurrent, TableInv
  <2>3. CASE q # p /\ pc[q] # "idle" /\ req[q].entity = e
    <3>1. pc[q] \in {"publish", "reply"} => req[q].page \in Answering(e)
      BY <2>3 DEF Answering
    <3> QED
      BY <1>1, <1>2, <2>3, <3>1 DEF AnswerCurrent, TableInv
  <2>4. CASE q # p /\ pc[q] = "idle"
    BY <1>1, <2>4
  <2> QED
    BY <2>1, <2>2, <2>3, <2>4
<1>11. Closed'
  BY <1>1 DEF Closed, TableInv
<1>12. RowOwed'
  <2> SUFFICES ASSUME NEW x \in Page, NEW f \in Entity, stream[x] # "off", f \notin missed'[x]
               PROVE  RemovalOwed(x, f)' /\ InsertionOwed(x, f)' /\ PatchOwed(x, f)'
    BY <1>1 DEF RowOwed
  <2>1. f \notin missed[x]
    BY <1>2
  <2>2. CASE f = e
    BY <1>1, <1>2, <2>1, <2>2 DEF RowOwed, TableInv, RemovalOwed, InsertionOwed, PatchOwed, Owed, Kind
  <2>3. CASE f # e
    BY <1>0, <1>1, <1>2, <2>1, <2>3, CellKept DEF TableInv, Owed
  <2> QED
    BY <2>2, <2>3
<1> QED
  BY <1>3, <1>7, <1>8, <1>9, <1>10, <1>11, <1>12 DEF TableInv

LEMMA UpdateKeepsInv ==
  ASSUME TableInv, NEW p \in Request, NEW c \in Page \cup {None}, NEW e \in Entity, Update(p, c, e)
  PROVE  TableInv'
<1>1. tick + 1 \in Nat /\ tick + 1 # 0
  BY DEF TableInv, TypeOK
<1> QED
  BY <1>1, ChangeKeepsInv DEF Update

LEMMA DeleteKeepsInv ==
  ASSUME TableInv, NEW p \in Request, NEW c \in Page \cup {None}, NEW e \in Entity, Delete(p, c, e)
  PROVE  TableInv'
<1>1. tick \in Nat
  BY DEF TableInv, TypeOK
<1> QED
  BY <1>1, ChangeKeepsInv DEF Delete

LEMMA ViewKeepsInv ==
  ASSUME TableInv, NEW p \in Request, NEW c \in Page \cup {None}, NEW e \in Entity, View(p, c, e)
  PROVE  TableInv'
<1>0. TypeOK /\ db[e] \in Nat \ {0} /\ UNCHANGED <<tick, created, db, missed>>
  BY DEF TableInv, TypeOK, View, rows
<1>1. /\ pc[p] = "idle" /\ (c \in Page => stream[c] # "off")
      /\ pc' \in [Request -> {"idle", "reread", "publish", "reply"}]
      /\ req' \in [Request -> Work \cup {NoRequest}]
      /\ \A q \in Request : pc'[q] # "idle" => req'[q] \in Work
      /\ pc'[p] = "reply" /\ req'[p] = Asked(c, e, "view", db[e])
      /\ \A q \in Request \ {p} : pc'[q] = pc[q] /\ req'[q] = req[q]
      /\ UNCHANGED <<stream, inbox, hand, shown, loads, fails>>
      /\ \A x \in Page, f \in Entity, k \in Kind :
           /\ Queued(x, f, k)' <=> Queued(x, f, k)
           /\ Publishing(f, k)' <=> Publishing(f, k)
  BY <1>0, BeginFacts DEF View
<1>2. TypeOK'
  BY <1>0, <1>1 DEF TypeOK
<1>3. \A x \in Page : \A h \in hand[x] : h.entity \in Entity
  BY <1>0 DEF TypeOK, Hand
<1>4. req'[p].entity = e /\ req'[p].kind = "view" /\ req'[p].row = db[e] /\ e \in created
  BY <1>0, <1>1 DEF Asked, TableInv, Unborn
<1>5. Unborn'
  BY <1>0, <1>1, <1>4 DEF Unborn, TableInv
<1>6. Announced'
  BY <1>0, <1>1, <1>4 DEF Announced, TableInv, Kind
<1>7. HandOwed'
  BY <1>0, <1>1, <1>3 DEF HandOwed, TableInv, Owed, Kind
<1>8. AnswerCurrent'
  BY <1>0, <1>1, <1>4 DEF AnswerCurrent, TableInv
<1>9. Closed'
  BY <1>1 DEF Closed, TableInv
<1>10. RowOwed'
  BY <1>0, <1>1, CellKept DEF RowOwed, TableInv, Owed
<1> QED
  BY <1>2, <1>5, <1>6, <1>7, <1>8, <1>9, <1>10 DEF TableInv

-----------------------------------------------------------------------------
(* A request that goes on or ends.                                         *)

LEMMA GoFacts ==
  ASSUME TypeOK, NEW p \in Request, pc[p] # "idle",
         NEW step \in {"idle", "reread", "publish", "reply"}, NEW r \in Work \cup {NoRequest},
         step # "idle" => r \in Work,
         pc' = [pc EXCEPT ![p] = step], req' = [req EXCEPT ![p] = r]
  PROVE  /\ pc' \in [Request -> {"idle", "reread", "publish", "reply"}]
         /\ req' \in [Request -> Work \cup {NoRequest}]
         /\ \A q \in Request : pc'[q] # "idle" => req'[q] \in Work
         /\ pc'[p] = step /\ req'[p] = r
         /\ \A q \in Request \ {p} : pc'[q] = pc[q] /\ req'[q] = req[q]
         /\ \A f \in Entity, k \in Kind :
              pc[p] = "reply" \/ f # req[p].entity \/ k # req[p].kind =>
                (Publishing(f, k) => Publishing(f, k)')
<1>1. /\ pc' \in [Request -> {"idle", "reread", "publish", "reply"}]
      /\ req' \in [Request -> Work \cup {NoRequest}]
      /\ pc'[p] = step /\ req'[p] = r
      /\ \A q \in Request \ {p} : pc'[q] = pc[q] /\ req'[q] = req[q]
  BY DEF TypeOK
<1>2. \A q \in Request : pc'[q] # "idle" => req'[q] \in Work
  BY <1>1 DEF TypeOK
<1>3. ASSUME NEW f \in Entity, NEW k \in Kind, Publishing(f, k),
             pc[p] = "reply" \/ f # req[p].entity \/ k # req[p].kind
      PROVE  Publishing(f, k)'
  BY <1>1, <1>3 DEF Publishing
<1> QED
  BY <1>1, <1>2, <1>3

LEMMA RereadKeepsInv ==
  ASSUME TableInv, NEW p \in Request, Reread(p)
  PROVE  TableInv'
<1> DEFINE e == req[p].entity
           r == Asked(req[p].page, e, req[p].kind, db[e])
<1>0. /\ TypeOK /\ pc[p] = "reread" /\ req[p].kind = "update" /\ db[e] # 0
      /\ UNCHANGED <<tick, created, db, missed, stream, inbox, hand, shown, loads, fails>>
      /\ pc' = [pc EXCEPT ![p] = "publish"]
  BY DEF TableInv, Reread, Continue, rows, streams, AnswerCurrent
<1>1. e \in Entity /\ r \in Work
  BY <1>0, WorkFields DEF Work, Asked, TypeOK
<1>2. req' = [req EXCEPT ![p] = r]
  BY DEF Reread
<1>3. /\ pc' \in [Request -> {"idle", "reread", "publish", "reply"}]
      /\ req' \in [Request -> Work \cup {NoRequest}]
      /\ \A q \in Request : pc'[q] # "idle" => req'[q] \in Work
      /\ pc'[p] = "publish" /\ req'[p] = r
      /\ \A q \in Request \ {p} : pc'[q] = pc[q] /\ req'[q] = req[q]
  BY <1>0, <1>1, <1>2, GoFacts
<1>4. /\ req'[p].page = req[p].page /\ req'[p].entity = e
      /\ req'[p].kind = "update" /\ req'[p].row = db[e]
  BY <1>0, <1>3 DEF Asked
<1>5. \A x \in Page, f \in Entity, k \in Kind :
        /\ Queued(x, f, k)' <=> Queued(x, f, k)
        /\ Publishing(f, k)' <=> Publishing(f, k)
  BY <1>0, <1>3, <1>4 DEF Publishing, Queued
<1>6. TypeOK'
  BY <1>0, <1>3 DEF TypeOK
<1>7. \A x \in Page : \A h \in hand[x] : h.entity \in Entity
  BY <1>0 DEF TypeOK, Hand
<1>8. Unborn'
  BY <1>0, <1>1, <1>3, <1>4, <1>5 DEF Unborn, TableInv
<1>9. Announced'
  BY <1>0, <1>3, <1>4, <1>5 DEF Announced, TableInv, Kind
<1>10. HandOwed'
  BY <1>0, <1>5, <1>7 DEF HandOwed, TableInv, Owed, Kind
<1>11. AnswerCurrent'
  BY <1>0, <1>3, <1>4 DEF AnswerCurrent, TableInv, Kind
<1>12. Closed'
  BY <1>0 DEF Closed, TableInv
<1>13. RowOwed'
  BY <1>0, <1>5, CellKept DEF RowOwed, TableInv, Owed
<1> QED
  BY <1>6, <1>8, <1>9, <1>10, <1>11, <1>12, <1>13 DEF TableInv

\* A request that ends without a patch: what it was to publish is of a row that
\* is gone, or is excepted, or has been published.
LEMMA EndKeepsInv ==
  ASSUME TableInv, NEW p \in Request, pc[p] # "idle", End(p), fails' \in Nat,
         UNCHANGED <<stream, inbox, hand, shown>>,
         missed' \in [Page -> SUBSET Entity], \A x \in Page : missed[x] \subseteq missed'[x],
         \/ pc[p] = "reply"
         \/ db[req[p].entity] = 0 /\ req[p].kind = "update"
         \/ \A x \in Page : req[p].entity \in missed'[x]
  PROVE  TableInv'
<1> DEFINE e == req[p].entity
<1>0. /\ TypeOK /\ UNCHANGED <<tick, created, db, loads>>
      /\ pc' = [pc EXCEPT ![p] = "idle"] /\ req' = [req EXCEPT ![p] = NoRequest]
  BY DEF TableInv, End, Continue, rows
<1>1. /\ pc' \in [Request -> {"idle", "reread", "publish", "reply"}]
      /\ req' \in [Request -> Work \cup {NoRequest}]
      /\ \A q \in Request : pc'[q] # "idle" => req'[q] \in Work
      /\ pc'[p] = "idle" /\ \A q \in Request \ {p} : pc'[q] = pc[q] /\ req'[q] = req[q]
      /\ \A f \in Entity, k \in Kind :
           pc[p] = "reply" \/ f # e \/ k # req[p].kind => (Publishing(f, k) => Publishing(f, k)')
  BY <1>0, GoFacts
<1>2. \A x \in Page, f \in Entity, k \in Kind : Queued(x, f, k)' <=> Queued(x, f, k)
  BY DEF Queued
<1>3. TypeOK'
  BY <1>0, <1>1 DEF TypeOK
<1>4. \A x \in Page : \A h \in hand[x] : h.entity \in Entity
  BY <1>0 DEF TypeOK, Hand
<1>5. Unborn'
  BY <1>0, <1>1, <1>2 DEF Unborn, TableInv
<1>6. Announced'
  BY <1>0, <1>1, <1>2 DEF Announced, TableInv, Kind
<1>7. HandOwed'
  <2> SUFFICES ASSUME NEW x \in Page, NEW h \in hand[x], h.entity \notin missed'[x], h.row # db[h.entity]
               PROVE  Owed(x, h.entity, IF db[h.entity] = 0 THEN "delete" ELSE "update")'
    BY <1>0 DEF HandOwed, TableInv
  <2> DEFINE k == IF db[h.entity] = 0 THEN "delete" ELSE "update"
  <2>1. Owed(x, h.entity, k) /\ k \in Kind /\ h.entity \in Entity
    BY <1>4 DEF HandOwed, TableInv, Kind
  <2>2. pc[p] = "reply" \/ h.entity # e \/ k # req[p].kind
    OBVIOUS
  <2> QED
    BY <1>0, <1>1, <1>2, <2>1, <2>2 DEF Owed
<1>8. AnswerCurrent'
  BY <1>0, <1>1 DEF AnswerCurrent, TableInv
<1>9. Closed'
  BY DEF Closed, TableInv
<1>10. RowOwed'
  <2> SUFFICES ASSUME NEW x \in Page, NEW f \in Entity, stream[x] # "off", f \notin missed'[x]
               PROVE  RemovalOwed(x, f)' /\ InsertionOwed(x, f)' /\ PatchOwed(x, f)'
    BY DEF RowOwed
  <2>1. RemovalOwed(x, f) /\ InsertionOwed(x, f) /\ PatchOwed(x, f)
    BY DEF RowOwed, TableInv
  <2>2. \A k \in Kind : Owed(x, f, k) /\ (f = e /\ db[e] = 0 => k # "update") => Owed(x, f, k)'
    BY <1>1, <1>2 DEF Owed
  <2> QED
    BY <1>0, <2>1, <2>2 DEF RemovalOwed, InsertionOwed, PatchOwed, Kind
<1> QED
  BY <1>3, <1>5, <1>6, <1>7, <1>8, <1>9, <1>10 DEF TableInv

LEMMA RereadNotFoundKeepsInv ==
  ASSUME TableInv, NEW p \in Request, RereadNotFound(p)
  PROVE  TableInv'
<1>1. TypeOK /\ pc[p] = "reread" /\ req[p].kind = "update"
  BY DEF RereadNotFound, TableInv, AnswerCurrent
<1> QED
  BY <1>1, EndKeepsInv DEF RereadNotFound, streams, TypeOK

LEMMA PublishFailsKeepsInv ==
  ASSUME TableInv, NEW p \in Request, PublishFails(p)
  PROVE  TableInv'
<1>1. TypeOK /\ pc[p] = "publish" /\ req[p].entity \in Entity
  BY WorkFields DEF PublishFails, TableInv
<1>2. /\ fails' \in Nat /\ missed' \in [Page -> SUBSET Entity]
      /\ \A x \in Page : missed[x] \subseteq missed'[x] /\ req[p].entity \in missed'[x]
  BY <1>1 DEF PublishFails, TypeOK
<1> QED
  BY <1>1, <1>2, EndKeepsInv DEF PublishFails, streams

LEMMA ReplyFailsKeepsInv ==
  ASSUME TableInv, NEW p \in Request, ReplyFails(p)
  PROVE  TableInv'
<1>1. TypeOK /\ pc[p] = "reply" /\ fails' \in Nat
  BY DEF ReplyFails, TableInv, TypeOK
<1> QED
  BY <1>1, EndKeepsInv DEF ReplyFails, streams, TypeOK

LEMMA PublishKeepsInv ==
  ASSUME TableInv, NEW p \in Request, Publish(p)
  PROVE  TableInv'
<1> DEFINE e == req[p].entity
           kind == req[p].kind
           m == [entity |-> e, type |-> kind]
<1>0. /\ TypeOK /\ pc[p] = "publish" /\ kind \in Kind
      /\ UNCHANGED <<tick, created, db, loads, req, stream, hand, shown, fails>>
      /\ pc' = [pc EXCEPT ![p] = "reply"]
  BY DEF TableInv, Publish, Continue, rows, AnswerCurrent
<1>1. /\ inbox' = [x \in Page |-> IF stream[x] = "live" THEN Append(inbox[x], m) ELSE inbox[x]]
      /\ missed' = [x \in Page |-> IF stream[x] = "loaded" /\ ~Current(x, e)
                                   THEN missed[x] \cup {e} ELSE missed[x]]
  BY DEF Publish
<1>2. e \in Entity /\ m \in Event /\ req[p] \in Work
  BY <1>0, WorkFields DEF Event, TypeOK
<1>3. /\ pc' \in [Request -> {"idle", "reread", "publish", "reply"}]
      /\ \A q \in Request : pc'[q] # "idle" => req[q] \in Work
      /\ pc'[p] = "reply" /\ \A q \in Request \ {p} : pc'[q] = pc[q]
      /\ \A f \in Entity, k \in Kind : f # e \/ k # kind => (Publishing(f, k) => Publishing(f, k)')
  <2>1. req' = [req EXCEPT ![p] = req[p]]
    BY <1>0 DEF TypeOK
  <2> QED
    BY <1>0, <1>2, <2>1, GoFacts
<1>4. /\ inbox' \in [Page -> Seq(Event)]
      /\ \A x \in Page, f \in Entity, k \in Kind :
           Queued(x, f, k)' <=> Queued(x, f, k) \/ (stream[x] = "live" /\ f = e /\ k = kind)
  <2>1. ASSUME NEW x \in Page
        PROVE  /\ inbox'[x] \in Seq(Event)
               /\ \A f \in Entity, k \in Kind :
                    Queued(x, f, k)' <=> Queued(x, f, k) \/ (stream[x] = "live" /\ f = e /\ k = kind)
    <3>1. CASE stream[x] = "live"
      <4>1. inbox[x] \in Seq(Event) /\ inbox'[x] = Append(inbox[x], m)
        BY <1>0, <1>1, <3>1 DEF TypeOK
      <4>2. ASSUME NEW f \in Entity, NEW k \in Kind
            PROVE  Queued(x, f, k)' <=> Queued(x, f, k) \/ (f = e /\ k = kind)
        <5>1. m = [entity |-> f, type |-> k] <=> f = e /\ k = kind
          OBVIOUS
        <5> DEFINE y == [entity |-> f, type |-> k]
                   r == Append(inbox[x], m)
        <5>2. (\E i \in DOMAIN r : r[i] = y) <=> y = m \/ \E i \in DOMAIN inbox[x] : inbox[x][i] = y
          <6> HIDE DEF y, m
          <6> QED
            BY <1>2, <4>1, InAppend
        <5>3. Queued(x, f, k)' <=> \E i \in DOMAIN r : r[i] = y
          BY <4>1 DEF Queued
        <5> QED
          BY <5>1, <5>2, <5>3 DEF Queued
      <4> QED
        BY <1>2, <3>1, <4>1, <4>2, InAppend
    <3>2. CASE stream[x] # "live"
      <4>1. inbox'[x] = inbox[x]
        BY <1>1, <3>2
      <4> QED
        BY <1>0, <3>2, <4>1 DEF TypeOK, Queued
    <3> QED
      BY <3>1, <3>2
  <2> QED
    BY <1>1, <2>1
<1>5. /\ missed' \in [Page -> SUBSET Entity]
      /\ \A x \in Page : /\ missed[x] \subseteq missed'[x]
                         /\ stream[x] = "loaded" /\ ~Current(x, e) => e \in missed'[x]
  BY <1>0, <1>1, <1>2 DEF TypeOK
<1>6. TypeOK'
  BY <1>0, <1>3, <1>4, <1>5 DEF TypeOK
<1>7. \A x \in Page : \A h \in hand[x] : h.entity \in Entity
  BY <1>0 DEF TypeOK, Hand
<1>8. \A x \in Page, f \in Entity, k \in Kind :
        stream[x] = "live" \/ f # e => (Owed(x, f, k) => Owed(x, f, k)')
  BY <1>3, <1>4 DEF Owed
<1>9. Unborn'
  BY <1>0, <1>3, <1>4 DEF Unborn, TableInv
<1>10. Announced'
  BY <1>0, <1>3, <1>4 DEF Announced, TableInv, Kind
<1>11. HandOwed'
  <2>1. \A x \in Page : stream[x] # "live" => hand[x] = {}
    BY DEF Closed, TableInv
  <2> QED
    BY <1>0, <1>5, <1>7, <1>8, <2>1 DEF HandOwed, TableInv, Kind
<1>12. AnswerCurrent'
  BY <1>0, <1>3, <1>5 DEF AnswerCurrent, TableInv
<1>13. Closed'
  BY <1>0, <1>1 DEF Closed, TableInv
<1>14. RowOwed'
  <2> SUFFICES ASSUME NEW x \in Page, NEW f \in Entity, stream[x] # "off", f \notin missed'[x]
               PROVE  RemovalOwed(x, f)' /\ InsertionOwed(x, f)' /\ PatchOwed(x, f)'
    BY <1>0 DEF RowOwed
  <2>1. f \notin missed[x]
    BY <1>5
  <2>2. CASE stream[x] = "live" \/ f # e
    BY <1>0, <1>8, <2>1, <2>2, CellKept DEF TableInv
  <2>3. CASE stream[x] # "live" /\ f = e
    <3>1. Current(x, e) /\ shown[x][e] \in Elements
      BY <1>0, <1>2, <1>5, <2>3 DEF TypeOK
    <3>2. (Absent).n = 0
      BY DEF Absent
    <3> QED
      BY <1>0, <2>3, <3>1, <3>2 DEF Current, RemovalOwed, InsertionOwed, PatchOwed
  <2> QED
    BY <2>2, <2>3
<1> QED
  BY <1>6, <1>9, <1>10, <1>11, <1>12, <1>13, <1>14 DEF TableInv

\* A patch leaves elements whose versions are numbers, and versions only where
\* there are elements.
LEMMA PatchType ==
  ASSUME NEW el \in Elements, el.n = 0 <=> el.rows = {}, NEW kind, NEW row \in Nat
  PROVE  LET a == AfterPatch(el, kind, row) IN a \in Elements /\ (a.n = 0 <=> a.rows = {})
<1>1. el.n \in Nat /\ el.rows \in SUBSET Nat
  BY DEF Elements
<1>2. Inserted(el, row) \in Elements /\ Inserted(el, row).n # 0 /\ Inserted(el, row).rows # {}
  BY <1>1 DEF Inserted, Elements
<1>3. LET a == Patched(el, row) IN a \in Elements /\ (a.n = 0 <=> a.rows = {})
  BY <1>1 DEF Patched, Elements
<1>4. Absent \in Elements /\ (Absent).n = 0 /\ (Absent).rows = {}
  BY DEF Absent, Elements
<1> QED
  BY <1>2, <1>3, <1>4 DEF AfterPatch

\* What a patch does to the elements of a row.
LEMMA PatchFields ==
  ASSUME NEW el \in Elements, NEW row \in Nat
  PROVE  /\ Inserted(el, row).n = el.n + 1 /\ Inserted(el, row).rows = el.rows \cup {row}
         /\ Patched(el, row).n = el.n
         /\ el.n > 0 => Patched(el, row).rows = {row}
         /\ el.n = 0 => Patched(el, row) = el
         /\ (Absent).n = 0 /\ (Absent).rows = {}
         /\ el.n \in Nat
BY DEF Elements, Inserted, Patched, Absent

LEMMA ReplyKeepsInv ==
  ASSUME TableInv, NEW p \in Request, Reply(p)
  PROVE  TableInv'
<1> DEFINE e == req[p].entity
           c == req[p].page
           kind == req[p].kind
           row == req[p].row
<1>0. /\ TypeOK /\ pc[p] = "reply"
      /\ UNCHANGED <<tick, created, db, loads, stream, inbox, hand, fails, missed>>
      /\ pc' = [pc EXCEPT ![p] = "idle"] /\ req' = [req EXCEPT ![p] = NoRequest]
      /\ shown' = [x \in Page |-> IF x = c THEN [shown[x] EXCEPT ![e] = AfterPatch(@, kind, row)]
                                  ELSE shown[x]]
  BY DEF TableInv, Reply, End, Continue, rows, streams
<1>1. e \in Entity /\ row \in Nat /\ e \in created
  BY <1>0, WorkFields DEF Unborn, TableInv
<1>2. /\ pc' \in [Request -> {"idle", "reread", "publish", "reply"}]
      /\ req' \in [Request -> Work \cup {NoRequest}]
      /\ \A q \in Request : pc'[q] # "idle" => req'[q] \in Work
      /\ pc'[p] = "idle" /\ \A q \in Request \ {p} : pc'[q] = pc[q] /\ req'[q] = req[q]
      /\ \A f \in Entity, k \in Kind : Publishing(f, k) => Publishing(f, k)'
  BY <1>0, GoFacts
<1>3. \A x \in Page, f \in Entity, k \in Kind :
        /\ Queued(x, f, k)' <=> Queued(x, f, k)
        /\ Owed(x, f, k) => Owed(x, f, k)'
  BY <1>0, <1>2 DEF Queued, Owed
<1>4. \A x \in Page : \A f \in Entity :
        /\ shown[x][f] \in Elements /\ (shown[x][f].n = 0 <=> shown[x][f].rows = {})
        /\ shown'[x][f] = IF x = c /\ f = e THEN AfterPatch(shown[x][f], kind, row) ELSE shown[x][f]
  BY <1>0, <1>1 DEF TypeOK
<1>5. /\ shown' \in [Page -> [Entity -> Elements]]
      /\ \A x \in Page, f \in Entity : shown'[x][f].n = 0 <=> shown'[x][f].rows = {}
  <2>1. ASSUME NEW x \in Page, NEW f \in Entity
        PROVE  shown'[x][f] \in Elements /\ (shown'[x][f].n = 0 <=> shown'[x][f].rows = {})
    BY <1>1, <1>4, PatchType
  <2>2. ASSUME NEW x \in Page PROVE shown'[x] \in [Entity -> Elements]
    <3>1. shown[x] \in [Entity -> Elements] /\ DOMAIN shown'[x] = Entity
          /\ shown'[x] = [f \in Entity |-> shown'[x][f]]
      BY <1>0 DEF TypeOK
    <3> QED
      BY <2>1, <3>1
  <2> QED
    BY <1>0, <2>1, <2>2
<1>6. TypeOK'
  BY <1>0, <1>2, <1>5 DEF TypeOK
<1>7. \A x \in Page : \A h \in hand[x] : h.entity \in Entity
  BY <1>0 DEF TypeOK, Hand
<1>8. Unborn'
  BY <1>0, <1>1, <1>2, <1>3, <1>4 DEF Unborn, TableInv
<1>9. Announced'
  BY <1>0, <1>2, <1>3 DEF Announced, TableInv, Kind
<1>10. HandOwed'
  BY <1>0, <1>3, <1>7 DEF HandOwed, TableInv, Kind
<1>11. AnswerCurrent'
  BY <1>0, <1>2 DEF AnswerCurrent, TableInv
<1>12. Closed'
  BY <1>0 DEF Closed, TableInv
<1>13. RowOwed'
  <2> SUFFICES ASSUME NEW x \in Page, NEW f \in Entity, stream[x] # "off", f \notin missed[x]
               PROVE  RemovalOwed(x, f)' /\ InsertionOwed(x, f)' /\ PatchOwed(x, f)'
    BY <1>0 DEF RowOwed
  <2>1. CASE ~(x = c /\ f = e)
    BY <1>0, <1>3, <1>4, <2>1, CellKept DEF TableInv
  <2>2. CASE x = c /\ f = e
    <3> DEFINE el == shown[x][f]
               new == shown'[x][f]
    <3>1. /\ el \in Elements /\ (el.n = 0 <=> el.rows = {}) /\ new = AfterPatch(el, kind, row)
          /\ \A k \in Kind : Owed(x, f, k) => Owed(x, f, k)'
      BY <1>3, <1>4, <2>2
    <3>2. RemovalOwed(x, f) /\ InsertionOwed(x, f) /\ PatchOwed(x, f)
      BY DEF RowOwed, TableInv
    <3>3. kind # "delete" => row # 0 /\ row = db[f]
      BY <1>0, <2>2 DEF AnswerCurrent, TableInv
    <3>4. CASE kind = "delete"
      <4>1. new.n = 0 /\ db[f] = 0
        BY <1>0, <1>1, <2>2, <3>1, <3>4, PatchFields DEF AfterPatch, Announced, TableInv
      <4> QED
        BY <1>0, <4>1 DEF RemovalOwed, InsertionOwed, PatchOwed
    <3>5. CASE kind = "create"
      <4>1. AfterPatch(el, kind, row) = Inserted(el, row)
        BY <3>5 DEF AfterPatch
      <4>2. new.n = el.n + 1 /\ el.n \in Nat /\ new.rows = el.rows \cup {row}
        BY <1>1, <3>1, <4>1, PatchFields
      <4>3. new.rows # {db[f]} => el.n > 0 /\ el.rows # {db[f]}
        BY <3>1, <3>3, <3>5, <4>2
      <4>4. new.n > 0 /\ db[f] # 0
        BY <3>3, <3>5, <4>2
      <4> QED
        BY <1>0, <3>1, <3>2, <4>3, <4>4 DEF RemovalOwed, InsertionOwed, PatchOwed, Kind
    <3>6. CASE kind \notin {"create", "delete"}
      <4>1. AfterPatch(el, kind, row) = Patched(el, row)
        BY <3>6 DEF AfterPatch
      <4>2. new.n = el.n /\ el.n \in Nat /\ (el.n > 0 => new.rows = {row})
        BY <1>1, <3>1, <4>1, PatchFields
      <4>3. db[f] # 0 /\ row = db[f]
        BY <3>3, <3>6
      <4> QED
        BY <1>0, <3>1, <3>2, <4>2, <4>3 DEF RemovalOwed, InsertionOwed, PatchOwed, Kind
    <3> QED
      BY <3>4, <3>5, <3>6
  <2> QED
    BY <2>1, <2>2
<1> QED
  BY <1>6, <1>8, <1>9, <1>10, <1>11, <1>12, <1>13 DEF TableInv

-----------------------------------------------------------------------------
(* Pages and their streams.                                                *)

LEMMA LoadKeepsInv ==
  ASSUME TableInv, NEW c \in Page, Load(c)
  PROVE  TableInv'
<1>0. /\ TypeOK /\ loads' = loads + 1
      /\ UNCHANGED <<tick, created, db, pc, fails>>
      /\ stream' = [stream EXCEPT ![c] = "loaded"]
      /\ inbox' = [inbox EXCEPT ![c] = <<>>] /\ hand' = [hand EXCEPT ![c] = {}]
      /\ missed' = [missed EXCEPT ![c] = {}]
  BY DEF TableInv, Load, rows
<1>1. /\ shown' = [shown EXCEPT ![c] = [e \in Entity |->
                     IF db[e] = 0 THEN Absent ELSE [n |-> 1, rows |-> {db[e]}]]]
      /\ req' = [p \in Request |-> IF req[p].page = c THEN Unasked(req[p]) ELSE req[p]]
  BY DEF Load
<1>2. /\ req' \in [Request -> Work \cup {NoRequest}]
      /\ \A p \in Request : pc[p] # "idle" => req'[p] \in Work
      /\ \A p \in Request :
           /\ pc[p] # "idle" => /\ req'[p].entity = req[p].entity /\ req'[p].kind = req[p].kind
                                /\ req'[p].row = req[p].row
           /\ req'[p].page \in Page => req'[p].page = req[p].page /\ req[p].page # c
  <2>1. ASSUME NEW p \in Request
        PROVE  /\ req'[p] \in Work \cup {NoRequest}
               /\ pc[p] # "idle" =>
                    /\ req'[p] \in Work
                    /\ req'[p].entity = req[p].entity /\ req'[p].kind = req[p].kind
                    /\ req'[p].row = req[p].row
               /\ req'[p].page \in Page => req'[p].page = req[p].page /\ req[p].page # c
    <3>1. CASE req[p] = NoRequest
      <4>1. (req[p].page = None /\ pc[p] = "idle") \/ req[p] \in Work
        BY <1>0, <3>1 DEF NoRequest, Asked, TypeOK
      <4>2. req[p].page # c /\ req'[p] = req[p]
        BY <1>1, <3>1 DEF NoRequest, Asked
      <4> QED
        BY <1>0, <3>1, <4>1, <4>2 DEF TypeOK
    <3>2. CASE req[p] \in Work /\ req[p].page # c
      BY <1>1, <3>2
    <3>3. CASE req[p] \in Work /\ req[p].page = c
      <4>1. req'[p] = Asked(None, req[p].entity, req[p].kind, req[p].row)
        BY <1>1, <3>3 DEF Unasked
      <4> QED
        BY <3>3, <4>1 DEF Asked, Work
    <3> QED
      BY <1>0, <3>1, <3>2, <3>3 DEF TypeOK
  <2> QED
    BY <1>1, <2>1
<1>3. \A e \in Entity : /\ shown'[c][e] = IF db[e] = 0 THEN Absent ELSE [n |-> 1, rows |-> {db[e]}]
                        /\ shown'[c][e] \in Elements
                        /\ shown'[c][e].n = 0 <=> shown'[c][e].rows = {}
                        /\ shown'[c][e].n = 0 <=> db[e] = 0
                        /\ db[e] # 0 => shown'[c][e].rows = {db[e]}
  BY <1>0, <1>1 DEF TypeOK, Absent, Elements
<1>4. TypeOK'
  <2>1. [e \in Entity |-> IF db[e] = 0 THEN Absent ELSE [n |-> 1, rows |-> {db[e]}]]
          \in [Entity -> Elements]
    BY <1>0 DEF TypeOK, Absent, Elements
  <2>2. shown' \in [Page -> [Entity -> Elements]]
    BY <1>0, <1>1, <2>1 DEF TypeOK
  <2>3. inbox' \in [Page -> Seq(Event)]
    BY <1>0 DEF TypeOK
  <2>4. /\ stream' \in [Page -> {"off", "loaded", "live"}] /\ hand' \in [Page -> SUBSET Hand]
        /\ missed' \in [Page -> SUBSET Entity] /\ loads' \in Nat
        /\ \A x \in Page : \A g, h \in hand'[x] : g = h
    BY <1>0 DEF TypeOK
  <2>5. \A x \in Page, e \in Entity : shown'[x][e].n = 0 <=> shown'[x][e].rows = {}
    <3>1. \A x \in Page \ {c} : shown'[x] = shown[x]
      BY <1>0, <1>1 DEF TypeOK
    <3>2. \A x \in Page, e \in Entity : shown[x][e].n = 0 <=> shown[x][e].rows = {}
      BY <1>0 DEF TypeOK
    <3>3. ASSUME NEW x \in Page, NEW e \in Entity
          PROVE  shown'[x][e].n = 0 <=> shown'[x][e].rows = {}
      <4>1. CASE x = c
        BY <1>3, <4>1
      <4>2. CASE x # c
        BY <3>1, <3>2, <4>2
      <4> QED
        BY <4>1, <4>2
    <3> QED
      BY <3>3
  <2> QED
    BY <1>0, <1>2, <2>2, <2>3, <2>4, <2>5 DEF TypeOK
<1>5. /\ \A x \in Page \ {c} : /\ stream'[x] = stream[x] /\ inbox'[x] = inbox[x] /\ hand'[x] = hand[x]
                               /\ shown'[x] = shown[x] /\ missed'[x] = missed[x]
      /\ stream'[c] = "loaded" /\ inbox'[c] = <<>> /\ hand'[c] = {}
  BY <1>0, <1>1 DEF TypeOK
<1>6. /\ \A e \in Entity, k \in Kind : Publishing(e, k)' <=> Publishing(e, k)
      /\ \A x \in Page \ {c}, e \in Entity, k \in Kind : Queued(x, e, k)' <=> Queued(x, e, k)
      /\ \A e \in Entity, k \in Kind : ~Queued(c, e, k)'
  BY <1>0, <1>2, <1>5 DEF Publishing, Queued
<1>7. \A x \in Page : \A h \in hand[x] : h.entity \in Entity
  BY <1>0 DEF TypeOK, Hand
<1>8. Unborn'
  <2> SUFFICES ASSUME NEW e \in Entity \ created
               PROVE  /\ db[e] = 0
                      /\ \A p \in Request : pc[p] # "idle" => req'[p].entity # e
                      /\ \A x \in Page : /\ shown'[x][e].n = 0
                                         /\ \A kind \in Kind : ~Queued(x, e, kind)'
                                         /\ \A h \in hand'[x] : h.entity # e
    BY <1>0 DEF Unborn
  <2>1. db[e] = 0 /\ \A p \in Request : pc[p] # "idle" => req'[p].entity # e
    BY <1>2 DEF Unborn, TableInv
  <2>2. shown'[c][e].n = 0
    BY <1>3, <2>1
  <2> QED
    BY <1>5, <1>6, <2>1, <2>2 DEF Unborn, TableInv
<1>9. Announced'
  BY <1>0, <1>2, <1>6 DEF Announced, TableInv, Kind
<1>10. HandOwed'
  BY <1>0, <1>5, <1>6, <1>7 DEF HandOwed, TableInv, Owed, Kind
<1>11. AnswerCurrent'
  <2> SUFFICES ASSUME NEW q \in Request, pc[q] # "idle"
               PROVE  /\ pc[q] = "reread" => req'[q].kind = "update"
                      /\ pc[q] = "publish" => req'[q].kind \in Kind
                      /\ pc[q] \in {"publish", "reply"} /\ req'[q].kind # "delete" =>
                           /\ req'[q].row # 0
                           /\ req'[q].page \in Page /\ req'[q].entity \notin missed'[req'[q].page]
                                => req'[q].row = db[req'[q].entity]
    BY <1>0 DEF AnswerCurrent
  <2> QED
    BY <1>0, <1>2, <1>5 DEF AnswerCurrent, TableInv
<1>12. Closed'
  BY <1>5 DEF Closed, TableInv
<1>13. RowOwed'
  <2> SUFFICES ASSUME NEW x \in Page, NEW f \in Entity, stream'[x] # "off", f \notin missed'[x]
               PROVE  RemovalOwed(x, f)' /\ InsertionOwed(x, f)' /\ PatchOwed(x, f)'
    BY DEF RowOwed
  <2>1. CASE x = c
    <3>1. /\ shown'[c][f].n = 0 <=> db[f] = 0
          /\ db[f] # 0 => shown'[c][f].rows = {db[f]}
          /\ shown'[c][f] \in Elements
      BY <1>3
    <3>2. shown'[c][f].n > 0 => shown'[c][f].n # 0
      BY <3>1 DEF Elements
    <3> QED
      BY <1>0, <2>1, <3>1, <3>2 DEF RemovalOwed, InsertionOwed, PatchOwed
  <2>2. CASE x # c
    BY <1>0, <1>5, <1>6, <2>2, CellKept DEF TableInv, Owed
  <2> QED
    BY <2>1, <2>2
<1> QED
  BY <1>4, <1>8, <1>9, <1>10, <1>11, <1>12, <1>13 DEF TableInv

LEMMA SubscribeKeepsInv ==
  ASSUME TableInv, NEW c \in Page, Subscribe(c)
  PROVE  TableInv'
<1>0. /\ TypeOK /\ stream[c] = "loaded" /\ stream' = [stream EXCEPT ![c] = "live"]
      /\ UNCHANGED <<tick, created, db, pc, req, inbox, hand, shown, loads, fails, missed>>
  BY DEF TableInv, Subscribe, rows, requests
<1>1. TypeOK'
  BY <1>0 DEF TypeOK
<1>2. \A x \in Page, e \in Entity, k \in Kind :
        /\ Queued(x, e, k)' <=> Queued(x, e, k)
        /\ Publishing(e, k)' <=> Publishing(e, k)
        /\ Owed(x, e, k)' <=> Owed(x, e, k)
  BY <1>0 DEF Queued, Publishing, Owed
<1>3. \A x \in Page : \A h \in hand[x] : h.entity \in Entity
  BY <1>0 DEF TypeOK, Hand
<1>4. Unborn'
  BY <1>0, <1>2 DEF Unborn, TableInv
<1>5. Announced' /\ AnswerCurrent'
  BY <1>0, <1>2 DEF Announced, AnswerCurrent, TableInv, Kind
<1>6. HandOwed'
  BY <1>0, <1>2, <1>3 DEF HandOwed, TableInv, Kind
<1>7. Closed'
  BY <1>0 DEF Closed, TableInv, TypeOK
<1>8. RowOwed'
  <2> SUFFICES ASSUME NEW x \in Page, NEW f \in Entity, stream'[x] # "off", f \notin missed[x]
               PROVE  RemovalOwed(x, f)' /\ InsertionOwed(x, f)' /\ PatchOwed(x, f)'
    BY <1>0 DEF RowOwed
  <2>1. stream[x] # "off"
    BY <1>0 DEF TypeOK
  <2> QED
    BY <1>0, <1>2, <2>1, CellKept DEF TableInv
<1> QED
  BY <1>1, <1>4, <1>5, <1>6, <1>7, <1>8 DEF TableInv

LEMMA BreakKeepsInv ==
  ASSUME TableInv, NEW c \in Page, Break(c)
  PROVE  TableInv'
<1>0. /\ TypeOK /\ stream[c] = "live" /\ fails' = fails + 1
      /\ UNCHANGED <<tick, created, db, pc, req, shown, loads>>
      /\ stream' = [stream EXCEPT ![c] = "loaded"]
      /\ inbox' = [inbox EXCEPT ![c] = <<>>] /\ hand' = [hand EXCEPT ![c] = {}]
      /\ missed' = [missed EXCEPT ![c] = missed[c] \cup {e \in Undelivered(c) : ~Current(c, e)}]
  BY DEF TableInv, Break, rows, requests
<1>1. /\ \A x \in Page \ {c} : /\ stream'[x] = stream[x] /\ inbox'[x] = inbox[x] /\ hand'[x] = hand[x]
                               /\ missed'[x] = missed[x]
      /\ stream'[c] = "loaded" /\ inbox'[c] = <<>> /\ hand'[c] = {}
      /\ missed'[c] = missed[c] \cup {e \in Undelivered(c) : ~Current(c, e)}
  BY <1>0 DEF TypeOK
<1>2. /\ \A h \in hand[c] : h.entity \in Entity /\ h.entity \in Undelivered(c)
      /\ \A i \in DOMAIN inbox[c] : inbox[c][i].entity \in Entity
      /\ \A e \in Entity, k \in Kind : Queued(c, e, k) => e \in Undelivered(c)
  <2>1. inbox[c] \in Seq(Event) /\ hand[c] \in SUBSET Hand
    BY <1>0 DEF TypeOK
  <2>2. \A i \in DOMAIN inbox[c] : inbox[c][i] \in Event
    BY <2>1, ElementOfSeq, LenProperties
  <2>3. \A e \in Entity, k \in Kind : [entity |-> e, type |-> k].entity = e
    OBVIOUS
  <2> QED
    BY <2>1, <2>2, <2>3 DEF Undelivered, Queued, Hand, Event
<1>3. TypeOK'
  <2>1. Undelivered(c) \subseteq Entity
    BY <1>2 DEF Undelivered
  <2> QED
    BY <1>0, <2>1 DEF TypeOK
<1>4. /\ \A e \in Entity, k \in Kind : Publishing(e, k)' <=> Publishing(e, k)
      /\ \A x \in Page \ {c}, e \in Entity, k \in Kind : Queued(x, e, k)' <=> Queued(x, e, k)
      /\ \A e \in Entity, k \in Kind : ~Queued(c, e, k)'
  BY <1>0, <1>1 DEF Publishing, Queued
<1>5. \A x \in Page : \A h \in hand[x] : h.entity \in Entity
  BY <1>0 DEF TypeOK, Hand
<1>6. Unborn'
  BY <1>0, <1>1, <1>4 DEF Unborn, TableInv
<1>7. Announced'
  BY <1>0, <1>4 DEF Announced, TableInv, Kind
<1>8. HandOwed'
  BY <1>0, <1>1, <1>4, <1>5 DEF HandOwed, TableInv, Owed, Kind
<1>9. AnswerCurrent'
  <2>1. \A x \in Page : missed[x] \subseteq missed'[x]
    BY <1>1
  <2> QED
    BY <1>0, <2>1 DEF AnswerCurrent, TableInv
<1>10. Closed'
  BY <1>1 DEF Closed, TableInv
<1>11. RowOwed'
  <2> SUFFICES ASSUME NEW x \in Page, NEW f \in Entity, stream'[x] # "off", f \notin missed'[x]
               PROVE  RemovalOwed(x, f)' /\ InsertionOwed(x, f)' /\ PatchOwed(x, f)'
    BY DEF RowOwed
  <2>1. CASE x # c
    BY <1>0, <1>1, <1>4, <2>1, CellKept DEF TableInv, Owed
  <2>2. CASE x = c /\ f \in Undelivered(c)
    <3>1. Current(c, f) /\ shown[c][f] \in Elements
      BY <1>0, <1>1, <2>2 DEF TypeOK
    <3>2. (Absent).n = 0
      BY DEF Absent
    <3> QED
      BY <1>0, <2>2, <3>1, <3>2 DEF Current, RemovalOwed, InsertionOwed, PatchOwed
  <2>3. CASE x = c /\ f \notin Undelivered(c)
    <3>1. RemovalOwed(c, f) /\ InsertionOwed(c, f) /\ PatchOwed(c, f)
      BY <1>0, <1>1, <2>3 DEF RowOwed, TableInv
    <3>2. /\ \A k \in Kind : Owed(c, f, k) => Owed(c, f, k)'
          /\ \A h \in hand[c] : h.entity # f
      BY <1>2, <1>4, <2>3 DEF Owed
    <3> QED
      BY <1>0, <2>3, <3>1, <3>2 DEF RemovalOwed, InsertionOwed, PatchOwed, Kind
  <2> QED
    BY <2>1, <2>2, <2>3
<1> QED
  BY <1>3, <1>6, <1>7, <1>8, <1>9, <1>10, <1>11 DEF TableInv

\* What taking the next event of a page changes of its queue.
LEMMA TakeFacts ==
  ASSUME TypeOK, NEW c \in Page, Take(c)
  PROVE  /\ NextEvent(c).entity \in Entity /\ NextEvent(c).type \in Kind
         /\ hand[c] = {} /\ inbox[c] # <<>>
         /\ inbox' \in [Page -> Seq(Event)]
         /\ \A x \in Page \ {c} : inbox'[x] = inbox[x]
         /\ UNCHANGED <<tick, created, db, pc, req, stream, loads>>
         /\ \A x \in Page, e \in Entity, k \in Kind :
              /\ Publishing(e, k)' <=> Publishing(e, k)
              /\ Queued(x, e, k) <=> \/ Queued(x, e, k)'
                                     \/ x = c /\ e = NextEvent(c).entity /\ k = NextEvent(c).type
<1> DEFINE q == inbox[c]
<1>1. /\ q # <<>> /\ hand[c] = {} /\ q \in Seq(Event)
      /\ inbox' = [inbox EXCEPT ![c] = Tail(q)]
      /\ UNCHANGED <<tick, created, db, pc, req, stream, loads>>
  BY DEF Take, rows, requests, TypeOK
<1>2. Head(q) \in Event /\ Tail(q) \in Seq(Event)
  BY <1>1, InTail
<1>3. /\ inbox' \in [Page -> Seq(Event)] /\ inbox'[c] = Tail(q)
      /\ \A x \in Page \ {c} : inbox'[x] = inbox[x]
  BY <1>1, <1>2 DEF TypeOK
<1>4. ASSUME NEW e \in Entity, NEW k \in Kind
      PROVE  Queued(c, e, k) <=> Queued(c, e, k)' \/ (e = Head(q).entity /\ k = Head(q).type)
  <2> DEFINE y == [entity |-> e, type |-> k]
             t == Tail(q)
  <2>1. (\E i \in DOMAIN q : q[i] = y) <=> y = Head(q) \/ \E i \in DOMAIN t : t[i] = y
    <3> HIDE DEF y
    <3> QED
      BY <1>1, InTail
  <2>2. y = Head(q) <=> e = Head(q).entity /\ k = Head(q).type
    BY <1>2 DEF Event
  <2>3. Queued(c, e, k)' <=> \E i \in DOMAIN t : t[i] = y
    BY <1>3 DEF Queued
  <2> QED
    BY <2>1, <2>2, <2>3 DEF Queued
<1>5. \A x \in Page \ {c}, e \in Entity, k \in Kind : Queued(x, e, k)' <=> Queued(x, e, k)
  BY <1>3 DEF Queued
<1>6. \A e \in Entity, k \in Kind : Publishing(e, k)' <=> Publishing(e, k)
  BY <1>1 DEF Publishing
<1>7. NextEvent(c) = Head(q) /\ Head(q).entity \in Entity /\ Head(q).type \in Kind
  BY <1>2 DEF NextEvent, Event
<1>8. ASSUME NEW x \in Page, NEW e \in Entity, NEW k \in Kind
      PROVE  Queued(x, e, k) <=> \/ Queued(x, e, k)'
                                 \/ x = c /\ e = NextEvent(c).entity /\ k = NextEvent(c).type
  <2>1. CASE x = c
    BY <1>4, <1>7, <2>1
  <2>2. CASE x # c
    BY <1>5, <2>2
  <2> QED
    BY <2>1, <2>2
<1> QED
  BY <1>1, <1>3, <1>6, <1>7, <1>8

\* Reading the row of an event: it is in hand if it is there, or excepted.
LEMMA ReadKeepsInv ==
  ASSUME TableInv, NEW c \in Page, Take(c), NextEvent(c).type # "delete",
         shown' = shown, fails' \in Nat,
         \/ /\ hand' = [hand EXCEPT ![c] = {}]
            /\ \/ db[NextEvent(c).entity] = 0 /\ missed' = missed
               \/ missed' = [missed EXCEPT ![c] = @ \cup {NextEvent(c).entity}]
         \/ /\ db[NextEvent(c).entity] # 0 /\ missed' = missed
            /\ hand' = [hand EXCEPT ![c] = {[entity |-> NextEvent(c).entity,
                          type |-> NextEvent(c).type, row |-> db[NextEvent(c).entity]]}]
  PROVE  TableInv'
<1> DEFINE e == NextEvent(c).entity
           k0 == NextEvent(c).type
           h0 == [entity |-> e, type |-> k0, row |-> db[e]]
<1>0. TypeOK
  BY DEF TableInv
<1>1. /\ e \in Entity /\ k0 \in Kind \ {"delete"}
      /\ hand[c] = {} /\ inbox[c] # <<>>
      /\ inbox' \in [Page -> Seq(Event)]
      /\ \A x \in Page \ {c} : inbox'[x] = inbox[x]
      /\ UNCHANGED <<tick, created, db, pc, req, stream, loads>>
      /\ \A x \in Page, f \in Entity, k \in Kind :
           /\ Publishing(f, k)' <=> Publishing(f, k)
           /\ Queued(x, f, k) <=> Queued(x, f, k)' \/ (x = c /\ f = e /\ k = k0)
  BY <1>0, TakeFacts
<1>2. h0 \in Hand /\ h0.entity = e /\ h0.type = k0 /\ h0.row = db[e]
  BY <1>0, <1>1 DEF Hand, Kind, TypeOK
<1>3. /\ hand' \in [Page -> SUBSET Hand]
      /\ \A x \in Page \ {c} : hand'[x] = hand[x]
      /\ hand'[c] = {} \/ (hand'[c] = {h0} /\ db[e] # 0)
      /\ db[e] # 0 /\ e \notin missed'[c] => hand'[c] = {h0}
      /\ missed' \in [Page -> SUBSET Entity]
      /\ \A x \in Page : missed[x] \subseteq missed'[x]
  <2>0. ASSUME hand' = [hand EXCEPT ![c] = {}]
        PROVE  /\ hand' \in [Page -> SUBSET Hand] /\ hand'[c] = {}
               /\ \A x \in Page \ {c} : hand'[x] = hand[x]
    BY <1>0, <2>0 DEF TypeOK
  <2>1. CASE /\ hand' = [hand EXCEPT ![c] = {}]
             /\ db[e] = 0 /\ missed' = missed
    <3> HIDE DEF h0, e
    <3> QED
      BY <1>0, <2>0, <2>1 DEF TypeOK
  <2>2. CASE /\ hand' = [hand EXCEPT ![c] = {}]
             /\ missed' = [missed EXCEPT ![c] = @ \cup {e}]
    <3> HIDE DEF h0, e
    <3>1. missed' \in [Page -> SUBSET Entity] /\ e \in missed'[c]
          /\ \A x \in Page : missed[x] \subseteq missed'[x]
      BY <1>0, <1>1, <2>2 DEF TypeOK
    <3> QED
      BY <2>0, <2>2, <3>1
  <2>3. CASE db[e] # 0 /\ missed' = missed /\ hand' = [hand EXCEPT ![c] = {h0}]
    <3> HIDE DEF h0
    <3> QED
      BY <1>0, <1>2, <2>3 DEF TypeOK
  <2> QED
    BY <2>1, <2>2, <2>3
<1>4. TypeOK'
  <2>1. ASSUME NEW x \in Page PROVE \A g, h \in hand'[x] : g = h
    <3> HIDE DEF h0, e
    <3>1. CASE x = c
      BY <1>3, <3>1
    <3>2. CASE x # c
      BY <1>0, <1>3, <3>2 DEF TypeOK
    <3> QED
      BY <3>1, <3>2
  <2> QED
    BY <1>0, <1>1, <1>3, <2>1 DEF TypeOK
<1>5. \A x \in Page : \A h \in hand[x] : h.entity \in Entity
  BY <1>0 DEF TypeOK, Hand
<1>6. Unborn'
  <2>1. e \in created
    BY <1>1 DEF Unborn, TableInv
  <2>2. ASSUME NEW f \in Entity \ created, NEW x \in Page, NEW h \in hand'[x] PROVE h.entity # f
    <3> HIDE DEF h0, e
    <3>1. CASE x = c
      BY <1>2, <1>3, <2>1, <3>1
    <3>2. CASE x # c
      BY <1>3, <3>2 DEF Unborn, TableInv
    <3> QED
      BY <3>1, <3>2
  <2> QED
    BY <1>1, <2>2 DEF Unborn, TableInv
<1>7. Announced'
  BY <1>1 DEF Announced, TableInv, Kind
<1>8. HandOwed'
  <2> SUFFICES ASSUME NEW x \in Page, NEW h \in hand'[x]
               PROVE  /\ h.row # 0
                      /\ h.entity \notin missed'[x] /\ h.row # db[h.entity] =>
                           Owed(x, h.entity, IF db[h.entity] = 0 THEN "delete" ELSE "update")'
    BY <1>1 DEF HandOwed
  <2>1. CASE x = c
    BY <1>2, <1>3, <2>1
  <2>2. CASE x # c
    BY <1>1, <1>3, <1>5, <2>2 DEF HandOwed, TableInv, Owed, Kind
  <2> QED
    BY <2>1, <2>2
<1>9. AnswerCurrent'
  BY <1>1, <1>3 DEF AnswerCurrent, TableInv
<1>10. Closed'
  BY <1>1, <1>3 DEF Closed, TableInv
<1>11. RowOwed'
  <2> SUFFICES ASSUME NEW x \in Page, NEW f \in Entity, stream[x] # "off", f \notin missed'[x]
               PROVE  RemovalOwed(x, f)' /\ InsertionOwed(x, f)' /\ PatchOwed(x, f)'
    BY <1>1 DEF RowOwed
  <2>1. f \notin missed[x]
    BY <1>3
  <2>2. CASE x # c
    BY <1>0, <1>1, <1>3, <2>1, <2>2, CellKept DEF TableInv, Owed
  <2>3. CASE x = c
    <3>1. RemovalOwed(c, f) /\ InsertionOwed(c, f) /\ PatchOwed(c, f)
      BY <2>1, <2>3 DEF RowOwed, TableInv
    <3>2. \A k \in Kind : Owed(c, f, k) /\ (f = e => k # k0) => Owed(c, f, k)'
      BY <1>1 DEF Owed
    <3>3. CASE f # e
      BY <1>1, <2>3, <3>1, <3>2, <3>3 DEF RemovalOwed, InsertionOwed, PatchOwed, Kind
    <3>4. CASE f = e /\ db[e] = 0
      BY <1>1, <2>3, <3>1, <3>2, <3>4 DEF RemovalOwed, InsertionOwed, PatchOwed, Kind
    <3>5. CASE f = e /\ db[e] # 0
      <4>1. hand'[c] = {h0}
        BY <1>3, <2>3, <3>5
      <4> QED
        BY <1>1, <1>2, <2>3, <3>1, <3>2, <3>5, <4>1 DEF RemovalOwed, InsertionOwed, PatchOwed, Kind
    <3> QED
      BY <3>3, <3>4, <3>5
  <2> QED
    BY <2>2, <2>3
<1> QED
  BY <1>4, <1>6, <1>7, <1>8, <1>9, <1>10, <1>11 DEF TableInv

LEMMA StreamReadKeepsInv ==
  ASSUME TableInv, NEW c \in Page, StreamRead(c)
  PROVE  TableInv'
<1>1. TypeOK /\ Take(c) /\ NextEvent(c).type # "delete" /\ UNCHANGED <<shown, fails, missed>>
  BY DEF StreamRead, TableInv
<1>2. CASE db[NextEvent(c).entity] = 0
  BY <1>1, <1>2, ReadKeepsInv DEF StreamRead, TypeOK
<1>3. CASE db[NextEvent(c).entity] # 0
  BY <1>1, <1>3, ReadKeepsInv DEF StreamRead, TypeOK
<1> QED
  BY <1>2, <1>3

LEMMA StreamReadFailsKeepsInv ==
  ASSUME TableInv, NEW c \in Page, StreamReadFails(c)
  PROVE  TableInv'
<1>1. TypeOK /\ Take(c) /\ NextEvent(c).type # "delete" /\ UNCHANGED <<hand, shown>> /\ fails' \in Nat
  BY DEF StreamReadFails, TableInv, TypeOK
<1>2. hand' = [hand EXCEPT ![c] = {}]
  BY <1>1 DEF Take, TypeOK
<1> QED
  BY <1>1, <1>2, ReadKeepsInv DEF StreamReadFails

\* A patch of one row of one page keeps the types of what is shown.
LEMMA ShownType ==
  ASSUME TypeOK, NEW c \in Page, NEW e \in Entity, NEW el \in Elements, (el.n = 0 <=> el.rows = {}),
         shown' = [shown EXCEPT ![c][e] = el]
  PROVE  /\ shown' \in [Page -> [Entity -> Elements]]
         /\ \A x \in Page, f \in Entity :
              /\ shown'[x][f] = IF x = c /\ f = e THEN el ELSE shown[x][f]
              /\ shown'[x][f].n = 0 <=> shown'[x][f].rows = {}
<1>1. /\ shown' \in [Page -> [Entity -> Elements]]
      /\ \A x \in Page, f \in Entity :
           shown'[x][f] = IF x = c /\ f = e THEN el ELSE shown[x][f]
  BY DEF TypeOK
<1> QED
  BY <1>1 DEF TypeOK

\* What the stream of c has in hand is e, kind and row.
LEMMA SentKeepsInv ==
  ASSUME TableInv, NEW c \in Page, NEW e \in Entity, NEW kind \in {"create", "update"}, NEW row \in Nat,
         hand[c] = {[entity |-> e, type |-> kind, row |-> row]}, hand' = [hand EXCEPT ![c] = {}],
         shown' = [shown EXCEPT ![c][e] = AfterPatch(@, kind, row)],
         UNCHANGED <<tick, created, db, pc, req, stream, inbox, loads, fails, missed>>
  PROVE  TableInv'
<1>0. TypeOK
  BY DEF TableInv
<1> DEFINE el == shown[c][e]
           new == AfterPatch(el, kind, row)
<1>1. PICK h \in hand[c] : h.entity = e /\ h.type = kind /\ h.row = row
  OBVIOUS
<1>2. (\A g \in hand[c] : g = h) /\ el \in Elements /\ (el.n = 0 <=> el.rows = {})
  BY <1>0 DEF TypeOK
<1>3. new \in Elements /\ (new.n = 0 <=> new.rows = {})
  BY <1>2, PatchType
<1>4. /\ shown' \in [Page -> [Entity -> Elements]]
      /\ \A x \in Page, f \in Entity :
           /\ shown'[x][f] = IF x = c /\ f = e THEN new ELSE shown[x][f]
           /\ shown'[x][f].n = 0 <=> shown'[x][f].rows = {}
  <2> HIDE DEF new
  <2>1. shown' = [shown EXCEPT ![c][e] = new]
    BY DEF new
  <2>2. /\ shown' \in [Page -> [Entity -> Elements]]
        /\ \A x \in Page, f \in Entity :
             shown'[x][f] = IF x = c /\ f = e THEN new ELSE shown[x][f]
    BY <1>0, <1>3, <2>1 DEF TypeOK
  <2>3. ASSUME NEW x \in Page, NEW f \in Entity
        PROVE  shown'[x][f].n = 0 <=> shown'[x][f].rows = {}
    <3>1. CASE x = c /\ f = e
      BY <1>3, <2>2, <3>1
    <3>2. CASE ~(x = c /\ f = e)
      BY <1>0, <2>2, <3>2 DEF TypeOK
    <3> QED
      BY <3>1, <3>2
  <2> QED
    BY <2>2, <2>3
<1>5. TypeOK'
  BY <1>0, <1>4 DEF TypeOK
<1>6. \A x \in Page, f \in Entity, k \in Kind :
        /\ Publishing(f, k)' <=> Publishing(f, k)
        /\ Queued(x, f, k)' <=> Queued(x, f, k)
        /\ Owed(x, f, k)' <=> Owed(x, f, k)
  BY <1>0 DEF Publishing, Queued, Owed
<1>7. /\ \A x \in Page : \A g \in hand[x] : g.entity \in Entity
      /\ \A x \in Page \ {c} : hand'[x] = hand[x]
      /\ hand'[c] = {}
  BY <1>0 DEF TypeOK, Hand
<1>8. Unborn'
  <2>1. e \in created
    BY <1>1 DEF Unborn, TableInv
  <2> QED
    BY <1>0, <1>4, <1>6, <1>7, <2>1 DEF Unborn, TableInv
<1>9. Announced' /\ AnswerCurrent'
  BY <1>0, <1>6 DEF Announced, AnswerCurrent, TableInv, Kind
<1>10. HandOwed'
  BY <1>0, <1>6, <1>7 DEF HandOwed, TableInv, Kind
<1>11. Closed'
  BY <1>0, <1>7 DEF Closed, TableInv
<1>12. RowOwed'
  <2> SUFFICES ASSUME NEW x \in Page, NEW f \in Entity, stream[x] # "off", f \notin missed[x]
               PROVE  RemovalOwed(x, f)' /\ InsertionOwed(x, f)' /\ PatchOwed(x, f)'
    BY <1>0 DEF RowOwed
  <2>0. RemovalOwed(x, f) /\ InsertionOwed(x, f) /\ PatchOwed(x, f)
    BY DEF RowOwed, TableInv
  <2>1. CASE x # c
    BY <1>0, <1>4, <1>6, <1>7, <2>1, CellKept DEF TableInv
  <2>2. CASE x = c /\ f # e
    BY <1>0, <1>1, <1>2, <1>4, <1>6, <2>0, <2>2 DEF RemovalOwed, InsertionOwed, PatchOwed, Kind
  <2>3. CASE x = c /\ f = e
    <3>1. /\ row # 0
          /\ row # db[e] => Owed(c, e, IF db[e] = 0 THEN "delete" ELSE "update")
      BY <1>1, <2>3 DEF HandOwed, TableInv
    <3>2. shown'[c][e] = new
      BY <1>4
    <3>3. CASE kind = "create"
      <4>1. new = Inserted(el, row)
        BY <3>3 DEF AfterPatch
      <4>2. new.n = el.n + 1 /\ el.n \in Nat /\ new.rows = el.rows \cup {row}
        BY <1>2, <4>1, PatchFields
      <4>3. new.n > 0 /\ (new.rows # {db[e]} => row # db[e] \/ (el.n > 0 /\ el.rows # {db[e]}))
        BY <1>2, <4>2
      <4> HIDE DEF new
      <4> QED
        BY <1>0, <1>1, <1>2, <1>6, <2>0, <2>3, <3>1, <3>2, <3>3, <4>3
           DEF RemovalOwed, InsertionOwed, PatchOwed, Kind
    <3>4. CASE kind = "update"
      <4>1. new = Patched(el, row)
        BY <3>4 DEF AfterPatch
      <4>2. new.n = el.n /\ el.n \in Nat /\ (el.n > 0 => new.rows = {row})
        BY <1>2, <4>1, PatchFields
      <4> HIDE DEF new
      <4>3. RemovalOwed(c, e)'
        BY <1>0, <1>1, <1>2, <1>6, <2>0, <2>3, <3>2, <4>2 DEF RemovalOwed, Kind
      <4>4. InsertionOwed(c, e)'
        BY <1>0, <1>1, <1>2, <1>6, <2>0, <2>3, <3>2, <3>4, <4>2 DEF InsertionOwed, Kind
      <4>5. PatchOwed(c, e)'
        BY <1>0, <1>1, <1>2, <1>6, <2>3, <3>1, <3>2, <4>2 DEF PatchOwed, Kind
      <4> QED
        BY <2>3, <4>3, <4>4, <4>5
    <3> QED
      BY <3>3, <3>4
  <2> QED
    BY <2>1, <2>2, <2>3
<1> QED
  BY <1>5, <1>8, <1>9, <1>10, <1>11, <1>12 DEF TableInv

LEMMA StreamPatchKeepsInv ==
  ASSUME TableInv, NEW c \in Page, StreamPatch(c)
  PROVE  TableInv'
<1>0. /\ TypeOK /\ hand' = [hand EXCEPT ![c] = {}]
      /\ UNCHANGED <<tick, created, db, pc, req, stream, inbox, loads, fails, missed>>
  BY DEF TableInv, StreamPatch, rows, requests
<1>1. PICK h \in hand[c] : shown' = [shown EXCEPT ![c][h.entity] = AfterPatch(@, h.type, h.row)]
  BY DEF StreamPatch
<1>2. PICK e \in Entity, kind \in {"create", "update"}, row \in Nat :
        h = [entity |-> e, type |-> kind, row |-> row]
  BY <1>0 DEF TypeOK, Hand
<1>3. hand[c] = {[entity |-> e, type |-> kind, row |-> row]}
  BY <1>0, <1>2 DEF TypeOK
<1>4. shown' = [shown EXCEPT ![c][e] = AfterPatch(@, kind, row)]
  BY <1>1, <1>2
<1> QED
  BY <1>0, <1>3, <1>4, SentKeepsInv

LEMMA StreamRemoveKeepsInv ==
  ASSUME TableInv, NEW c \in Page, StreamRemove(c)
  PROVE  TableInv'
<1> DEFINE e == NextEvent(c).entity
<1>0. /\ TypeOK /\ Take(c) /\ NextEvent(c).type = "delete"
      /\ shown' = [shown EXCEPT ![c][e] = Absent] /\ UNCHANGED <<hand, fails, missed>>
  BY DEF TableInv, StreamRemove
<1>1. /\ e \in Entity
      /\ inbox[c] # <<>> /\ inbox' \in [Page -> Seq(Event)]
      /\ \A x \in Page \ {c} : inbox'[x] = inbox[x]
      /\ UNCHANGED <<tick, created, db, pc, req, stream, loads>>
      /\ \A x \in Page, f \in Entity, k \in Kind :
           /\ Publishing(f, k)' <=> Publishing(f, k)
           /\ Queued(x, f, k) <=> Queued(x, f, k)' \/ (x = c /\ f = e /\ k = "delete")
  BY <1>0, TakeFacts
<1>2. db[e] = 0
  <2>1. Queued(c, e, "delete")
    BY <1>1 DEF Kind
  <2> QED
    BY <1>1, <2>1 DEF Announced, TableInv
<1>3. Absent \in Elements /\ (Absent).n = 0 /\ (Absent).rows = {}
  BY DEF Absent, Elements
<1>4. /\ shown' \in [Page -> [Entity -> Elements]]
      /\ \A x \in Page, f \in Entity :
           /\ shown'[x][f] = IF x = c /\ f = e THEN Absent ELSE shown[x][f]
           /\ shown'[x][f].n = 0 <=> shown'[x][f].rows = {}
  <2> HIDE DEF e
  <2> QED
    BY <1>0, <1>1, <1>3, ShownType
<1>5. TypeOK'
  BY <1>0, <1>1, <1>4 DEF TypeOK
<1>6. \A x \in Page : \A h \in hand[x] : h.entity \in Entity
  BY <1>0 DEF TypeOK, Hand
<1>7. \A x \in Page, f \in Entity, k \in Kind :
        ~(x = c /\ f = e /\ k = "delete") => (Owed(x, f, k) => Owed(x, f, k)')
  BY <1>1 DEF Owed
<1>8. Unborn'
  BY <1>0, <1>1, <1>3, <1>4 DEF Unborn, TableInv
<1>9. Announced' /\ AnswerCurrent'
  BY <1>0, <1>1 DEF Announced, AnswerCurrent, TableInv, Kind
<1>10. HandOwed'
  <2>1. hand[c] = {}
    BY <1>0 DEF Take
  <2> QED
    BY <1>0, <1>1, <1>6, <1>7, <2>1 DEF HandOwed, TableInv, Kind
<1>11. Closed'
  BY <1>0, <1>1 DEF Closed, TableInv
<1>12. RowOwed'
  <2> SUFFICES ASSUME NEW x \in Page, NEW f \in Entity, stream[x] # "off", f \notin missed[x]
               PROVE  RemovalOwed(x, f)' /\ InsertionOwed(x, f)' /\ PatchOwed(x, f)'
    BY <1>0, <1>1 DEF RowOwed
  <2>1. CASE x = c /\ f = e
    BY <1>1, <1>2, <1>3, <1>4, <2>1 DEF RemovalOwed, InsertionOwed, PatchOwed
  <2>2. CASE ~(x = c /\ f = e)
    BY <1>0, <1>1, <1>4, <1>7, <2>2, CellKept DEF TableInv
  <2> QED
    BY <2>1, <2>2
<1> QED
  BY <1>5, <1>8, <1>9, <1>10, <1>11, <1>12 DEF TableInv

-----------------------------------------------------------------------------
LEMMA TableInit == Init => TableInv
<1> SUFFICES ASSUME Init PROVE TableInv
  OBVIOUS
<1> USE DEF Init, Absent, NoRows
<1>1. \A c \in Page : \A e \in Entity : shown[c][e] = Absent
  OBVIOUS
<1>2. TypeOK
  BY DEF TypeOK, Elements
<1>3. Unborn /\ Announced /\ AnswerCurrent
  BY DEF Unborn, Announced, AnswerCurrent, Queued
<1>4. HandOwed /\ Closed
  BY DEF HandOwed, Closed
<1>5. RowOwed
  BY DEF RowOwed
<1> QED
  BY <1>2, <1>3, <1>4, <1>5 DEF TableInv

LEMMA TableNext == TableInv /\ [Next]_vars => TableInv'
<1> SUFFICES ASSUME TableInv, [Next]_vars PROVE TableInv'
  OBVIOUS
<1>1. ASSUME NEW p \in Request, Start(p) PROVE TableInv'
  <2>1. PICK c \in Page \cup {None}, e \in Entity :
          Create(p, c, e) \/ Update(p, c, e) \/ Delete(p, c, e) \/ View(p, c, e)
    BY <1>1 DEF Start
  <2> QED
    BY <2>1, CreateKeepsInv, UpdateKeepsInv, DeleteKeepsInv, ViewKeepsInv
<1>2. ASSUME NEW p \in Request, Step(p) PROVE TableInv'
  BY <1>2, RereadKeepsInv, RereadNotFoundKeepsInv, PublishKeepsInv, PublishFailsKeepsInv,
     ReplyKeepsInv, ReplyFailsKeepsInv DEF Step
<1>3. ASSUME NEW c \in Page, Load(c) \/ Subscribe(c) \/ Break(c) PROVE TableInv'
  BY <1>3, LoadKeepsInv, SubscribeKeepsInv, BreakKeepsInv
<1>4. ASSUME NEW c \in Page, Stream(c) PROVE TableInv'
  BY <1>4, StreamReadKeepsInv, StreamReadFailsKeepsInv, StreamPatchKeepsInv, StreamRemoveKeepsInv
     DEF Stream
<1>5. CASE UNCHANGED vars
  <2> USE <1>5 DEF vars, TableInv
  <2>1. TypeOK' /\ AnswerCurrent' /\ Closed'
    BY DEF TypeOK, AnswerCurrent, Closed
  <2>2. Unborn' /\ Announced'
    BY DEF Unborn, Announced, Queued
  <2>3. HandOwed'
    BY DEF HandOwed, Owed, Publishing, Queued
  <2>4. RowOwed'
    BY DEF RowOwed, RemovalOwed, InsertionOwed, PatchOwed, Owed, Publishing, Queued
  <2> QED
    BY <2>1, <2>2, <2>3, <2>4
<1> QED
  BY <1>1, <1>2, <1>3, <1>4, <1>5 DEF Next

(***************************************************************************)
(* The inductive invariant holds in every behaviour.                       *)
(***************************************************************************)
THEOREM TableInvariant == Spec => []TableInv
BY TableInit, TableNext, PTL DEF Spec

(***************************************************************************)
(* Every variable keeps its type, and a page shows no version of a row it  *)
(* has no element for.                                                     *)
(***************************************************************************)
THEOREM TableTypes == Spec => []TypeOK
<1>1. TableInv => TypeOK
  BY DEF TableInv
<1> QED
  BY TableInvariant, <1>1, PTL

(***************************************************************************)
(* What an open page shows of a row is the row, or what puts it right is   *)
(* still to come.                                                          *)
(***************************************************************************)
THEOREM NoRowForgotten == Spec => []RowOwed
<1>1. TableInv => RowOwed
  BY DEF TableInv
<1> QED
  BY TableInvariant, <1>1, PTL

(***************************************************************************)
(* A page with nothing of a row on its way to it shows the row as it is:   *)
(* nothing that is still owed is all that RowOwed lets a page lack.        *)
(***************************************************************************)
THEOREM RowsRight == Spec => []CurrentAtRest
<1>1. TypeOK /\ RowOwed => CurrentAtRest
  <2> SUFFICES ASSUME TypeOK, RowOwed, NEW c \in Page, NEW e \in Entity,
                      stream[c] # "off", e \notin missed[c], Settled(c, e)
               PROVE  Current(c, e)
    BY DEF CurrentAtRest
  <2>1. \A kind : ~Owed(c, e, kind)
    BY DEF Owed, Publishing, Queued, Settled, Undelivered
  <2>2. \A h \in hand[c] : h.entity # e
    BY DEF Settled, Undelivered
  <2>3. RemovalOwed(c, e) /\ InsertionOwed(c, e) /\ PatchOwed(c, e)
    BY DEF RowOwed
  <2>4. /\ shown[c][e] \in Elements
        /\ shown[c][e].n = 0 <=> shown[c][e].rows = {}
    BY DEF TypeOK
  <2>5. CASE db[e] = 0
    <3>1. shown[c][e].n = 0
      BY <2>1, <2>3, <2>4, <2>5 DEF RemovalOwed, Elements
    <3> QED
      BY <2>4, <2>5, <3>1 DEF Current, Absent, Elements
  <2>6. CASE db[e] # 0
    BY <2>1, <2>2, <2>3, <2>4, <2>6 DEF InsertionOwed, PatchOwed, Current, Elements
  <2> QED
    BY <2>5, <2>6
<1> QED
  BY <1>1, TableTypes, NoRowForgotten, PTL
=============================================================================

-------------------------- MODULE EntityStore_proofs --------------------------
(***************************************************************************)
(* Proofs about EntityStore, for any sets of entities, organizations and   *)
(* requests and any bounds; and, with the theorems about the feed, about   *)
(* LiveDashboard: what a dashboard shows of the rows.                      *)
(***************************************************************************)
EXTENDS LiveDashboard, FiniteSetTheorems, SequenceTheorems, TLAPS

USE StoreAssumption

-----------------------------------------------------------------------------
(* Types.                                                                  *)

LEMMA KeyTypes ==
  /\ NoEntry \in KeyValue /\ ~NoEntry.there
  /\ \A f, o \in Nat : Entry(f, o) \in KeyValue /\ Entry(f, o).there
BY DEF NoEntry, KeyValue, Entry

\* Going on to the next row lets go of the one in hand and keeps the rest.
LEMMA NextRow ==
  ASSUME TypeOK, NEW e \in Entity, sync.held
  PROVE  /\ SyncNext(e) \in [held : BOOLEAN, org : Org \cup {"none"}, name : Nat,
               todo : SUBSET Entity, cur : SUBSET Entity, saved : KeyValue]
         /\ SyncNext(e).held = sync.held /\ SyncNext(e).org = sync.org
         /\ SyncNext(e).name = sync.name
         /\ SyncNext(e).todo = sync.todo \ {e} /\ SyncNext(e).cur = {}
<1> DEFINE T == [held : BOOLEAN, org : Org \cup {"none"}, name : Nat,
                 todo : SUBSET Entity, cur : SUBSET Entity, saved : KeyValue]
<1> DEFINE a == [sync EXCEPT !.todo = sync.todo \ {e}]
<1> DEFINE b == [a EXCEPT !.cur = {}]
<1> DEFINE c == [b EXCEPT !.saved = NoEntry]
<1>1. sync \in T
  BY DEF TypeOK
<1>2. /\ a \in T /\ a.held = sync.held /\ a.org = sync.org /\ a.name = sync.name
      /\ a.todo = sync.todo \ {e}
  BY <1>1
<1> HIDE DEF a
<1>3. /\ b \in T /\ b.held = a.held /\ b.org = a.org /\ b.name = a.name
      /\ b.todo = a.todo /\ b.cur = {}
  BY <1>2
<1> HIDE DEF b
<1>4. /\ c \in T /\ c.held = b.held /\ c.org = b.org /\ c.name = b.name
      /\ c.todo = b.todo /\ c.cur = b.cur
  BY <1>3, KeyTypes
<1>5. c = SyncNext(e)
  BY Zenon DEF a, b, c, SyncNext
<1> HIDE DEF c
<1> QED
  BY <1>2, <1>3, <1>4, <1>5

LEMMA TypeInit == Init => TypeOK
BY DEF Init, TypeOK, NoEntry, KeyValue, NoRequest, NoSync

\* Every step keeps the variables in their types.
LEMMA TypeStep == TypeOK /\ [Next]_vars => TypeOK'
<1> SUFFICES ASSUME TypeOK, [Next]_vars PROVE TypeOK'
  OBVIOUS
<1> USE DEF TypeOK, rows, requests, server
<1>1. ASSUME NEW o \in Org, CreateOrganization(o) PROVE TypeOK'
  BY <1>1 DEF CreateOrganization, CanQuery
<1>2. ASSUME NEW o \in Org, UpdateOrganization(o) PROVE TypeOK'
  BY <1>2 DEF UpdateOrganization, CanQuery
<1>3. ASSUME NEW o \in Org, DeleteOrganization(o) PROVE TypeOK'
  BY <1>3 DEF DeleteOrganization, CanQuery
<1>4. ASSUME NEW r \in renames, SyncStart(r) PROVE TypeOK'
  BY <1>4, KeyTypes DEF SyncStart, NoSync
<1>5. ASSUME NEW e \in Entity, SyncGet(e) PROVE TypeOK'
  BY <1>5 DEF SyncGet
<1>6. ASSUME NEW e \in Entity, SyncGetFails(e) PROVE TypeOK'
  BY <1>6 DEF SyncGetFails
<1>7. CASE SyncBreaksOff
  BY <1>7, KeyTypes DEF SyncBreaksOff, NoSync
<1>8. ASSUME NEW e \in Entity, SyncPut(e) PROVE TypeOK'
  <2>1. kv' \in [Entity -> KeyValue] /\ \A d \in Entity : kv'[d].there \/ kv'[d] = NoEntry
    BY <1>8, KeyTypes DEF SyncPut, KeyValue
  <2>2. sync' = SyncNext(e) /\ sync.held
    BY <1>8 DEF SyncPut, NoSync
  <2>3. /\ sync' \in [held : BOOLEAN, org : Org \cup {"none"}, name : Nat,
                     todo : SUBSET Entity, cur : SUBSET Entity, saved : KeyValue]
        /\ sync'.cur \subseteq sync'.todo /\ sync'.held
    BY <2>2, NextRow DEF TypeOK
  <2> QED
    BY <1>8, <2>1, <2>2, <2>3 DEF SyncPut
<1>9. ASSUME NEW e \in Entity, SyncPutFails(e) PROVE TypeOK'
  <2>1. sync' = SyncNext(e) /\ sync.held
    BY <1>9 DEF SyncPutFails, NoSync
  <2>2. /\ sync' \in [held : BOOLEAN, org : Org \cup {"none"}, name : Nat,
                     todo : SUBSET Entity, cur : SUBSET Entity, saved : KeyValue]
        /\ sync'.cur \subseteq sync'.todo /\ sync'.held
    BY <2>1, NextRow DEF TypeOK
  <2> QED
    BY <1>9, <2>1, <2>2 DEF SyncPutFails
<1>10. CASE SyncEnd
  BY <1>10, KeyTypes DEF SyncEnd, NoSync
<1>11. ASSUME NEW p \in Handler, NEW e \in Entity, NEW f \in Nat,
             NEW step \in {"publish", "reread"}, Begin(p, e, f, step)
      PROVE  /\ db' \in [Entity -> Nat]
             /\ pc' \in [Handler -> {"idle", "reread", "publish", "get", "orgname", "put", "remove"}]
             /\ req' \in [Handler -> [entity : Entity \cup {"none"}, fields : Nat, saved : KeyValue]]
             /\ \A q \in Handler : pc'[q] # "idle" => req'[q].entity \in Entity
             /\ disturbed' \subseteq Entity
  BY <1>11, KeyTypes DEF Begin, NoRequest
<1>12. ASSUME NEW p \in Handler, NEW e \in Entity, CreateEntity(p, e) PROVE TypeOK'
  <2>1. Begin(p, e, tick + 1, "publish") /\ tick + 1 \in Nat
    BY <1>12 DEF CreateEntity
  <2>2. UNCHANGED <<name, kv, renames, sync, server, fails, failed>>
    BY <2>1 DEF Begin
  <2> QED
    BY <1>11, <1>12, <2>1, <2>2 DEF CreateEntity
<1>13. ASSUME NEW p \in Handler, NEW e \in Entity, UpdateEntity(p, e) PROVE TypeOK'
  <2>1. Begin(p, e, tick + 1, "reread") /\ tick + 1 \in Nat
    BY <1>13 DEF UpdateEntity
  <2>2. UNCHANGED <<name, kv, renames, sync, server, fails, failed>>
    BY <2>1 DEF Begin
  <2> QED
    BY <1>11, <1>13, <2>1, <2>2 DEF UpdateEntity
<1>14. ASSUME NEW p \in Handler, NEW e \in Entity, DeleteEntity(p, e) PROVE TypeOK'
  <2>1. Begin(p, e, 0, "publish")
    BY <1>14 DEF DeleteEntity
  <2>2. UNCHANGED <<name, kv, renames, sync, server, fails, failed>>
    BY <2>1 DEF Begin
  <2> QED
    BY <1>11, <1>14, <2>1, <2>2 DEF DeleteEntity
<1>15. ASSUME NEW p \in Handler, Step(p) PROVE TypeOK'
  <2>1. CASE Reread(p)
    BY <2>1 DEF Reread, Continue
  <2>2. CASE RereadNotFound(p)
    BY <2>2, KeyTypes DEF RereadNotFound, End, NoRequest
  <2>3. CASE Publish(p)
    BY <2>3 DEF Publish, Continue
  <2>4. CASE GetEntry(p)
    BY <2>4 DEF GetEntry, Continue
  <2>5. CASE GetEntryFails(p)
    BY <2>5 DEF GetEntryFails
  <2>6. CASE ReadOrgName(p)
    <3>1. req[p] \in [entity : Entity \cup {"none"}, fields : Nat, saved : KeyValue]
          /\ req[p].entity \in Entity
      BY <2>6 DEF ReadOrgName
    <3> DEFINE n == name[OrgOf[req[p].entity]]
    <3>2. n \in Nat
      BY <3>1
    <3> HIDE DEF n
    <3>3. [req[p].saved EXCEPT !.org = n] \in KeyValue
      BY <3>1, <3>2 DEF KeyValue
    <3>4. [req[p] EXCEPT !.saved = [req[p].saved EXCEPT !.org = n]] \in
            [entity : Entity \cup {"none"}, fields : Nat, saved : KeyValue]
      BY <3>1, <3>3
    <3>5. [req[p] EXCEPT !.saved = [req[p].saved EXCEPT !.org = n]].entity = req[p].entity
      BY <3>1
    <3>6. req' = [req EXCEPT ![p] = [req[p] EXCEPT !.saved = [req[p].saved EXCEPT !.org = n]]]
      BY <2>6 DEF ReadOrgName, n
    <3>7. /\ req' \in [Handler -> [entity : Entity \cup {"none"}, fields : Nat, saved : KeyValue]]
          /\ \A q \in Handler : req'[q].entity = req[q].entity
      BY <3>4, <3>5, <3>6
    <3> QED
      BY <2>6, <3>7 DEF ReadOrgName, Continue
  <2>7. CASE ReadOrgNameFails(p)
    BY <2>7 DEF ReadOrgNameFails
  <2>8. CASE PutEntry(p)
    BY <2>8, KeyTypes DEF PutEntry, End, NoRequest, KeyValue
  <2>9. CASE RemoveEntry(p)
    BY <2>9, KeyTypes DEF RemoveEntry, End, NoRequest
  <2>10. CASE SideEffectFails(p)
    <3>1. req[p].entity \in Entity
      BY <2>10 DEF SideEffectFails
    <3>2. pc' \in [Handler -> {"idle", "reread", "publish", "get", "orgname", "put", "remove"}]
          /\ req' \in [Handler -> [entity : Entity \cup {"none"}, fields : Nat, saved : KeyValue]]
      BY <2>10, KeyTypes DEF SideEffectFails, End, NoRequest
    <3>3. \A q \in Handler : pc'[q] # "idle" => req'[q].entity \in Entity
      BY <2>10 DEF SideEffectFails, End
    <3> QED
      BY <2>10, <3>1, <3>2, <3>3 DEF SideEffectFails
  <2> QED
    BY <1>15, <2>1, <2>2, <2>3, <2>4, <2>5, <2>6, <2>8, <2>9, <2>10, <2>7 DEF Step
<1>16. CASE Crash
  BY <1>16, KeyTypes DEF Crash, NoRequest, NoSync
<1>17. CASE Boot
  BY <1>17 DEF Boot
<1>18. CASE BootDone
  BY <1>18 DEF BootDone
<1>19. ASSUME NEW e \in Entity, BootEntry(e) PROVE TypeOK'
  BY <1>19, KeyTypes DEF BootEntry
<1>20. CASE UNCHANGED vars
  BY <1>20 DEF vars
<1>21. ASSUME NEW e \in Entity, BootEntryFails(e) PROVE TypeOK'
  BY <1>21 DEF BootEntryFails
<1>22. CASE BootBreaksOff
  BY <1>22 DEF BootBreaksOff
<1>23. CASE Devices
  BY <1>23 DEF Devices, DeviceWrite
<1> QED
  BY <1>1, <1>2, <1>3, <1>4, <1>5, <1>8, <1>9, <1>10, <1>12, <1>13, <1>14, <1>15,
     <1>16, <1>17, <1>18, <1>19, <1>20, <1>6, <1>7, <1>21, <1>22, <1>23
  DEF Next, Organizations, Sync, Request, Booting

-----------------------------------------------------------------------------
(* The invariant.                                                          *)

\* StoreInv but for the types.
Rest == IdInv /\ RemovalInv /\ BootInv /\ SyncInv /\ RenameRevivesNoKey /\ RowHasKey

LEMMA RestInit == Init => Rest
BY DEF Init, Rest, IdInv, RemovalInv, BootInv, SyncInv, RenameRevivesNoKey, RowHasKey,
       NoSync, NoRequest, InFlight

\* Steps on organizations only take rows away, and only while no copy of a
\* name holds the connection.
LEMMA OrganizationStep ==
  ASSUME TypeOK, Rest, Organizations PROVE Rest'
<1>1. PICK o \in Org : CreateOrganization(o) \/ UpdateOrganization(o) \/ DeleteOrganization(o)
  BY DEF Organizations
<1>2. /\ UNCHANGED <<kv, requests, sync, server, failed>>
      /\ created \subseteq created' /\ phase = "up" /\ ~sync.held
      /\ \A e \in Entity : db'[e] # 0 => db'[e] = db[e]
  BY <1>1 DEF CreateOrganization, UpdateOrganization, DeleteOrganization, CanQuery, ConnFree,
              TypeOK
<1>3. sync = NoSync
  BY <1>2 DEF TypeOK
<1>4. IdInv'
  BY <1>2 DEF Rest, IdInv, requests
<1>5. RemovalInv'
  BY <1>2 DEF Rest, RemovalInv, requests, TypeOK
<1>6. BootInv'
  BY <1>1, <1>2 DEF Rest, BootInv, requests, server
<1>7. SyncInv' /\ RenameRevivesNoKey'
  BY <1>2, <1>3 DEF SyncInv, RenameRevivesNoKey, NoSync
<1>8. RowHasKey'
  BY <1>2 DEF Rest, RowHasKey, InFlight, requests, server
<1> QED
  BY <1>4, <1>5, <1>6, <1>7, <1>8 DEF Rest

\* A copy of a name puts keys of rows that are there, into a bucket that has
\* them.
LEMMA SyncStep ==
  ASSUME TypeOK, Rest, Sync PROVE Rest'
<1>1. UNCHANGED <<rows, requests, server>> /\ failed' = failed
  BY DEF Sync, SyncStart, SyncGet, SyncGetFails, SyncPut, SyncPutFails, SyncBreaksOff, SyncEnd
<1>2. IdInv' /\ RemovalInv'
  BY <1>1 DEF Rest, IdInv, RemovalInv, rows, requests
<1>3. phase = "up"
  <2>1. \A r \in renames : phase = "up"
    BY DEF Rest, BootInv
  <2>2. sync.held => phase = "up"
    BY DEF Rest, BootInv
  <2>3. ASSUME NEW e \in sync.cur PROVE sync.held
    BY <2>3 DEF TypeOK, NoSync
  <2> QED
    BY <2>1, <2>2, <2>3
    DEF Sync, SyncGet, SyncGetFails, SyncPut, SyncPutFails, SyncBreaksOff, SyncEnd
<1>4. BootInv'
  BY <1>1, <1>3 DEF Rest, BootInv, server
<1>5. \A e \in Entity : kv[e].there => kv'[e].there
  <2>1. kv' = kv \/ \E d \in Entity : SyncPut(d)
    BY DEF Sync, SyncStart, SyncGet, SyncGetFails, SyncPutFails, SyncBreaksOff, SyncEnd
  <2>2. ASSUME NEW d \in Entity, SyncPut(d) PROVE \A e \in Entity : kv[e].there => kv'[e].there
    BY <2>2 DEF SyncPut, TypeOK, Entry
  <2> QED
    BY <2>1, <2>2
<1>6. RowHasKey'
  BY <1>1, <1>5 DEF Rest, RowHasKey, InFlight, rows, requests, server
<1>7. SyncInv' /\ RenameRevivesNoKey'
  <2>1. ASSUME NEW r \in renames, SyncStart(r)
        PROVE  sync'.todo = {e \in Entity : db[e] # 0 /\ OrgOf[e] = r.org} /\ sync'.cur = {}
    BY <2>1 DEF SyncStart, NoSync
  <2>2. ASSUME NEW e \in Entity, SyncGet(e)
        PROVE  /\ sync'.todo \subseteq sync.todo
               /\ \A d \in sync'.cur : d \in sync.todo /\ kv'[d].there
    BY <2>2 DEF SyncGet, TypeOK
  <2>3. ASSUME NEW e \in Entity, SyncPut(e) \/ SyncPutFails(e)
        PROVE  sync'.todo \subseteq sync.todo /\ sync'.cur = {}
    <3>1. e \in sync.cur /\ sync' = SyncNext(e)
      BY <2>3 DEF SyncPut, SyncPutFails
    <3>2. sync.held
      BY <3>1 DEF TypeOK, NoSync
    <3> QED
      BY <3>1, <3>2, NextRow
  <2>4. ASSUME NEW e \in Entity, SyncGetFails(e)
        PROVE  sync'.todo \subseteq sync.todo /\ sync'.cur = {}
    BY <2>4 DEF SyncGetFails, TypeOK
  <2>5. SyncEnd \/ SyncBreaksOff => sync'.todo = {} /\ sync'.cur = {}
    BY DEF SyncEnd, SyncBreaksOff, NoSync
  <2>6. db' = db /\ \A e \in sync.todo : db[e] # 0
    BY <1>1 DEF rows, Rest, SyncInv
  <2>7. /\ \A e \in sync'.todo : db[e] # 0
        /\ \A e \in sync'.cur : db[e] # 0 /\ kv'[e].there
    BY <2>1, <2>2, <2>3, <2>4, <2>5, <2>6 DEF Sync
  <2> QED
    BY <2>6, <2>7 DEF SyncInv, RenameRevivesNoKey
<1> QED
  BY <1>2, <1>4, <1>6, <1>7 DEF Rest

\* A request starts with a row written, or deleted, while no copy of a name
\* holds the connection; an id is new or has a row.
Begun(p, e, f, s) ==
  /\ Begin(p, e, f, s)
  /\ created' = created \cup {e}
  /\ s = "reread" => f # 0
  /\ (e \notin created /\ name[OrgOf[e]] # 0 /\ f # 0) \/ db[e] # 0

LEMMA RequestBegins ==
  ASSUME TypeOK, Rest, NEW p \in Handler, Request(p)
  PROVE  \E e \in Entity, f \in Nat, s \in {"publish", "reread"} : Begun(p, e, f, s)
<1>1. ASSUME NEW e \in Entity, CreateEntity(p, e)
      PROVE  /\ Begin(p, e, tick + 1, "publish") /\ tick + 1 \in Nat /\ tick + 1 # 0
             /\ created' = created \cup {e} /\ e \notin created /\ name[OrgOf[e]] # 0
  BY <1>1 DEF CreateEntity, TypeOK
<1>2. ASSUME NEW e \in Entity, UpdateEntity(p, e)
      PROVE  /\ Begin(p, e, tick + 1, "reread") /\ tick + 1 \in Nat /\ tick + 1 # 0
             /\ created' = created \cup {e} /\ db[e] # 0
  BY <1>2 DEF UpdateEntity, TypeOK, Rest, IdInv
<1>3. ASSUME NEW e \in Entity, DeleteEntity(p, e)
      PROVE  /\ Begin(p, e, 0, "publish")
             /\ created' = created \cup {e} /\ db[e] # 0
  BY <1>3 DEF DeleteEntity, Rest, IdInv
<1>4. PICK e \in Entity : CreateEntity(p, e) \/ UpdateEntity(p, e) \/ DeleteEntity(p, e)
  BY DEF Request
<1>5. CASE CreateEntity(p, e)
  BY <1>1, <1>5 DEF Begun
<1>6. CASE UpdateEntity(p, e)
  BY <1>2, <1>6 DEF Begun
<1>7. CASE DeleteEntity(p, e)
  BY <1>3, <1>7 DEF Begun
<1> QED
  BY <1>4, <1>5, <1>6, <1>7

\* What it changes, as seen from each entity and each request.
LEMMA BeginEffect ==
  ASSUME TypeOK, NEW p \in Handler, NEW e \in Entity, NEW f \in Nat,
         NEW s \in {"publish", "reread"}, Begin(p, e, f, s)
  PROVE  /\ phase = "up" /\ ~sync.held /\ pc[p] = "idle"
         /\ UNCHANGED <<name, kv, renames, sync, server, failed>>
         /\ req'[p].entity = e /\ req'[p].fields = f
         /\ \A q \in Handler \ {p} : req'[q] = req[q] /\ pc'[q] = pc[q]
         /\ pc'[p] = s
         /\ \A d \in Entity : db'[d] = IF d = e THEN f ELSE db[d]
<1>1. /\ phase = "up" /\ ~sync.held /\ pc[p] = "idle"
      /\ db' = [db EXCEPT ![e] = f] /\ pc' = [pc EXCEPT ![p] = s]
      /\ UNCHANGED <<name, kv, renames, sync, server, failed>>
  BY DEF Begin, CanQuery, ConnFree
<1>2. /\ req'[p].entity = e /\ req'[p].fields = f
      /\ \A q \in Handler \ {p} : req'[q] = req[q]
  <2>1. req' = [req EXCEPT ![p] = [NoRequest EXCEPT !.entity = e, !.fields = f]]
    BY DEF Begin
  <2> DEFINE a == [NoRequest EXCEPT !.entity = e]
  <2> DEFINE b == [a EXCEPT !.fields = f]
  <2>2. a = [entity |-> e, fields |-> 0, saved |-> NoEntry]
    BY DEF NoRequest
  <2>3. req' = [req EXCEPT ![p] = b]
    BY <2>1, Zenon
  <2> HIDE DEF a
  <2>4. b.entity = e /\ b.fields = f
    BY <2>2
  <2> HIDE DEF b
  <2> QED
    BY <2>3, <2>4 DEF TypeOK
<1>3. \A q \in Handler \ {p} : pc'[q] = pc[q]
  BY <1>1 DEF TypeOK
<1>4. pc'[p] = s
  BY <1>1 DEF TypeOK
<1>5. \A d \in Entity : db'[d] = IF d = e THEN f ELSE db[d]
  BY <1>1 DEF TypeOK
<1> QED
  BY <1>1, <1>2, <1>3, <1>4, <1>5

LEMMA BeginStep ==
  ASSUME TypeOK, Rest, NEW p \in Handler, Request(p) PROVE Rest'
<1>1. PICK e \in Entity, f \in Nat, step \in {"publish", "reread"} : Begun(p, e, f, step)
  BY RequestBegins
<1>2. /\ phase = "up" /\ ~sync.held /\ pc[p] = "idle"
      /\ UNCHANGED <<kv, renames, sync, server, failed>>
      /\ created' = created \cup {e} /\ (step = "reread" => f # 0)
      /\ (e \notin created /\ f # 0) \/ db[e] # 0
  BY <1>1, BeginEffect DEF Begun
<1>3. /\ req'[p].entity = e /\ req'[p].fields = f
      /\ \A q \in Handler \ {p} : req'[q] = req[q]
  BY <1>1, BeginEffect DEF Begun
<1>4. \A q \in Handler \ {p} : pc'[q] = pc[q]
  BY <1>1, BeginEffect DEF Begun
<1>5. pc'[p] = step
  BY <1>1, BeginEffect DEF Begun
<1>6. \A d \in Entity : db'[d] = IF d = e THEN f ELSE db[d]
  BY <1>1, BeginEffect DEF Begun
<1>7. IdInv'
  BY <1>2, <1>3, <1>4, <1>5, <1>6 DEF Rest, IdInv
<1>8. RemovalInv'
  <2>1. ASSUME NEW q \in Handler \ {p},
               pc[q] = "remove" \/ (pc[q] = "publish" /\ req[q].fields = 0)
        PROVE  req[q].entity \in Entity \ {e} /\ db[req[q].entity] = 0
    BY <1>2, <2>1 DEF Rest, RemovalInv, IdInv, TypeOK
  <2> QED
    BY <1>2, <1>3, <1>4, <1>5, <1>6, <2>1 DEF RemovalInv
<1>9. BootInv'
  BY <1>2 DEF Rest, BootInv, server
<1>10. SyncInv' /\ RenameRevivesNoKey'
  BY <1>2 DEF SyncInv, RenameRevivesNoKey, NoSync, TypeOK
<1>11. RowHasKey'
  <2>1. p \in InFlight(e)'
    BY <1>3, <1>5 DEF InFlight
  <2>2. \A d \in Entity : InFlight(d) \subseteq InFlight(d)'
    BY <1>2, <1>3, <1>4 DEF InFlight
  <2> QED
    BY <1>2, <1>6, <2>1, <2>2 DEF Rest, RowHasKey
<1> QED
  BY <1>7, <1>8, <1>9, <1>10, <1>11 DEF Rest

\* A step of a request that neither ends it nor touches the bucket.
LEMMA ContinueStep ==
  ASSUME TypeOK, Rest, NEW p \in Handler, NEW s, pc[p] # "idle", s # "idle",
         pc' = [pc EXCEPT ![p] = s], req'[p].entity = req[p].entity,
         \A q \in Handler \ {p} : req'[q] = req[q],
         UNCHANGED <<rows, kv, renames, sync, server, failed>>,
         s = "remove" \/ (s = "publish" /\ req'[p].fields = 0) => db[req[p].entity] = 0
  PROVE  Rest'
<1>1. phase = "up"
  BY DEF Rest, BootInv
<1>2. pc'[p] = s /\ \A q \in Handler \ {p} : pc'[q] = pc[q]
  BY DEF TypeOK
<1>3. IdInv'
  BY <1>2 DEF Rest, IdInv, rows
<1>4. RemovalInv'
  BY <1>2 DEF Rest, RemovalInv, rows
<1>5. BootInv'
  BY <1>1 DEF Rest, BootInv, server
<1>6. SyncInv' /\ RenameRevivesNoKey'
  BY DEF Rest, SyncInv, RenameRevivesNoKey, rows
<1>7. RowHasKey'
  <2>1. \A d \in Entity : InFlight(d)' = InFlight(d)
    BY <1>2 DEF InFlight
  <2> QED
    BY <2>1 DEF Rest, RowHasKey, rows, server
<1> QED
  BY <1>3, <1>4, <1>5, <1>6, <1>7 DEF Rest

\* A step that ends a request leaves its entity without a row, with a key, or
\* among those a request has failed on; only without a row is its key gone.
LEMMA EndStep ==
  ASSUME TypeOK, Rest, NEW p \in Handler, pc[p] # "idle", End(p),
         UNCHANGED <<rows, renames, sync, server>>, failed \subseteq failed',
         NEW e \in Entity, e = req[p].entity,
         \A d \in Entity \ {e} : kv'[d] = kv[d],
         db[e] = 0 \/ kv'[e].there \/ (kv' = kv /\ e \in failed')
  PROVE  Rest'
<1>1. phase = "up"
  BY DEF Rest, BootInv
<1>2. /\ pc'[p] = "idle"
      /\ \A q \in Handler \ {p} : pc'[q] = pc[q] /\ req'[q] = req[q]
  BY DEF TypeOK, End
<1>3. IdInv'
  BY <1>2 DEF Rest, IdInv, rows
<1>4. RemovalInv'
  BY <1>2 DEF Rest, RemovalInv, rows
<1>5. BootInv'
  BY <1>1 DEF Rest, BootInv, server
<1>6. SyncInv'
  BY DEF Rest, SyncInv, rows
<1>7. RenameRevivesNoKey'
  <2>1. \A d \in sync.cur : db[d] # 0 /\ d \in Entity /\ (kv[d].there \/ d \in failed)
    BY DEF Rest, RenameRevivesNoKey, TypeOK
  <2>2. \A d \in Entity : db[d] # 0 /\ kv[d].there => kv'[d].there \/ d \in failed'
    OBVIOUS
  <2> QED
    BY <2>1, <2>2 DEF RenameRevivesNoKey, rows
<1>8. RowHasKey'
  <2>1. \A d \in Entity \ {e} : InFlight(d) \subseteq InFlight(d)'
    BY <1>2 DEF InFlight
  <2> QED
    BY <2>1 DEF Rest, RowHasKey, rows, server
<1> QED
  BY <1>3, <1>4, <1>5, <1>6, <1>7, <1>8 DEF Rest

LEMMA RequestStep ==
  ASSUME TypeOK, Rest, NEW p \in Handler, Step(p) PROVE Rest'
<1>1. pc[p] # "idle" /\ req[p].entity \in Entity
  BY DEF Step, Reread, RereadNotFound, Publish, GetEntry, GetEntryFails, ReadOrgName,
         ReadOrgNameFails, PutEntry, RemoveEntry, SideEffectFails, TypeOK
<1>2. CASE Reread(p)
  <2>1. /\ req'[p].entity = req[p].entity /\ req'[p].fields # 0
        /\ \A q \in Handler \ {p} : req'[q] = req[q]
    BY <1>1, <1>2 DEF Reread, TypeOK
  <2> QED
    BY <1>1, <1>2, <2>1, ContinueStep DEF Reread, Continue
<1>3. CASE RereadNotFound(p)
  BY <1>1, <1>3, EndStep DEF RereadNotFound
<1>4. CASE Publish(p)
  <2>1. req[p].fields = 0 => db[req[p].entity] = 0
    BY <1>4 DEF Publish, Rest, RemovalInv
  <2> DEFINE s == IF req[p].fields = 0 THEN "remove" ELSE "get"
  <2>2. pc' = [pc EXCEPT ![p] = s] /\ req' = req
        /\ UNCHANGED <<rows, kv, renames, sync, server, failed>>
    BY <1>4 DEF Publish, Continue
  <2>3. s # "idle" /\ (s = "remove" \/ s = "publish" => db[req[p].entity] = 0)
    BY <2>1
  <2> HIDE DEF s
  <2> QED
    BY <1>1, <2>2, <2>3, ContinueStep
<1>5. CASE GetEntry(p)
  <2>1. /\ req'[p].entity = req[p].entity
        /\ \A q \in Handler \ {p} : req'[q] = req[q]
    BY <1>5 DEF GetEntry, TypeOK
  <2> DEFINE s == IF kv[req[p].entity].org = 0 THEN "orgname" ELSE "put"
  <2>2. pc' = [pc EXCEPT ![p] = s]
        /\ UNCHANGED <<rows, kv, renames, sync, server, failed>>
    BY <1>5 DEF GetEntry, Continue
  <2>3. s \in {"orgname", "put"}
    OBVIOUS
  <2> HIDE DEF s
  <2> QED
    BY <1>1, <2>1, <2>2, <2>3, ContinueStep
<1>6. CASE GetEntryFails(p)
  BY <1>1, <1>6, ContinueStep DEF GetEntryFails
<1>7. CASE ReadOrgName(p)
  <2>1. /\ req'[p].entity = req[p].entity
        /\ \A q \in Handler \ {p} : req'[q] = req[q]
    BY <1>7 DEF ReadOrgName, TypeOK
  <2> QED
    BY <1>1, <1>7, <2>1, ContinueStep DEF ReadOrgName, Continue
<1>8. CASE ReadOrgNameFails(p)
  BY <1>1, <1>8, ContinueStep DEF ReadOrgNameFails
<1>9. CASE PutEntry(p)
  <2>1. /\ kv'[req[p].entity].there
        /\ \A d \in Entity \ {req[p].entity} : kv'[d] = kv[d]
    BY <1>1, <1>9 DEF PutEntry, TypeOK, Entry
  <2> QED
    BY <1>1, <1>9, <2>1, EndStep DEF PutEntry
<1>10. CASE RemoveEntry(p)
  <2>1. \A d \in Entity \ {req[p].entity} : kv'[d] = kv[d]
    BY <1>10 DEF RemoveEntry, TypeOK
  <2>2. db[req[p].entity] = 0
    BY <1>10 DEF RemoveEntry, Rest, RemovalInv
  <2> QED
    BY <1>1, <1>10, <2>1, <2>2, EndStep DEF RemoveEntry
<1>11. CASE SideEffectFails(p)
  BY <1>1, <1>11, EndStep DEF SideEffectFails
<1> QED
  BY <1>2, <1>3, <1>4, <1>5, <1>6, <1>7, <1>9, <1>10, <1>11, <1>8 DEF Step

\* Devices take keys away only from entities that count as failed from then on,
\* and write no row.
LEMMA DeviceStep ==
  ASSUME TypeOK, Rest, Devices PROVE Rest'
<1>1. PICK e \in Entity, v \in DeviceValue : DeviceWrite(e, v)
  BY DEF Devices
<1>2. /\ UNCHANGED <<rows, requests, renames, sync, server>> /\ failed \subseteq failed'
      /\ kv'[e] = v /\ \A d \in Entity \ {e} : kv'[d] = kv[d]
      /\ kv[e].there /\ ~v.there => e \in failed'
  BY <1>1 DEF DeviceWrite, TypeOK
<1>3. \A d \in Entity : kv[d].there => kv'[d].there \/ d \in failed'
  BY <1>2
<1>4. IdInv' /\ RemovalInv' /\ SyncInv'
  BY <1>2 DEF Rest, IdInv, RemovalInv, SyncInv, rows, requests
<1>5. BootInv'
  BY <1>2, <1>3 DEF Rest, BootInv, rows, requests, server
<1>6. RenameRevivesNoKey'
  BY <1>2, <1>3 DEF Rest, RenameRevivesNoKey, rows, TypeOK
<1>7. RowHasKey'
  BY <1>2, <1>3 DEF Rest, RowHasKey, InFlight, rows, requests, server
<1> QED
  BY <1>4, <1>5, <1>6, <1>7 DEF Rest

\* The server stops, or boots until every row has a key.
LEMMA ServerStep ==
  ASSUME TypeOK, Rest, Crash \/ Booting PROVE Rest'
<1>1. CASE Crash
  BY <1>1 DEF Crash, Rest, IdInv, RemovalInv, BootInv, SyncInv, RenameRevivesNoKey, RowHasKey,
              rows, NoSync
<1>2. CASE Boot
  BY <1>2 DEF Boot, Rest, IdInv, RemovalInv, BootInv, SyncInv, RenameRevivesNoKey, RowHasKey,
              rows, requests
<1>3. CASE BootDone
  BY <1>3 DEF BootDone, Rest, IdInv, RemovalInv, BootInv, SyncInv, RenameRevivesNoKey, RowHasKey,
              InFlight, rows, requests
<1>4. ASSUME NEW e \in Entity, BootEntry(e) PROVE Rest'
  <2>1. phase = "booting"
    BY <1>4 DEF BootEntry, Rest, BootInv
  <2>2. kv'[e].there /\ \A d \in Entity : kv[d].there => kv'[d].there
    BY <1>4 DEF BootEntry, TypeOK, Entry
  <2> QED
    BY <1>4, <2>1, <2>2
    DEF BootEntry, Rest, IdInv, RemovalInv, BootInv, SyncInv, RenameRevivesNoKey, RowHasKey,
        TypeOK, NoSync, rows, requests
<1>5. ASSUME (\E e \in Entity : BootEntryFails(e)) \/ BootBreaksOff PROVE Rest'
  <2>1. phase = "booting"
    BY <1>5 DEF BootEntryFails, BootBreaksOff, Rest, BootInv
  <2>2. /\ UNCHANGED <<rows, kv, requests, renames, sync, phase>>
        /\ failed \subseteq failed' /\ bootTodo \subseteq bootTodo' \cup failed'
    BY <1>5 DEF BootEntryFails, BootBreaksOff
  <2> QED
    BY <2>1, <2>2
    DEF Rest, IdInv, RemovalInv, BootInv, SyncInv, RenameRevivesNoKey, RowHasKey,
        TypeOK, NoSync, rows, requests
<1> QED
  BY <1>1, <1>2, <1>3, <1>4, <1>5 DEF Booting

LEMMA RestStutter ==
  ASSUME Rest, UNCHANGED vars PROVE Rest'
BY DEF vars, Rest, IdInv, RemovalInv, BootInv, SyncInv, RenameRevivesNoKey, RowHasKey, InFlight

LEMMA StoreInit == Init => StoreInv
BY TypeInit, RestInit DEF StoreInv, Rest

LEMMA StoreStep == StoreInv /\ [Next]_vars => StoreInv'
<1> SUFFICES ASSUME TypeOK, Rest, [Next]_vars PROVE TypeOK' /\ Rest'
  BY DEF StoreInv, Rest
<1>1. Rest'
  BY OrganizationStep, SyncStep, BeginStep, RequestStep, DeviceStep, ServerStep, RestStutter
  DEF Next
<1> QED
  BY <1>1, TypeStep

-----------------------------------------------------------------------------
(* The keys of undisturbed entities.                                       *)

\* A step that leaves alone what KeyInv says of an entity keeps it.
LEMMA KeyFrame ==
  ASSUME TypeOK, NEW e \in Entity, KeyInv(e), Undisturbed(e)' => Undisturbed(e),
         name'[OrgOf[e]] = name[OrgOf[e]], db'[e] = db[e], kv'[e] = kv[e],
         \A r : r.org = OrgOf[e] => (r \in renames' <=> r \in renames),
         (sync'.held /\ sync'.org = OrgOf[e]) <=> (sync.held /\ sync.org = OrgOf[e]),
         sync.held /\ sync.org = OrgOf[e] => sync'.name = sync.name,
         e \in sync.todo => e \in sync'.todo,
         e \in sync'.cur => e \in sync.cur /\ sync'.saved.fields = sync.saved.fields,
         InFlight(e)' = InFlight(e),
         \A q \in InFlight(e) : pc'[q] = pc[q] /\ req'[q] = req[q]
  PROVE  KeyInv(e)'
<1> SUFFICES ASSUME Undisturbed(e)', Undisturbed(e)
             PROVE  /\ RenameInv(e)'
                    /\ \A p, q \in InFlight(e)' : p = q
                    /\ \A p \in InFlight(e)' : WorkInv(p, e)'
                    /\ InFlight(e)' = {} => RestInv(e)'
  BY DEF KeyInv
<1>1. Renaming(OrgOf[e])' <=> Renaming(OrgOf[e])
  BY DEF Renaming
<1>2. RenameInv(e)'
  BY <1>1 DEF KeyInv, RenameInv
<1>3. ASSUME NEW p \in InFlight(e) PROVE WorkInv(p, e)'
  BY <1>3 DEF KeyInv, WorkInv
<1>4. InFlight(e) = {} => RestInv(e)'
  BY DEF KeyInv, RestInv
<1> QED
  BY <1>2, <1>3, <1>4 DEF KeyInv

\* A copy of a name is of the organization of the entities it has to do.
LEMMA CopyIsRenaming ==
  ASSUME TypeOK, OrgInv, NEW e \in Entity, e \in sync.todo
  PROVE  sync.held /\ sync.org = OrgOf[e] /\ Renaming(OrgOf[e])
<1>1. sync.held
  BY DEF TypeOK, NoSync
<1> QED
  BY <1>1 DEF OrgInv, Renaming

\* Steps on organizations: entities of the organization that have a request
\* or a copy of a name under way become disturbed.
LEMMA OrganizationKeys ==
  ASSUME StoreInv, KeysInv, Organizations PROVE KeysInv'
<1> USE DEF StoreInv
<1>1. PICK o \in Org : CreateOrganization(o) \/ UpdateOrganization(o) \/ DeleteOrganization(o)
  BY DEF Organizations
<1>2. /\ UNCHANGED <<kv, pc, req, sync, phase, bootTodo>>
      /\ created \subseteq created' /\ created' \subseteq created \cup {o}
      /\ disturbed \subseteq disturbed'
      /\ ~sync.held /\ bootTodo = {}
      /\ \A d \in Org \ {o} : name'[d] = name[d]
      /\ \A e \in Entity : OrgOf[e] # o => db'[e] = db[e]
  BY <1>1 DEF CreateOrganization, UpdateOrganization, DeleteOrganization, CanQuery, ConnFree,
              TypeOK, requests, server, BootInv
<1>3. sync = NoSync /\ sync.todo = {} /\ sync.cur = {}
  BY <1>2 DEF TypeOK, NoSync
<1>4. name'[o] # 0 => o \in created'
  BY <1>1 DEF CreateOrganization, UpdateOrganization, DeleteOrganization, KeysInv, OrgInv, TypeOK
<1>5. OrgInv'
  BY <1>2, <1>3, <1>4 DEF KeysInv, OrgInv
<1>6. \A e \in Entity : InFlight(e)' = InFlight(e)
  BY <1>2 DEF InFlight
<1>7. ASSUME NEW e \in Entity PROVE KeyInv(e)'
  <2>1. e \in created' => e \in created
    BY <1>2 DEF StoreInv
  <2>2. KeyInv(e)
    BY DEF KeysInv
  <2>3. CASE OrgOf[e] # o
    <3>1. Undisturbed(e)' => Undisturbed(e)
      BY <1>2, <2>1, <2>3 DEF Undisturbed
    <3>2. \A r : r.org = OrgOf[e] => (r \in renames' <=> r \in renames)
      BY <1>1, <2>3 DEF CreateOrganization, UpdateOrganization, DeleteOrganization
    <3> QED
      BY <1>2, <1>6, <2>2, <2>3, <3>1, <3>2, KeyFrame
  <2>4. CASE OrgOf[e] = o /\ CreateOrganization(o)
    <3>1. e \notin created
      BY <2>4 DEF CreateOrganization, KeysInv, OrgInv
    <3> QED
      BY <2>1, <3>1 DEF KeyInv, Undisturbed
  <2>5. CASE OrgOf[e] = o /\ DeleteOrganization(o)
    <3>1. name'[OrgOf[e]] = 0
      BY <2>5 DEF DeleteOrganization, TypeOK
    <3> QED
      BY <3>1 DEF KeyInv, Undisturbed
  <2>6. CASE OrgOf[e] = o /\ UpdateOrganization(o)
    <3> SUFFICES ASSUME Undisturbed(e)'
                 PROVE  /\ RenameInv(e)'
                        /\ \A p, q \in InFlight(e)' : p = q
                        /\ \A p \in InFlight(e)' : WorkInv(p, e)'
                        /\ InFlight(e)' = {} => RestInv(e)'
      BY DEF KeyInv
    <3>1. InFlight(e) = {} /\ ~Renaming(o)
      BY <2>1, <2>6 DEF Undisturbed, UpdateOrganization
    <3>2. RestInv(e)
      BY <2>1, <2>2, <2>6, <3>1, <1>2 DEF KeyInv, Undisturbed, UpdateOrganization
    <3>3. /\ name'[o] = tick + 1
          /\ renames' = renames \cup {[org |-> o, name |-> tick + 1]}
          /\ db' = db
      BY <2>6 DEF UpdateOrganization, TypeOK
    <3>4. RenameInv(e)'
      BY <1>2, <1>6, <2>6, <3>1, <3>3 DEF RenameInv, Renaming
    <3>5. \E r \in renames' : r.org = OrgOf[e]
      <4>1. [org |-> o, name |-> tick + 1] \in renames'
        BY <3>3
      <4> WITNESS [org |-> o, name |-> tick + 1] \in renames'
      <4> QED
        BY <2>6
    <3>6. sync'.cur = {} /\ kv' = kv
      BY <1>2, <1>3
    <3>7. RestInv(e)'
      BY <3>2, <3>3, <3>5, <3>6 DEF RestInv
    <3> QED
      BY <1>6, <3>1, <3>4, <3>7
  <2> QED
    BY <1>1, <2>3, <2>4, <2>5, <2>6
<1> QED
  BY <1>5, <1>7 DEF KeysInv

\* The copy of a name: it is the only one for its entities, has the last name,
\* and puts back the fields it found.
LEMMA SyncKeys ==
  ASSUME StoreInv, KeysInv, Sync PROVE KeysInv'
<1> USE DEF StoreInv
<1>1. /\ UNCHANGED <<created, name, db, pc, req, phase, bootTodo>>
      /\ disturbed \subseteq disturbed'
  BY DEF Sync, SyncStart, SyncGet, SyncGetFails, SyncPut, SyncPutFails, SyncBreaksOff, SyncEnd,
         rows, requests, server
<1>2. /\ \A e \in Entity : InFlight(e)' = InFlight(e)
      /\ \A e \in Entity : Undisturbed(e)' => Undisturbed(e)
  BY <1>1 DEF InFlight, Undisturbed
<1>3. \A e \in Entity : KeyInv(e)
  BY DEF KeysInv
<1>4. ASSUME NEW r \in renames, SyncStart(r) PROVE KeysInv'
  <2>1. /\ ~sync.held /\ sync = NoSync /\ kv' = kv /\ renames' = renames \ {r}
        /\ sync'.held /\ sync'.org = r.org /\ sync'.name = r.name /\ sync'.cur = {}
        /\ sync'.todo = {e \in Entity : db[e] # 0 /\ OrgOf[e] = r.org}
    BY <1>4 DEF SyncStart, ConnFree, TypeOK, NoSync
  <2>2. OrgInv'
    BY <1>1, <2>1 DEF KeysInv, OrgInv
  <2>3. ASSUME NEW e \in Entity, OrgOf[e] # r.org PROVE KeyInv(e)'
    BY <1>1, <1>2, <1>3, <2>1, <2>3, KeyFrame DEF NoSync
  <2>4. ASSUME NEW e \in Entity, OrgOf[e] = r.org, Undisturbed(e)'
        PROVE  /\ RenameInv(e)' /\ InFlight(e)' = {} /\ RestInv(e)'
    <3>1. RenameInv(e) /\ InFlight(e) = {} /\ RestInv(e)
      BY <1>2, <1>3, <2>4 DEF KeyInv, RenameInv, Renaming
    <3>2. r.name = name[OrgOf[e]] /\ \A q \in renames : q.org = OrgOf[e] => q.name = r.name
      BY <2>4, <3>1 DEF RenameInv
    <3>3. \A q \in renames : q.org = OrgOf[e] => q = r
      BY <2>4, <3>2 DEF TypeOK
    <3>4. RenameInv(e)'
      BY <1>1, <1>2, <2>1, <2>4, <3>1, <3>2, <3>3 DEF RenameInv
    <3>5. RestInv(e)'
      BY <1>1, <2>1, <2>4, <3>1 DEF RestInv
    <3> QED
      BY <1>2, <3>1, <3>4, <3>5
  <2>5. \A e \in Entity : KeyInv(e)'
    BY <2>3, <2>4 DEF KeyInv
  <2> QED
    BY <2>2, <2>5 DEF KeysInv
<1>5. ASSUME NEW d \in Entity, SyncGet(d) PROVE KeysInv'
  <2>1. /\ kv' = kv /\ renames' = renames /\ sync.held /\ d \in sync.todo
        /\ sync'.held = sync.held /\ sync'.org = sync.org /\ sync'.name = sync.name
        /\ sync'.todo \subseteq sync.todo /\ sync.todo \ {d} \subseteq sync'.todo
        /\ sync'.cur \subseteq {d}
        /\ kv[d] # NoEntry => sync'.saved = kv[d] /\ sync'.todo = sync.todo
    BY <1>5 DEF SyncGet, TypeOK
  <2>2. OrgInv'
    BY <1>1, <2>1 DEF KeysInv, OrgInv
  <2>3. ASSUME NEW e \in Entity, e # d PROVE KeyInv(e)'
    BY <1>1, <1>2, <1>3, <2>1, <2>3, KeyFrame
  <2>4. ASSUME Undisturbed(d)'
        PROVE  /\ RenameInv(d)' /\ InFlight(d)' = {} /\ RestInv(d)'
    <3>1. /\ Renaming(OrgOf[d])
      BY <2>1, CopyIsRenaming DEF KeysInv
    <3>2. RenameInv(d) /\ InFlight(d) = {} /\ RestInv(d) /\ db[d] # 0
      BY <1>2, <1>3, <2>1, <2>4, <3>1 DEF KeyInv, RenameInv, SyncInv
    <3>3. kv[d].there /\ kv[d].fields = db[d] /\ kv[d] # NoEntry
      BY <3>2 DEF RestInv, NoEntry
    <3>4. RenameInv(d)'
      BY <1>1, <1>2, <2>1, <3>2 DEF RenameInv, Renaming
    <3>5. RestInv(d)'
      BY <1>1, <2>1, <3>2, <3>3 DEF RestInv
    <3> QED
      BY <1>2, <3>2, <3>4, <3>5
  <2>5. \A e \in Entity : KeyInv(e)'
    BY <2>3, <2>4 DEF KeyInv
  <2> QED
    BY <2>2, <2>5 DEF KeysInv
<1>6. ASSUME NEW d \in Entity, SyncPut(d) \/ SyncPutFails(d) PROVE KeysInv'
  <2>1. sync.held /\ d \in sync.todo /\ d \in sync.cur /\ sync' = SyncNext(d)
    BY <1>6 DEF SyncPut, SyncPutFails, TypeOK, NoSync
  <2>2. /\ sync'.held = sync.held /\ sync'.org = sync.org /\ sync'.name = sync.name
        /\ sync'.todo = sync.todo \ {d} /\ sync'.cur = {}
    BY <2>1, NextRow
  <2>3. /\ renames' = renames
        /\ \A e \in Entity \ {d} : kv'[e] = kv[e]
        /\ SyncPut(d) => kv'[d] = Entry(sync.saved.fields, sync.name)
        /\ SyncPutFails(d) => d \in disturbed'
        /\ d \in created
    BY <1>6, <2>1 DEF SyncPut, SyncPutFails, TypeOK, SyncInv, IdInv
  <2>4. OrgInv'
    BY <1>1, <2>2, <2>3 DEF KeysInv, OrgInv
  <2>5. ASSUME NEW e \in Entity, e # d PROVE KeyInv(e)'
    BY <1>1, <1>2, <1>3, <2>2, <2>3, <2>5, KeyFrame
  <2>6. ASSUME Undisturbed(d)'
        PROVE  /\ RenameInv(d)' /\ InFlight(d)' = {} /\ RestInv(d)'
    <3>1. Renaming(OrgOf[d]) /\ sync.org = OrgOf[d]
      BY <2>1, CopyIsRenaming DEF KeysInv
    <3>2. RenameInv(d) /\ InFlight(d) = {} /\ RestInv(d) /\ db[d] # 0
      BY <1>2, <1>3, <2>1, <2>6, <3>1 DEF KeyInv, RenameInv, SyncInv
    <3>3. kv'[d] = Entry(db[d], name[OrgOf[d]])
      BY <1>6, <2>1, <2>3, <2>6, <3>1, <3>2 DEF RestInv, RenameInv, Undisturbed
    <3>4. RenameInv(d)'
      BY <1>1, <1>2, <2>2, <2>3, <3>2 DEF RenameInv, Renaming
    <3>5. RestInv(d)'
      BY <1>1, <2>2, <3>2, <3>3 DEF RestInv, Entry
    <3> QED
      BY <1>2, <3>2, <3>4, <3>5
  <2>7. \A e \in Entity : KeyInv(e)'
    BY <2>5, <2>6 DEF KeyInv
  <2> QED
    BY <2>4, <2>7 DEF KeysInv
<1>7. ASSUME NEW d \in Entity, SyncGetFails(d) PROVE KeysInv'
  <2>1. /\ kv' = kv /\ renames' = renames
        /\ sync'.held = sync.held /\ sync'.org = sync.org /\ sync'.name = sync.name
        /\ sync'.todo = sync.todo \ {d} /\ sync'.cur = {} /\ d \in disturbed'
    BY <1>7 DEF SyncGetFails, TypeOK
  <2>2. OrgInv'
    BY <1>1, <2>1 DEF KeysInv, OrgInv
  <2>3. ASSUME NEW e \in Entity, e # d PROVE KeyInv(e)'
    BY <1>1, <1>2, <1>3, <2>1, <2>3, KeyFrame
  <2>4. KeyInv(d)'
    BY <2>1 DEF KeyInv, Undisturbed
  <2> QED
    BY <2>2, <2>3, <2>4 DEF KeysInv
<1>8. CASE SyncEnd \/ SyncBreaksOff
  <2>1. /\ kv' = kv /\ renames' = renames /\ sync.held
        /\ \A e \in sync.todo : e \in disturbed'
        /\ sync.cur = {}
        /\ ~sync'.held /\ sync'.todo = {} /\ sync'.cur = {}
    BY <1>8 DEF SyncEnd, SyncBreaksOff, NoSync, TypeOK
  <2>2. OrgInv'
    BY <1>1, <2>1 DEF KeysInv, OrgInv
  <2>3. ASSUME NEW e \in Entity, sync.org # OrgOf[e] PROVE KeyInv(e)'
    <3>1. e \notin sync.todo
      BY <2>3 DEF KeysInv, OrgInv
    <3> QED
      BY <1>1, <1>2, <1>3, <2>1, <2>3, <3>1, KeyFrame
  <2>4. ASSUME NEW e \in Entity, sync.org = OrgOf[e], Undisturbed(e)'
        PROVE  /\ RenameInv(e)' /\ InFlight(e)' = {} /\ RestInv(e)'
    <3>1. RenameInv(e) /\ InFlight(e) = {} /\ RestInv(e)
      BY <1>2, <1>3, <2>1, <2>4 DEF KeyInv, RenameInv, Renaming
    <3>2. RenameInv(e)'
      BY <1>1, <1>2, <2>1, <3>1 DEF RenameInv
    <3>3. e \notin sync.todo
      BY <2>1, <2>4 DEF Undisturbed
    <3>4. RestInv(e)'
      BY <1>1, <2>1, <2>4, <3>1, <3>3 DEF RestInv, RenameInv
    <3> QED
      BY <1>2, <3>1, <3>2, <3>4
  <2>5. \A e \in Entity : KeyInv(e)'
    BY <2>3, <2>4 DEF KeyInv
  <2> QED
    BY <2>2, <2>5 DEF KeysInv
<1> QED
  BY <1>4, <1>5, <1>6, <1>8, <1>7 DEF Sync

\* A request that begins finds nothing else under way for its entity, or
\* disturbs it.
LEMMA BeginKeys ==
  ASSUME StoreInv, KeysInv, NEW p \in Handler, Request(p) PROVE KeysInv'
<1> USE DEF StoreInv
<1>1. PICK e \in Entity, f \in Nat, s \in {"publish", "reread"} : Begun(p, e, f, s)
  BY RequestBegins DEF Rest
<1>2. /\ created' = created \cup {e}
      /\ s = "reread" => f # 0
  BY <1>1 DEF Begun
<1>3. (e \notin created /\ name[OrgOf[e]] # 0 /\ f # 0) \/ (db[e] # 0 /\ e \in created)
  BY <1>1 DEF Begun, IdInv
<1>4. /\ ~sync.held /\ pc[p] = "idle"
      /\ UNCHANGED <<name, kv, renames, sync, bootTodo>>
      /\ req'[p].entity = e /\ req'[p].fields = f /\ pc'[p] = s
      /\ \A q \in Handler \ {p} : req'[q] = req[q] /\ pc'[q] = pc[q]
      /\ \A d \in Entity : db'[d] = IF d = e THEN f ELSE db[d]
      /\ phase = "up"
  BY <1>1, BeginEffect DEF Begun, server
<1>5. /\ disturbed \subseteq disturbed' /\ disturbed' \subseteq disturbed \cup {e}
      /\ InFlight(e) # {} \/ Renaming(OrgOf[e]) => e \in disturbed'
  BY <1>1 DEF Begun, Begin
<1>6. sync = NoSync /\ sync.todo = {} /\ sync.cur = {} /\ bootTodo = {}
  BY <1>4 DEF TypeOK, NoSync, BootInv
<1>7. OrgInv'
  <2>1. OrgOf[e] \in created
    BY <1>3 DEF KeysInv, OrgInv
  <2> QED
    BY <1>2, <1>4, <1>6, <2>1 DEF KeysInv, OrgInv
<1>8. ASSUME NEW d \in Entity, d # e PROVE KeyInv(d)'
  <2>1. InFlight(d)' = InFlight(d) /\ p \notin InFlight(d)
    BY <1>4, <1>8 DEF InFlight
  <2>2. Undisturbed(d)' => Undisturbed(d)
    BY <1>2, <1>4, <1>5, <1>8 DEF Undisturbed
  <2>3. \A q \in InFlight(d) : pc'[q] = pc[q] /\ req'[q] = req[q]
    BY <1>4, <2>1 DEF InFlight
  <2>4. KeyInv(d) /\ db'[d] = db[d]
    BY <1>4, <1>8 DEF KeysInv
  <2> QED
    BY <1>4, <2>1, <2>2, <2>3, <2>4, KeyFrame
<1>9. ASSUME Undisturbed(e)'
      PROVE  RenameInv(e)' /\ InFlight(e)' = {p} /\ WorkInv(p, e)'
  <2>1. InFlight(e) = {} /\ ~Renaming(OrgOf[e]) /\ name[OrgOf[e]] # 0 /\ e \notin disturbed
    BY <1>4, <1>5, <1>9 DEF Undisturbed
  <2>2. InFlight(e)' = {p}
    BY <1>4, <2>1 DEF InFlight
  <2>3. \A r \in renames : r.org # OrgOf[e]
    BY <2>1 DEF Renaming
  <2>4. RenameInv(e)' /\ ~Renaming(OrgOf[e])'
    BY <1>4, <2>3 DEF RenameInv, Renaming
  <2>5. kv[e] = NoEntry \/ (kv[e].there /\ kv[e].org = name[OrgOf[e]])
    <3>1. CASE e \notin created
      BY <3>1 DEF KeysInv, OrgInv
    <3>2. CASE db[e] # 0 /\ e \in created
      <4>1. RestInv(e)
        BY <2>1, <3>2 DEF KeysInv, KeyInv, Undisturbed
      <4> QED
        BY <1>6, <2>3, <3>2, <4>1 DEF RestInv
    <3> QED
      BY <1>3, <3>1, <3>2
  <2>6. WorkInv(p, e)'
    BY <1>2, <1>4, <2>5 DEF WorkInv
  <2> QED
    BY <2>2, <2>4, <2>6
<1>10. KeyInv(e)'
  BY <1>9 DEF KeyInv
<1> QED
  BY <1>7, <1>8, <1>10 DEF KeysInv

\* A request that goes on, or ends, does what is right for its own entity and
\* nothing for the others.
LEMMA RequestKeys ==
  ASSUME StoreInv, KeysInv, NEW p \in Handler, Step(p) PROVE KeysInv'
<1> USE DEF StoreInv
<1>1. pc[p] # "idle" /\ req[p].entity \in Entity
  BY DEF Step, Reread, RereadNotFound, Publish, GetEntry, GetEntryFails, ReadOrgName,
         ReadOrgNameFails, PutEntry, RemoveEntry, SideEffectFails, TypeOK
<1>2. PICK e \in Entity : e = req[p].entity
  BY <1>1
<1>3. e \in created /\ p \in InFlight(e)
  BY <1>1, <1>2 DEF IdInv, InFlight
<1>4. /\ UNCHANGED <<created, name, db, renames, sync, bootTodo>>
      /\ disturbed \subseteq disturbed'
      /\ \A q \in Handler \ {p} : req'[q] = req[q] /\ pc'[q] = pc[q]
  BY DEF Step, Reread, RereadNotFound, Publish, GetEntry, GetEntryFails, ReadOrgName,
         ReadOrgNameFails, PutEntry, RemoveEntry, SideEffectFails, Continue, End, TypeOK, rows, server
<1>5. \A d \in Entity \ {e} : kv'[d] = kv[d]
  BY <1>2 DEF Step, Reread, RereadNotFound, Publish, GetEntry, GetEntryFails, ReadOrgName,
         ReadOrgNameFails, PutEntry, RemoveEntry, SideEffectFails, Continue, TypeOK
<1>6. pc'[p] = "idle" \/ req'[p].entity = e
  BY <1>2 DEF Step, Reread, RereadNotFound, Publish, GetEntry, GetEntryFails, ReadOrgName,
         ReadOrgNameFails, PutEntry, RemoveEntry, SideEffectFails, Continue, End, TypeOK
<1>7. OrgInv'
  BY <1>4, <1>5, <1>3 DEF KeysInv, OrgInv
<1>8. ASSUME NEW d \in Entity, d # e PROVE KeyInv(d)'
  <2>1. InFlight(d)' = InFlight(d) /\ p \notin InFlight(d)
    BY <1>2, <1>4, <1>6, <1>8 DEF InFlight
  <2>2. Undisturbed(d)' => Undisturbed(d)
    BY <1>4 DEF Undisturbed
  <2>3. \A q \in InFlight(d) : pc'[q] = pc[q] /\ req'[q] = req[q]
    BY <1>4, <2>1 DEF InFlight
  <2>4. KeyInv(d) /\ kv'[d] = kv[d]
    BY <1>5, <1>8 DEF KeysInv
  <2> QED
    BY <1>4, <2>1, <2>2, <2>3, <2>4, KeyFrame
<1>9. ASSUME Undisturbed(e)' PROVE KeyInv(e)'
  <2>1. /\ RenameInv(e) /\ InFlight(e) = {p} /\ WorkInv(p, e) /\ ~Renaming(OrgOf[e])
    BY <1>4, <1>9, <1>3 DEF KeysInv, KeyInv, Undisturbed, RenameInv
  <2>2. /\ pc'[p] # "idle" => InFlight(e)' = {p}
        /\ pc'[p] = "idle" => InFlight(e)' = {}
    BY <1>4, <1>6, <2>1 DEF InFlight
  <2>3. RenameInv(e)'
    BY <1>4, <2>1 DEF RenameInv, Renaming
  <2>4. ASSUME pc'[p] # "idle", WorkInv(p, e)' PROVE KeyInv(e)'
    BY <2>2, <2>3, <2>4 DEF KeyInv
  <2>5. ASSUME pc'[p] = "idle", RestInv(e)' PROVE KeyInv(e)'
    BY <2>2, <2>3, <2>5 DEF KeyInv
  <2>6. CASE Reread(p)
    <3>1. pc'[p] = "publish" /\ kv' = kv /\ req'[p].fields = db[e]
      BY <1>2, <2>6 DEF Reread, Continue, TypeOK
    <3> QED
      BY <1>4, <2>1, <2>4, <3>1 DEF WorkInv
  <2>7. CASE RereadNotFound(p)
    BY <1>2, <2>1, <2>7 DEF RereadNotFound, WorkInv
  <2>8. CASE Publish(p)
    <3>1. /\ pc'[p] = IF req[p].fields = 0 THEN "remove" ELSE "get"
          /\ kv' = kv /\ req' = req
      BY <2>8 DEF Publish, Continue, TypeOK
    <3> QED
      BY <1>4, <2>1, <2>4, <3>1 DEF WorkInv
  <2>9. CASE GetEntry(p)
    <3>1. /\ pc[p] = "get" /\ pc'[p] = IF kv[e].org = 0 THEN "orgname" ELSE "put"
          /\ kv' = kv /\ req'[p].fields = req[p].fields /\ req'[p].saved = kv[e]
      BY <1>2, <2>9 DEF GetEntry, Continue, TypeOK
    <3> QED
      BY <1>4, <2>1, <2>4, <3>1 DEF WorkInv, NoEntry
  <2>10. CASE GetEntryFails(p)
    <3>1. pc[p] = "get" /\ pc'[p] = "orgname" /\ kv' = kv /\ req' = req
      BY <2>10 DEF GetEntryFails, TypeOK
    <3> QED
      BY <1>4, <2>1, <2>4, <3>1 DEF WorkInv
  <2>11. CASE ReadOrgName(p)
    <3>1. pc[p] = "orgname" /\ pc'[p] = "put" /\ kv' = kv
      BY <2>11 DEF ReadOrgName, Continue, TypeOK
    <3>2. /\ req'[p].fields = req[p].fields
          /\ req'[p].saved.org = name[OrgOf[e]]
      <4>1. req' = [req EXCEPT ![p].saved.org = name[OrgOf[e]]]
        BY <1>2, <2>11 DEF ReadOrgName
      <4>2. req[p] \in [entity : Entity \cup {"none"}, fields : Nat, saved : KeyValue]
        BY DEF TypeOK
      <4> QED
        BY <4>1, <4>2 DEF KeyValue, TypeOK
    <3> QED
      BY <1>4, <2>1, <2>4, <3>1, <3>2 DEF WorkInv
  <2>12. CASE PutEntry(p)
    <3>1. /\ pc[p] = "put" /\ pc'[p] = "idle"
          /\ kv'[e] = Entry(req[p].fields, req[p].saved.org)
      BY <1>2, <2>12 DEF PutEntry, End, TypeOK
    <3>2. e \notin sync.cur
      BY <1>2, <2>1, CopyIsRenaming DEF KeysInv, TypeOK
    <3>3. /\ db[e] # 0 /\ kv'[e].there /\ kv'[e].fields = db[e] /\ kv'[e].org = name[OrgOf[e]]
      BY <2>1, <3>1 DEF WorkInv, Entry
    <3> QED
      BY <1>4, <2>5, <3>1, <3>2, <3>3 DEF RestInv
  <2>13. CASE RemoveEntry(p)
    <3>1. pc[p] = "remove" /\ pc'[p] = "idle" /\ kv'[e] = NoEntry
      BY <1>2, <2>13 DEF RemoveEntry, End, TypeOK
    <3> QED
      BY <1>4, <2>1, <2>5, <3>1 DEF RestInv, WorkInv
  <2>14. CASE SideEffectFails(p)
    BY <1>2, <1>9, <2>14 DEF SideEffectFails, Undisturbed
  <2>15. CASE ReadOrgNameFails(p)
    BY <1>2, <1>9, <2>15 DEF ReadOrgNameFails, Undisturbed
  <2> QED
    BY <2>6, <2>7, <2>8, <2>9, <2>10, <2>11, <2>12, <2>13, <2>14, <2>15 DEF Step
<1>10. KeyInv(e)'
  BY <1>9 DEF KeyInv
<1> QED
  BY <1>7, <1>8, <1>10 DEF KeysInv

\* A device disturbs the entity whose key it changes, and no other.
LEMMA DeviceKeys ==
  ASSUME StoreInv, KeysInv, Devices PROVE KeysInv'
<1> USE DEF StoreInv
<1>1. PICK e \in Entity, v \in DeviceValue : DeviceWrite(e, v)
  BY DEF Devices
<1>2. /\ UNCHANGED <<rows, requests, renames, sync, server>> /\ disturbed \subseteq disturbed'
      /\ kv'[e] = v /\ \A d \in Entity \ {e} : kv'[d] = kv[d]
      /\ e \in created /\ (kv'[e] = kv[e] \/ e \in disturbed')
  BY <1>1 DEF DeviceWrite, TypeOK
<1>3. OrgInv'
  BY <1>2 DEF KeysInv, OrgInv, rows, server
<1>4. ASSUME NEW d \in Entity, kv'[d] = kv[d] PROVE KeyInv(d)'
  <2>1. InFlight(d)' = InFlight(d) /\ KeyInv(d) /\ (Undisturbed(d)' => Undisturbed(d))
    BY <1>2 DEF InFlight, KeysInv, Undisturbed, rows, requests
  <2> QED
    BY <1>2, <1>4, <2>1, KeyFrame DEF rows, requests
<1>5. e \in disturbed' => KeyInv(e)'
  BY DEF KeyInv, Undisturbed
<1> QED
  BY <1>2, <1>3, <1>4, <1>5 DEF KeysInv

\* A stop disturbs what is under way, and a boot finds the other keys there.
LEMMA ServerKeys ==
  ASSUME StoreInv, KeysInv, Crash \/ Booting PROVE KeysInv'
<1> USE DEF StoreInv
<1>1. UNCHANGED <<created, name, db>> /\ disturbed \subseteq disturbed'
  BY DEF Crash, Booting, Boot, BootDone, BootBreaksOff, BootEntry, BootEntryFails, rows
<1>2. \A e \in Entity : KeyInv(e) /\ (Undisturbed(e)' => Undisturbed(e))
  BY <1>1 DEF KeysInv, Undisturbed
<1>3. CASE Crash
  <2>1. /\ kv' = kv /\ renames' = {} /\ bootTodo' = {}
        /\ sync'.held = FALSE /\ sync'.todo = {} /\ sync'.cur = {}
        /\ \A p \in Handler : pc'[p] = "idle"
    BY <1>3 DEF Crash, NoSync
  <2>2. OrgInv'
    BY <1>1, <2>1 DEF KeysInv, OrgInv
  <2>3. ASSUME NEW e \in Entity, Undisturbed(e)'
        PROVE  RenameInv(e)' /\ InFlight(e)' = {} /\ RestInv(e)'
    <3>1. InFlight(e) = {} /\ ~Renaming(OrgOf[e])
      BY <1>2, <1>3, <2>3 DEF Crash, Undisturbed
    <3>2. RestInv(e)
      BY <1>2, <2>3, <3>1 DEF KeyInv
    <3>3. e \notin sync.todo /\ \A r \in renames : r.org # OrgOf[e]
      BY <3>1, CopyIsRenaming DEF KeysInv, Renaming
    <3> QED
      BY <1>1, <2>1, <3>2, <3>3 DEF RenameInv, RestInv, InFlight
  <2>4. \A e \in Entity : KeyInv(e)'
    BY <2>3 DEF KeyInv
  <2> QED
    BY <2>2, <2>4 DEF KeysInv
<1>4. ASSUME UNCHANGED <<requests, renames, sync>>, NEW e \in Entity, kv'[e] = kv[e]
      PROVE  KeyInv(e)'
  <2>1. InFlight(e)' = InFlight(e)
    BY <1>4 DEF InFlight, requests
  <2> QED
    BY <1>1, <1>2, <1>4, <2>1, KeyFrame DEF requests
<1>5. CASE Boot \/ BootDone \/ BootBreaksOff \/ \E e \in Entity : BootEntryFails(e)
  <2>1. /\ UNCHANGED <<requests, renames, sync>> /\ kv' = kv
        /\ \A e \in bootTodo' : db[e] # 0
    BY <1>5 DEF Boot, BootDone, BootBreaksOff, BootEntryFails, KeysInv, OrgInv
  <2>2. OrgInv'
    BY <1>1, <2>1 DEF KeysInv, OrgInv
  <2> QED
    BY <1>4, <2>1, <2>2 DEF KeysInv
<1>6. ASSUME NEW d \in Entity, BootEntry(d) PROVE KeysInv'
  <2>1. /\ UNCHANGED <<requests, renames, sync>> /\ bootTodo' \subseteq bootTodo
        /\ \A e \in Entity \ {d} : kv'[e] = kv[e]
        /\ kv[d].there => kv' = kv
        /\ d \in bootTodo
    BY <1>6 DEF BootEntry, TypeOK
  <2>2. db[d] # 0 /\ d \in created
    BY <2>1 DEF KeysInv, OrgInv, IdInv
  <2>3. OrgInv'
    BY <1>1, <2>1, <2>2 DEF KeysInv, OrgInv
  <2>4. ASSUME Undisturbed(d) PROVE kv'[d] = kv[d]
    <3>1. phase = "booting"
      BY <2>1 DEF BootInv
    <3>2. InFlight(d) = {}
      BY <3>1 DEF BootInv, InFlight
    <3>3. RestInv(d)
      BY <1>2, <2>4, <3>2 DEF KeyInv
    <3> QED
      BY <2>1, <2>2, <3>3 DEF RestInv
  <2>5. KeyInv(d)'
    BY <1>2, <1>4, <2>1, <2>4 DEF KeyInv
  <2> QED
    BY <1>4, <2>1, <2>3, <2>5 DEF KeysInv
<1> QED
  BY <1>3, <1>5, <1>6 DEF Booting

LEMMA KeysInit == Init => KeysInv
BY DEF Init, KeysInv, OrgInv, KeyInv, Undisturbed, NoSync

LEMMA KeysStep == StoreInv /\ KeysInv /\ [Next]_vars => KeysInv'
<1> SUFFICES ASSUME StoreInv, KeysInv, [Next]_vars PROVE KeysInv'
  OBVIOUS
<1>1. CASE UNCHANGED vars
  BY <1>1 DEF vars, KeysInv, OrgInv, KeyInv, Undisturbed, RenameInv, WorkInv, RestInv,
              Renaming, InFlight
<1> QED
  BY <1>1, OrganizationKeys, SyncKeys, BeginKeys, RequestKeys, DeviceKeys, ServerKeys DEF Next

\* The invariant holds of every state, whatever the number of entities,
\* organizations, requests, failures and restarts.
THEOREM StoreInvariant == Spec => []StoreInv
<1>1. Init => StoreInv
  BY StoreInit
<1>2. StoreInv /\ [Next]_vars => StoreInv'
  BY StoreStep
<1> QED
  BY <1>1, <1>2, PTL DEF Spec

\* The types of the rows, the keys, the requests and the copies of names.
THEOREM StoreTypes == Spec => []TypeOK
<1>1. StoreInv => TypeOK
  BY DEF StoreInv
<1> QED
  BY <1>1, StoreInvariant, PTL

\* The bucket has a key for every row, but for requests still under way, and
\* for entities on which a call has failed or whose key a device has deleted
\* since the server was last down.
THEOREM BucketComplete == Spec => []RowHasKey
<1>1. StoreInv => RowHasKey
  BY DEF StoreInv
<1> QED
  BY <1>1, StoreInvariant, PTL

\* No copy of an organization's name brings back the key of a deleted entity:
\* the rows it goes through stay, and a key it has in hand is only gone if a
\* device has deleted it.
THEOREM RenamesReviveNothing == Spec => []RenameRevivesNoKey
<1>1. StoreInv => RenameRevivesNoKey
  BY DEF StoreInv
<1> QED
  BY <1>1, StoreInvariant, PTL

\* At rest, the key of an entity says what its row and its organization's
\* say, but for entities whose requests or copies of a name overlapped, failed
\* or were cut short, or whose key a device has changed: this is all that the two writes without a transaction
\* promise.
THEOREM UndisturbedKeysRight == Spec => []UndisturbedKeyCurrent
<1>1. Init => KeysInv
  BY KeysInit
<1>2. StoreInv /\ KeysInv /\ [Next]_vars => KeysInv'
  BY KeysStep
<1>3. StoreInv /\ KeysInv => UndisturbedKeyCurrent
  <2> SUFFICES ASSUME StoreInv, KeysInv, NEW e \in Entity, e \in created \ disturbed,
                      InFlight(e) = {}, ~Renaming(OrgOf[e]), name[OrgOf[e]] # 0
               PROVE  IF db[e] = 0 THEN kv[e] = NoEntry
                      ELSE kv[e].there /\ kv[e].fields = db[e] /\ kv[e].org = name[OrgOf[e]]
    BY DEF UndisturbedKeyCurrent
  <2>1. RestInv(e)
    BY DEF KeysInv, KeyInv, Undisturbed
  <2>2. e \notin sync.todo /\ \A r \in renames : r.org # OrgOf[e]
    BY CopyIsRenaming DEF StoreInv, KeysInv, Renaming
  <2> QED
    BY <2>1, <2>2 DEF RestInv
<1> QED
  BY <1>1, <1>2, <1>3, StoreInvariant, PTL DEF Spec
-----------------------------------------------------------------------------
(* The dashboard on top of the store: LiveDashboard.  Its steps are steps  *)
(* of the store and steps of the feed, so that both sets of theorems hold  *)
(* of it, and what they say of the bucket is joined by BucketAgrees.       *)

FeedProofs == INSTANCE OverwatchBroadcast_proofs WITH kv <- bucket, pc <- page

\* The feed of LiveDashboard is the one the theorems are about.
LEMMA SameFeed ==
  /\ Feed!Spec => FeedProofs!Spec
  /\ FeedProofs!CardsCurrent => Feed!CardsCurrent
  /\ FeedProofs!TypeOK => Feed!TypeOK
BY DEF Feed!bucketVars, FeedProofs!bucketVars, Feed!watchVars,
       FeedProofs!watchVars, Feed!copyVars, FeedProofs!copyVars, Feed!loadVars,
       FeedProofs!loadVars, Feed!clientVars, FeedProofs!clientVars, Feed!vars,
       FeedProofs!vars, Feed!Gone, FeedProofs!Gone, Feed!State, FeedProofs!State,
       Feed!Merge, FeedProofs!Merge, Feed!Live, FeedProofs!Live, Feed!Update,
       FeedProofs!Update, Feed!FullSnapshot, FeedProofs!FullSnapshot,
       Feed!Message, FeedProofs!Message, Feed!Entry, FeedProofs!Entry,
       Feed!BucketValue, FeedProofs!BucketValue, Feed!LiveKeys,
       FeedProofs!LiveKeys, Feed!Started, FeedProofs!Started, Feed!Watching,
       FeedProofs!Watching, Feed!ReadLocked, FeedProofs!ReadLocked,
       Feed!StartFree, FeedProofs!StartFree, Feed!NoStates, FeedProofs!NoStates,
       Feed!Init, FeedProofs!Init, Feed!Write, FeedProofs!Write, Feed!KVPut,
       FeedProofs!KVPut, Feed!KVDelete, FeedProofs!KVDelete, Feed!Replays,
       FeedProofs!Replays, Feed!Connect, FeedProofs!Connect, Feed!AlreadyStarted,
       FeedProofs!AlreadyStarted, Feed!StartLoad, FeedProofs!StartLoad,
       Feed!StartFails, FeedProofs!StartFails,
       Feed!LoadKey, FeedProofs!LoadKey, Feed!FinishLoad, FeedProofs!FinishLoad,
       Feed!Register, FeedProofs!Register, Feed!WatchStart, FeedProofs!WatchStart,
       Feed!WatchStop, FeedProofs!WatchStop, Feed!ApplyNothing,
       FeedProofs!ApplyNothing, Feed!Apply, FeedProofs!Apply, Feed!BroadcastBegin,
       FeedProofs!BroadcastBegin, Feed!Send, FeedProofs!Send, Feed!SendFull,
       FeedProofs!SendFull, Feed!DrainOne, FeedProofs!DrainOne, Feed!DrainDone,
       FeedProofs!DrainDone, Feed!BroadcastEnd, FeedProofs!BroadcastEnd,
       Feed!ReceiveUpdate, FeedProofs!ReceiveUpdate, Feed!ReceiveFullSnapshot,
       FeedProofs!ReceiveFullSnapshot, Feed!TakeSnapshot, FeedProofs!TakeSnapshot,
       Feed!Flush, FeedProofs!Flush, Feed!Cancel, FeedProofs!Cancel,
       Feed!Unsubscribe, FeedProofs!Unsubscribe, Feed!Leave, FeedProofs!Leave,
       Feed!Crash, FeedProofs!Crash, Feed!Bucket, FeedProofs!Bucket, Feed!Watch,
       FeedProofs!Watch, Feed!Subscribe, FeedProofs!Subscribe, Feed!Loop,
       FeedProofs!Loop, Feed!Next, FeedProofs!Next, Feed!Spec, FeedProofs!Spec,
       Feed!TypeOK, FeedProofs!TypeOK, Feed!CardsCurrent, FeedProofs!CardsCurrent,
       Feed!AtRest, FeedProofs!AtRest, Feed!BucketState, FeedProofs!BucketState,
       Feed!Cardinality, FeedProofs!Cardinality

LEMMA FeedConstants ==
  ASSUME LiveAssumption
  PROVE  /\ FeedProofs!IsFiniteSet(Entity) /\ FeedProofs!IsFiniteSet(Key)
         /\ EntityOf \in [Key -> Entity]
         /\ QueueCap \in Nat \ {0} /\ MaxRev \in Nat /\ MaxRestarts \in Nat
<1>1. \A S : IsFiniteSet(S) <=> FeedProofs!IsFiniteSet(S)
  BY DEF IsFiniteSet, FeedProofs!IsFiniteSet
<1>2. IsFiniteSet(Key)
  BY FS_Union DEF LiveAssumption, Key
<1> QED
  BY <1>1, <1>2 DEF LiveAssumption, EntityOf, Key

LEMMA FeedRight ==
  ASSUME LiveAssumption
  PROVE  Feed!Spec => [](Feed!TypeOK /\ Feed!CardsCurrent)
<1>1. FeedProofs!Spec => []FeedProofs!CardsCurrent
  BY FeedProofs!CardsRight, FeedConstants
<1>2. FeedProofs!Spec => []FeedProofs!TypeOK
  BY FeedProofs!TypeCorrect, FeedConstants
<1> QED
  BY <1>1, <1>2, SameFeed, PTL

\* Every step of the whole is a step of the store.
LEMMA LiveStoreStep == StoreInv /\ [LiveNext]_liveVars => [Next]_vars
<1> SUFFICES ASSUME TypeOK, [LiveNext]_liveVars PROVE [Next]_vars
  BY DEF StoreInv
<1>1. ASSUME NEW e \in Entity, Put(e) PROVE Next
  <2>1. PutsKey(e)
    BY <1>1 DEF Put
  <2>2. CASE \E p \in Handler : PutEntry(p)
    BY <2>2 DEF Next, Step
  <2>3. CASE SyncPut(e)
    BY <2>3 DEF Next, Sync
  <2>4. CASE BootEntry(e)
    BY <2>4 DEF Next, Booting
  <2> QED
    BY <2>1, <2>2, <2>3, <2>4 DEF PutsKey
<1>2. ASSUME NEW p \in Handler, Remove(p) PROVE Next
  BY <1>2 DEF Remove, Next, Step
<1>3. CASE LeavesBucket
  BY <1>3 DEF LeavesBucket, Next, Sync, Step, Booting
<1>4. CASE DeviceWrites
  <2>1. ASSUME NEW k \in DeviceKey, DeviceWritesOwn(k) PROVE UNCHANGED vars
    BY <2>1 DEF DeviceWritesOwn
  <2>2. ASSUME NEW e \in Entity, NEW v \in DeviceValue, DeviceWritesEntity(e, v) PROVE Next
    BY <2>2 DEF DeviceWritesEntity, Next, Devices
  <2>3. ASSUME NEW e \in Entity, DeviceWritesEntity(e, kv[e]) PROVE UNCHANGED vars
    <3>1. kv' = [kv EXCEPT ![e] = kv[e]] /\ disturbed' = disturbed /\ failed' = failed
          /\ UNCHANGED <<rows, requests, renames, sync, server, fails>>
      BY <2>3 DEF DeviceWritesEntity, DeviceWrite
    <3>2. kv' = kv
      BY <3>1 DEF TypeOK
    <3> QED
      BY <3>1, <3>2 DEF vars, rows, requests, server
  <2> QED
    BY <1>4, <2>1, <2>2, <2>3 DEF DeviceWrites
<1>5. CASE Stop
  BY <1>5 DEF Stop, Next
<1>6. CASE UNCHANGED vars
  BY <1>6
<1>7. CASE UNCHANGED liveVars
  BY <1>7 DEF liveVars
<1> QED
  BY <1>1, <1>2, <1>3, <1>4, <1>5, <1>6, <1>7 DEF LiveNext, Store

\* ... and a step of the feed.
LEMMA LiveFeedStep ==
  StoreInv /\ [LiveNext]_liveVars => [Feed!Next]_Feed!vars
<1> SUFFICES ASSUME StoreInv, [LiveNext]_liveVars PROVE [Feed!Next]_Feed!vars
  OBVIOUS
<1>1. ASSUME NEW k \in Key, Feed!KVPut(k) \/ Feed!KVDelete(k) PROVE Feed!Next
  BY <1>1 DEF Feed!Next, Feed!Bucket
<1>2. Entity \subseteq Key /\ DeviceKey \subseteq Key
  BY DEF Key
<1>3. CASE \E e \in Entity : Put(e)
  BY <1>1, <1>2, <1>3 DEF Put
<1>4. ASSUME NEW p \in Handler, Remove(p) PROVE Feed!Next
  <2>1. req[p].entity \in Entity
    BY <1>4 DEF Remove, RemoveEntry, StoreInv, TypeOK
  <2> QED
    BY <1>1, <1>2, <1>4, <2>1 DEF Remove
<1>5. CASE DeviceWrites
  BY <1>1, <1>2, <1>5 DEF DeviceWrites, DeviceWritesOwn, DeviceWritesEntity
<1>6. CASE FeedStep
  BY <1>6 DEF FeedStep, Feed!Next
<1>7. CASE Stop
  BY <1>7 DEF Stop, Feed!Next
<1>8. CASE UNCHANGED feedVars
  BY <1>8 DEF feedVars, Feed!vars, Feed!bucketVars, Feed!watchVars, Feed!copyVars,
              Feed!loadVars, Feed!clientVars
<1>9. CASE UNCHANGED liveVars
  BY <1>8, <1>9 DEF liveVars
<1> QED
  BY <1>3, <1>4, <1>5, <1>6, <1>7, <1>8, <1>9 DEF LiveNext, Store

\* A put or a delete of a key names its value by the next revision.
LEMMA PutRecorded ==
  ASSUME LiveAssumption, TypeOK, BucketAgrees, Feed!TypeOK, NEW k \in Key, NEW v \in KeyValue,
         \/ Feed!KVPut(k) /\ (k \in Entity => kv'[k] = v /\ v.there)
         \/ Feed!KVDelete(k) /\ (k \in Entity => ~kv'[k].there),
         content' = Append(content, v),
         \A e \in Entity \ {k} : kv'[e] = kv[e]
  PROVE  BucketAgrees'
<1>1. /\ content' \in Seq(KeyValue) /\ Len(content') = Len(content) + 1
      /\ content'[Len(content) + 1] = v
      /\ \A i \in 1 .. Len(content) : content'[i] = content[i]
  BY AppendProperties DEF BucketAgrees
<1>2. Len(content) = rev /\ rev \in Nat /\ rev' = rev + 1
  BY DEF BucketAgrees, Feed!KVPut, Feed!KVDelete, Feed!Write, Feed!TypeOK
<1>3. /\ bucket'[k].rev = rev + 1 /\ bucket'[k].op \in {"put", "del"}
      /\ Feed!KVPut(k) => bucket'[k].op = "put"
      /\ Feed!KVDelete(k) => bucket'[k].op = "del"
      /\ \A j \in Key \ {k} : bucket'[j] = bucket[j]
  BY DEF Feed!KVPut, Feed!KVDelete, Feed!Write, Feed!TypeOK
<1>4. ASSUME NEW e \in Entity
      PROVE  LET last == bucket'[e] IN
             IF kv'[e].there
             THEN last.op = "put" /\ last.rev \in 1 .. rev' /\ content'[last.rev] = kv'[e]
             ELSE last.op # "put"
  <2>1. CASE e = k
    BY <1>1, <1>2, <1>3, <2>1
  <2>2. CASE e # k
    <3>1. e \in Key /\ bucket'[e] = bucket[e] /\ kv'[e] = kv[e]
      BY <1>3, <2>2 DEF Key
    <3> QED
      BY <1>1, <1>2, <3>1 DEF BucketAgrees
  <2> QED
    BY <2>1, <2>2
<1> QED
  BY <1>1, <1>2, <1>4 DEF BucketAgrees

\* The steps of the feed do not write the bucket.
LEMMA FeedReads == FeedStep \/ Feed!Crash => UNCHANGED <<bucket, rev>>
BY DEF FeedStep, Feed!Watch, Feed!WatchStop, Feed!LoadKey, Feed!Subscribe,
       Feed!Loop, Feed!Cancel, Feed!Unsubscribe, Feed!Leave, Feed!Crash,
       Feed!WatchStart, Feed!ApplyNothing, Feed!Apply, Feed!BroadcastBegin,
       Feed!BroadcastEnd, Feed!Send, Feed!SendFull, Feed!DrainOne, Feed!DrainDone,
       Feed!Connect, Feed!AlreadyStarted, Feed!StartLoad, Feed!StartFails, Feed!FinishLoad,
       Feed!Register, Feed!ReceiveUpdate, Feed!ReceiveFullSnapshot,
       Feed!TakeSnapshot, Feed!Flush, Feed!bucketVars

\* Whatever step is taken, the bucket holds what the store has put.
LEMMA AgreesStep ==
  ASSUME LiveAssumption, StoreInv, StoreInv', Feed!TypeOK, BucketAgrees, [LiveNext]_liveVars
  PROVE  BucketAgrees'
<1>1. TypeOK /\ TypeOK' /\ Entity \subseteq Key
  BY DEF StoreInv, Key
<1>2. ASSUME UNCHANGED <<kv, bucket, rev, content>> PROVE BucketAgrees'
  BY <1>2 DEF BucketAgrees
<1>3. ASSUME NEW e \in Entity, Put(e) PROVE BucketAgrees'
  <2>1. kv'[e].there /\ \A d \in Entity \ {e} : kv'[d] = kv[d]
    <3>1. PutsKey(e)
      BY <1>3 DEF Put
    <3>2. ASSUME NEW p \in Handler, req[p].entity = e, PutEntry(p)
          PROVE  kv'[e].there /\ \A d \in Entity \ {e} : kv'[d] = kv[d]
      BY <1>1, <3>2, KeyTypes DEF PutEntry, TypeOK, Entry
    <3>3. CASE SyncPut(e)
      BY <1>1, <3>3 DEF SyncPut, TypeOK, Entry
    <3>4. CASE BootEntry(e) /\ ~kv[e].there
      BY <1>1, <3>4 DEF BootEntry, TypeOK, Entry
    <3> QED
      BY <3>1, <3>2, <3>3, <3>4 DEF PutsKey
  <2>2. kv'[e] \in KeyValue
    BY <1>1 DEF TypeOK
  <2> QED
    BY <1>1, <1>3, <2>1, <2>2, PutRecorded DEF Put
<1>4. ASSUME NEW p \in Handler, Remove(p) PROVE BucketAgrees'
  <2>1. PICK e \in Entity : e = req[p].entity
    BY <1>1, <1>4 DEF Remove, RemoveEntry, TypeOK
  <2>2. kv'[e] = NoEntry /\ \A d \in Entity \ {e} : kv'[d] = kv[d]
    BY <1>1, <1>4, <2>1 DEF Remove, RemoveEntry, TypeOK
  <2> QED
    BY <1>1, <1>4, <2>1, <2>2, KeyTypes, PutRecorded DEF Remove
<1>5. CASE LeavesBucket /\ UNCHANGED <<feedVars, content>>
  <2>1. kv' = kv
    BY <1>5 DEF LeavesBucket, Organizations, CreateOrganization, UpdateOrganization,
                DeleteOrganization, SyncStart, SyncGet, SyncGetFails, SyncPutFails,
                SyncBreaksOff, SyncEnd, Request, CreateEntity, UpdateEntity,
                DeleteEntity, Begin, Reread, RereadNotFound, Publish, GetEntry,
                GetEntryFails, ReadOrgName, ReadOrgNameFails, SideEffectFails,
                Continue, Boot, BootDone, BootBreaksOff, BootEntry, BootEntryFails,
                rows
  <2> QED
    BY <1>2, <1>5, <2>1 DEF feedVars
<1>6. ASSUME NEW k \in DeviceKey, DeviceWritesOwn(k) PROVE BucketAgrees'
  <2>1. k \in Key /\ k \notin Entity /\ kv' = kv
    BY <1>6 DEF Key, LiveAssumption, DeviceWritesOwn, vars
  <2> QED
    BY <1>1, <1>6, <2>1, KeyTypes, PutRecorded DEF DeviceWritesOwn
<1>7. ASSUME NEW e \in Entity, NEW v \in DeviceValue \cup {kv[e]}, DeviceWritesEntity(e, v)
      PROVE  BucketAgrees'
  <2>1. v \in KeyValue /\ kv'[e] = v /\ \A d \in Entity \ {e} : kv'[d] = kv[d]
    BY <1>1, <1>7 DEF DeviceWritesEntity, DeviceWrite, TypeOK
  <2>2. /\ content' = Append(content, v)
        /\ v.there => Feed!KVPut(e)
        /\ ~v.there => Feed!KVDelete(e)
    BY <1>7 DEF DeviceWritesEntity
  <2> QED
    BY <1>1, <2>1, <2>2, PutRecorded
<1>8. CASE FeedStep /\ UNCHANGED <<vars, content>>
  BY <1>2, <1>8, FeedReads DEF vars
<1>9. CASE Stop
  <2>1. kv' = kv
    BY <1>9 DEF Stop, Crash
  <2> QED
    BY <1>2, <1>9, <2>1, FeedReads DEF Stop
<1>10. CASE UNCHANGED liveVars
  BY <1>2, <1>10 DEF liveVars, vars, feedVars
<1> QED
  BY <1>3, <1>4, <1>5, <1>6, <1>7, <1>8, <1>9, <1>10 DEF LiveNext, Store, DeviceWrites

LEMMA LiveImplements ==
  ASSUME LiveAssumption
  PROVE  LiveSpec => Spec /\ Feed!Spec
<1>1. LiveInit => Init /\ Feed!Init
  BY DEF LiveInit
<1>2. LiveSpec => []StoreInv
  <2>1. LiveInit => StoreInv
    BY <1>1, StoreInit
  <2>2. StoreInv /\ [LiveNext]_liveVars => StoreInv'
    BY LiveStoreStep, StoreStep
  <2> QED
    BY <2>1, <2>2, PTL DEF LiveSpec
<1>3. LiveSpec => Spec
  BY <1>1, <1>2, LiveStoreStep, PTL DEF LiveSpec, Spec
<1> QED
  BY <1>1, <1>2, <1>3, LiveFeedStep, PTL DEF LiveSpec, Feed!Spec

\* The revision the feed has for the key of an entity is that of what the
\* store last put there.
THEOREM FeedReadsStore ==
  ASSUME LiveAssumption PROVE LiveSpec => []BucketAgrees
<1>1. LiveInit => BucketAgrees
  <2> SUFFICES ASSUME LiveInit PROVE BucketAgrees
    OBVIOUS
  <2>1. content \in Seq(KeyValue) /\ Len(content) = 0 /\ rev = 0
    BY DEF LiveInit, Feed!Init
  <2>2. \A e \in Entity : ~kv[e].there /\ bucket[e].op = "none"
    BY DEF LiveInit, Init, Feed!Init, NoEntry, Key
  <2> QED
    BY <2>1, <2>2 DEF BucketAgrees
<1>2. StoreInv /\ StoreInv' /\ Feed!TypeOK /\ BucketAgrees /\ [LiveNext]_liveVars => BucketAgrees'
  BY AgreesStep
<1> QED
  BY <1>1, <1>2, LiveImplements, FeedRight, StoreInvariant, PTL DEF LiveSpec

\* From the row to the card: what an operator sees of an entity when nothing
\* is under way is what the database says of it, through the two writes
\* without a transaction, the copies of names, boots, lost watchers, crashes
\* and drained channels that lie between them.
THEOREM CardsShowRows ==
  ASSUME LiveAssumption PROVE LiveSpec => []CardShowsRow
<1>1. ASSUME StoreInv, UndisturbedKeyCurrent, Feed!CardsCurrent, Feed!TypeOK, BucketAgrees
      PROVE  CardShowsRow
  <2> SUFFICES ASSUME phase = "up", NEW e \in Entity, e \in created \ disturbed,
                      NEW c \in subscribers, InFlight(e) = {}, ~Renaming(OrgOf[e]),
                      name[OrgOf[e]] # 0, Feed!AtRest(c)
               PROVE  IF db[e] = 0 THEN shown[c][e][e] = 0 \/ c \in lossy
                      ELSE /\ shown[c][e][e] \in 1 .. rev
                           /\ content[shown[c][e][e]] = Entry(db[e], name[OrgOf[e]])
    BY DEF CardShowsRow
  <2>1. IF db[e] = 0 THEN kv[e] = NoEntry
        ELSE kv[e].there /\ kv[e].fields = db[e] /\ kv[e].org = name[OrgOf[e]]
    BY <1>1 DEF UndisturbedKeyCurrent
  <2>2. shown[c][e] = Feed!BucketState(e) \/ (c \in lossy /\ Feed!BucketState(e) = Feed!Gone)
    BY <1>1 DEF Feed!CardsCurrent
  <2>3. e \in Key /\ EntityOf[e] = e
    BY DEF Key, EntityOf
  <2>4. Feed!BucketState(e)[e] = IF bucket[e].op = "put" THEN bucket[e].rev ELSE 0
    BY <2>3 DEF Feed!BucketState, Feed!BucketValue
  <2>5. IF kv[e].there
        THEN bucket[e].op = "put" /\ bucket[e].rev \in 1 .. rev /\ content[bucket[e].rev] = kv[e]
        ELSE bucket[e].op # "put"
    BY <1>1 DEF BucketAgrees
  <2>6. CASE db[e] = 0
    BY <2>1, <2>2, <2>4, <2>5, <2>6, KeyTypes
  <2>7. CASE db[e] # 0
    <3>1. kv[e] = Entry(db[e], name[OrgOf[e]])
      <4>1. kv[e] \in KeyValue
        BY <1>1 DEF StoreInv, TypeOK
      <4> QED
        BY <2>1, <2>7, <4>1 DEF KeyValue, Entry
    <3>2. Feed!BucketState(e)[e] = bucket[e].rev /\ bucket[e].rev \in 1 .. rev
      BY <2>1, <2>4, <2>5, <2>7
    <3>3. Feed!BucketState(e) # Feed!Gone
      <4>1. Feed!Gone[e] = 0 /\ bucket[e].rev # 0
        BY <1>1, <2>3, <3>2 DEF Feed!Gone, Feed!TypeOK
      <4> QED
        BY <3>2, <4>1
    <3> QED
      BY <2>1, <2>2, <2>5, <2>7, <3>1, <3>2, <3>3
  <2> QED
    BY <2>6, <2>7
<1> QED
  BY <1>1, LiveImplements, FeedRight, FeedReadsStore, StoreInvariant, UndisturbedKeysRight, PTL
=============================================================================

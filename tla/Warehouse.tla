----------------------------- MODULE Warehouse -----------------------------
(***************************************************************************)
(* Warehouses, their zones, the goods in them and the movements of goods:  *)
(* modules/warehouse.                                                      *)
(*                                                                         *)
(* Goods and movements name other rows by id.  The services check the      *)
(* warehouse alone; that the other rows exist is left to the foreign keys, *)
(* which refuse the statement.  A delete is one more statement after the   *)
(* read, so rows can come to refer to a warehouse in between.              *)
(***************************************************************************)
EXTENDS Handlers

CONSTANTS
    Warehouses, Zones, Goods, Movements,    \* ids of rows
    None                                    \* a reference that is null

VARIABLES
    warehouse,  \* warehouse[w]: whether the row exists
    zone,       \* zone[z]: the row of warehouse_zones
    good,       \* good[g]: the row of warehouse_inventory
    movement    \* movement[m]: the row of warehouse_movements

stores == <<warehouse, zone, good, movement>>
vars == <<warehouse, zone, good, movement, request, started, raced>>

\* warehouseMovementStatusEnum
MovementStatuses == {"PENDING", "IN_PROCESS", "COMPLETED", "CANCELLED"}

\* Fault: what is pending can be completed.
TransitionsShort ==
    [PENDING |-> {"IN_PROCESS", "COMPLETED", "CANCELLED"}, IN_PROCESS |-> {"COMPLETED", "CANCELLED"},
     COMPLETED |-> {}, CANCELLED |-> {}]

\* MOVEMENT_STATUS_TRANSITIONS
Transitions ==
    [PENDING |-> {"IN_PROCESS", "CANCELLED"}, IN_PROCESS |-> {"COMPLETED", "CANCELLED"},
     COMPLETED |-> {}, CANCELLED |-> {}]

WarehouseRow == [row : {"warehouse"}]
ZoneRow == [in : Warehouses]
GoodRow == [in : Warehouses, zone : Zones \cup {None}]
MovementRow == [in : Warehouses, of : Goods \cup {None}, status : MovementStatuses]
AllIds == Warehouses \cup Zones \cup Goods \cup Movements
Running ==
    [pc : {"updateWarehouse", "deleteWarehouse", "insertZone"}, on : Warehouses]
    \cup [pc : {"findZoneToUpdate", "findZoneToDelete", "updateZone", "deleteZone"},
          on : Zones, in : Warehouses]
    \cup [pc : {"insertGood"}, on : Warehouses, zone : Zones \cup {None}]
    \cup [pc : {"updateGood"}, on : Goods, zone : Zones \cup {None}]
    \cup [pc : {"deleteGood"}, on : Goods]
    \cup [pc : {"insertMovement"}, on : Warehouses, of : Goods \cup {None}]
    \cup [pc : {"updateMovement"}, on : Movements, status : MovementStatuses]

TypeOK ==
    /\ warehouse \in [Warehouses -> WarehouseRow \cup {Absent, Gone}]
    /\ zone \in [Zones -> ZoneRow \cup {Absent, Gone}]
    /\ good \in [Goods -> GoodRow \cup {Absent, Gone}]
    /\ movement \in [Movements -> MovementRow \cup {Absent}]
    /\ HandlersTypeOK(Running, AllIds)

Init ==
    /\ warehouse = [w \in Warehouses |-> Absent]
    /\ zone = [z \in Zones |-> Absent]
    /\ good = [g \in Goods |-> Absent]
    /\ movement = [m \in Movements |-> Absent]
    /\ HandlersInit

\* getWarehouseById, getInventoryItemById, getMovementById
OpenWarehouse(w) == Present(warehouse[w])
InStore(g) == Present(good[g])
Recorded(m) == Present(movement[m])

\* What the foreign keys ask of a reference that may be null.
ZoneExists(z) == z = None \/ Present(zone[z])
GoodExists(g) == g = None \/ Present(good[g])

(***************************************************************************)
(* Warehouses.                                                             *)
(***************************************************************************)

CreateWarehouse(r, w) ==
    /\ warehouse[w] = Absent
    /\ warehouse' = [warehouse EXCEPT ![w] = [row |-> "warehouse"]]
    /\ Once(r, w)
    /\ UNCHANGED <<zone, good, movement>>

\* updateWarehouse edits columns that no property is about.
BeginOnWarehouse(r, w) ==
    /\ OpenWarehouse(w)
    /\ \E pc \in {"updateWarehouse", "deleteWarehouse", "insertZone"} :
        Start(r, [pc |-> pc, on |-> w])
    /\ UNCHANGED stores

UpdateWarehouse(r) ==
    /\ At(r, "updateWarehouse")
    /\ Finish(r)
    /\ UNCHANGED stores

\* Rows that refer to the warehouse.
Refers(w) ==
    \/ \E z \in Zones : Present(zone[z]) /\ zone[z].in = w
    \/ \E g \in Goods : InStore(g) /\ good[g].in = w
    \/ \E m \in Movements : Recorded(m) /\ movement[m].in = w

DeleteWarehouse(r) ==
    LET w == request[r].on IN
    /\ At(r, "deleteWarehouse")
    /\ warehouse' = IF Refers(w) THEN warehouse ELSE [warehouse EXCEPT ![w] = Gone]
    /\ Finish(r)
    /\ UNCHANGED <<zone, good, movement>>

(***************************************************************************)
(* Zones.                                                                  *)
(***************************************************************************)

\* Fault: the zone is inserted whether or not its warehouse is still there.
InsertZoneLoose(r, z) ==
    LET w == request[r].on IN
    /\ At(r, "insertZone")
    /\ zone[z] = Absent
    /\ zone' = [zone EXCEPT ![z] = [in |-> w]]
    /\ Finish(r)
    /\ UNCHANGED <<warehouse, good, movement>>

InsertZone(r, z) ==
    LET w == request[r].on IN
    /\ At(r, "insertZone")
    /\ zone[z] = Absent
    /\ zone' = IF OpenWarehouse(w) THEN [zone EXCEPT ![z] = [in |-> w]] ELSE zone
    /\ Finish(r)
    /\ UNCHANGED <<warehouse, good, movement>>

\* updateZone, deleteZone: getZoneById reads the warehouse first.
BeginOnZone(r, w, z) ==
    /\ OpenWarehouse(w)
    /\ \E pc \in {"findZoneToUpdate", "findZoneToDelete"} :
        Start(r, [pc |-> pc, on |-> z, in |-> w])
    /\ UNCHANGED stores

FindZone(r) ==
    LET q == request[r] IN
    /\ q.pc \in {"findZoneToUpdate", "findZoneToDelete"}
    /\ IF Present(zone[q.on]) /\ zone[q.on].in = q.in
       THEN Goto(r, [q EXCEPT !.pc = IF @ = "findZoneToUpdate" THEN "updateZone" ELSE "deleteZone"])
       ELSE Finish(r)
    /\ UNCHANGED stores

UpdateZone(r) ==
    /\ At(r, "updateZone")
    /\ Finish(r)
    /\ UNCHANGED stores

DeleteZone(r) ==
    LET z == request[r].on IN
    /\ At(r, "deleteZone")
    /\ zone' = IF \E g \in Goods : InStore(g) /\ good[g].zone = z THEN zone
               ELSE [zone EXCEPT ![z] = Gone]
    /\ Finish(r)
    /\ UNCHANGED <<warehouse, good, movement>>

(***************************************************************************)
(* Goods.  Neither handler asks whose the zone is.                         *)
(***************************************************************************)

BeginCreateGood(r, w, z) ==
    /\ OpenWarehouse(w)
    /\ Start(r, [pc |-> "insertGood", on |-> w, zone |-> z])
    /\ UNCHANGED stores

InsertGood(r, g) ==
    LET q == request[r] IN
    /\ At(r, "insertGood")
    /\ good[g] = Absent
    /\ good' = IF OpenWarehouse(q.on) /\ ZoneExists(q.zone)
               THEN [good EXCEPT ![g] = [in |-> q.on, zone |-> q.zone]] ELSE good
    /\ Finish(r)
    /\ UNCHANGED <<warehouse, zone, movement>>

BeginUpdateGood(r, g, z) ==
    /\ InStore(g)
    /\ Start(r, [pc |-> "updateGood", on |-> g, zone |-> z])
    /\ UNCHANGED stores

\* A zone that is left out, or empty, is not written.
UpdateGood(r) ==
    LET q == request[r] IN
    /\ At(r, "updateGood")
    /\ good' = IF InStore(q.on) /\ q.zone # None /\ ZoneExists(q.zone)
               THEN [good EXCEPT ![q.on].zone = q.zone] ELSE good
    /\ Finish(r)
    /\ UNCHANGED <<warehouse, zone, movement>>

BeginDeleteGood(r, g) ==
    /\ InStore(g)
    /\ Start(r, [pc |-> "deleteGood", on |-> g])
    /\ UNCHANGED stores

\* Fault: the movements of the goods are not asked for.
DeleteGoodLoose(r) ==
    LET g == request[r].on IN
    /\ At(r, "deleteGood")
    /\ good' = [good EXCEPT ![g] = Gone]
    /\ Finish(r)
    /\ UNCHANGED <<warehouse, zone, movement>>

DeleteGood(r) ==
    LET g == request[r].on IN
    /\ At(r, "deleteGood")
    /\ good' = IF \E m \in Movements : Recorded(m) /\ movement[m].of = g THEN good
               ELSE [good EXCEPT ![g] = Gone]
    /\ Finish(r)
    /\ UNCHANGED <<warehouse, zone, movement>>

(***************************************************************************)
(* Movements.                                                              *)
(***************************************************************************)

BeginCreateMovement(r, w, g) ==
    /\ OpenWarehouse(w)
    /\ Start(r, [pc |-> "insertMovement", on |-> w, of |-> g])
    /\ UNCHANGED stores

InsertMovement(r, m) ==
    LET q == request[r] IN
    /\ At(r, "insertMovement")
    /\ movement[m] = Absent
    /\ movement' = IF OpenWarehouse(q.on) /\ GoodExists(q.of)
                   THEN [movement EXCEPT ![m] = [in |-> q.on, of |-> q.of, status |-> "PENDING"]]
                   ELSE movement
    /\ Finish(r)
    /\ UNCHANGED <<warehouse, zone, good>>

BeginComplete(r, m) ==
    /\ Recorded(m)
    /\ "COMPLETED" \in Transitions[movement[m].status]
    /\ Start(r, [pc |-> "updateMovement", on |-> m, status |-> "COMPLETED"])
    /\ UNCHANGED stores

BeginCancel(r, m) ==
    /\ Recorded(m)
    /\ "CANCELLED" \in Transitions[movement[m].status]
    /\ Start(r, [pc |-> "updateMovement", on |-> m, status |-> "CANCELLED"])
    /\ UNCHANGED stores

UpdateMovement(r) ==
    LET q == request[r] IN
    /\ At(r, "updateMovement")
    /\ movement' = [movement EXCEPT ![q.on].status = q.status]
    /\ Finish(r)
    /\ UNCHANGED <<warehouse, zone, good>>

Abort(r) == Stop(r) /\ UNCHANGED stores

Next ==
    \E r \in Requests :
        \/ \E w \in Warehouses :
            \/ CreateWarehouse(r, w) \/ BeginOnWarehouse(r, w)
            \/ \E z \in Zones : BeginOnZone(r, w, z)
            \/ \E z \in Zones \cup {None} : BeginCreateGood(r, w, z)
            \/ \E g \in Goods \cup {None} : BeginCreateMovement(r, w, g)
        \/ \E z \in Zones : InsertZone(r, z)
        \/ \E g \in Goods :
            \/ InsertGood(r, g) \/ BeginDeleteGood(r, g)
            \/ \E z \in Zones \cup {None} : BeginUpdateGood(r, g, z)
        \/ \E m \in Movements : InsertMovement(r, m) \/ BeginComplete(r, m) \/ BeginCancel(r, m)
        \/ UpdateWarehouse(r) \/ DeleteWarehouse(r)
        \/ FindZone(r) \/ UpdateZone(r) \/ DeleteZone(r)
        \/ UpdateGood(r) \/ DeleteGood(r) \/ UpdateMovement(r) \/ Abort(r)

Spec == Init /\ [][Next]_vars

(***************************************************************************)
(* Properties.                                                             *)
(***************************************************************************)

\* Nothing refers to a row that is not there: zones, goods and movements have
\* their warehouse, goods their zone and movements their goods, although the
\* handlers read before they write (deleteWarehouse, deleteZone,
\* deleteInventoryItem, and the foreign keys of the schema).
EverythingHasItsPlace ==
    /\ \A z \in Zones : Present(zone[z]) => OpenWarehouse(zone[z].in)
    /\ \A g \in Goods : InStore(g) => OpenWarehouse(good[g].in) /\ ZoneExists(good[g].zone)
    /\ \A m \in Movements : Recorded(m) => OpenWarehouse(movement[m].in) /\ GoodExists(movement[m].of)

\* No movement is ever completed: completeMovement asks for IN_PROCESS, and no
\* handler sets it (MOVEMENT_STATUS_TRANSITIONS).
NoMovementCompletes ==
    \A m \in Movements : Recorded(m) => movement[m].status \in {"PENDING", "CANCELLED"}
=============================================================================

------------------------------ MODULE Garage -------------------------------
(***************************************************************************)
(* The vehicles a driver registers, their pictures and the company's list  *)
(* of vehicle types (drivers/vehicle_services.py and the views and         *)
(* serializers in front of it).  Registration numbers are left out: a      *)
(* constraint of the database keeps them apart.                            *)
(*                                                                         *)
(* create, add_photo and remove_photo are transactions at READ COMMITTED:  *)
(* what they count and look up was committed by others, what they write    *)
(* shows at the end.                                                       *)
(***************************************************************************)
EXTENDS Naturals, Sequences, SequencesExt

CONSTANTS
  MaxRides,     \* bound: the Vehicle rows ever inserted
  Pictured,     \* bound: of these, the vehicles whose pictures are followed
  Pictures,     \* uploaded pictures
  Types,        \* vehicle types
  MaxVehicles,  \* DRIVER_MAX_VEHICLES
  MaxPhotos,    \* VEHICLE_MAX_PHOTOS
  Clerks,       \* processes that serve the requests
  Nothing       \* SQL NULL

VARIABLES
  type,      \* vehicle type -> its status, or that it is deleted
  kind,      \* vehicle -> Vehicle.vehicle_type, Nothing before the row is inserted
  retired,   \* the vehicles removed from the driver's list
  photos,    \* vehicle -> its VehiclePhoto rows, oldest first
  primary,   \* vehicle -> Vehicle.photo_url
  task,      \* clerk -> the request it serves
  orderly    \* requests do not overlap

vars == <<type, kind, retired, photos, primary, task, orderly>>

Rides == 1..MaxRides
TypeStatus == {"active", "inactive", "deleted"}

Free == [op |-> "idle"]

Init ==
  /\ type = [k \in Types |-> "active"]
  /\ kind = [r \in Rides |-> Nothing]
  /\ retired = {}
  /\ photos = [r \in Rides |-> <<>>]
  /\ primary = [r \in Rides |-> Nothing]
  /\ task = [w \in Clerks |-> Free]
  /\ orderly \in BOOLEAN

Owned == {r \in Rides : kind[r] # Nothing} \ retired
Fresh(pic) == \A r \in Rides : ~Contains(photos[r], pic)

\* The rows without one of them; the pictures of a vehicle differ.
Without(s, pic) == IF Contains(s, pic) THEN RemoveAt(s, CHOOSE i \in DOMAIN s : s[i] = pic) ELSE s

FirstOf(s) == IF s = <<>> THEN Nothing ELSE Head(s)

Start(w, r) ==
  /\ task[w] = Free
  /\ orderly => \A v \in Clerks : task[v] = Free
  /\ task' = [task EXCEPT ![w] = r]
Finish(w) == task' = [task EXCEPT ![w] = Free]

\* A later check refuses, or the process dies and its transaction with it.
GiveUp(w) ==
  /\ task[w] # Free
  /\ Finish(w)
  /\ UNCHANGED <<type, kind, retired, photos, primary, orderly>>

----------------------------------------------------------------------------
(* The driver's vehicles.                                                  *)

\* A type the form offers.
Offered(k) == type[k] = "active"

\* Slip: off by one.
RoomForOneMore(n, limit) == n <= limit
\* The limits of create and add_photo, each with what was counted.
Room(n, limit) == n < limit

\* The serializer's checks and the count of create.
CreateCheck(w, k) ==
  /\ Offered(k)
  /\ Room(Cardinality(Owned), MaxVehicles)
  /\ Start(w, [op |-> "create", kind |-> k])
  /\ UNCHANGED <<type, kind, retired, photos, primary, orderly>>

\* The insert, its pictures and the commit.
CreateCommit(w, r, shots) ==
  /\ task[w].op = "create"
  /\ r = Cardinality({v \in Rides : kind[v] # Nothing}) + 1
  /\ shots # <<>> => r \in Pictured /\ \A i \in DOMAIN shots : Fresh(shots[i])
  /\ kind' = [kind EXCEPT ![r] = task[w].kind]
  /\ photos' = [photos EXCEPT ![r] = shots]
  /\ primary' = [primary EXCEPT ![r] = FirstOf(shots)]
  /\ Finish(w)
  /\ UNCHANGED <<type, retired, orderly>>

\* PATCH of the type, by the driver or by the company.
UpdateCheck(w, r, k) ==
  /\ r \in Owned
  /\ Offered(k)
  /\ Start(w, [op |-> "update", ride |-> r, kind |-> k])
  /\ UNCHANGED <<type, kind, retired, photos, primary, orderly>>

UpdateWrite(w) ==
  /\ task[w].op = "update"
  /\ kind' = [kind EXCEPT ![task[w].ride] = task[w].kind]
  /\ Finish(w)
  /\ UNCHANGED <<type, retired, photos, primary, orderly>>

\* remove, which Fleet takes apart.
Retire(r) ==
  /\ r \in Owned
  /\ orderly => \A w \in Clerks : task[w] = Free
  /\ retired' = retired \union {r}
  /\ UNCHANGED <<type, kind, photos, primary, task, orderly>>

----------------------------------------------------------------------------
(* Their pictures.                                                         *)

\* add_photo up to _sync_primary, which looks for the first picture among the
\* committed ones and its own before it has the vehicle's row to itself.
AddPhotoCheck(w, r, pic) ==
  /\ r \in Owned \cap Pictured
  /\ Fresh(pic)
  /\ Room(Len(photos[r]), MaxPhotos)
  /\ Start(w, [op |-> "add", ride |-> r, pic |-> pic, first |-> FirstOf(Append(photos[r], pic))])
  /\ UNCHANGED <<type, kind, retired, photos, primary, orderly>>

\* Slip: _sync_primary is forgotten.
RemovePhotoCheckOnly(w, r, pic) ==
  /\ r \in Owned \cap Pictured
  /\ Contains(photos[r], pic)
  /\ Start(w, [op |-> "drop", ride |-> r, pic |-> pic, first |-> primary[r]])
  /\ UNCHANGED <<type, kind, retired, photos, primary, orderly>>

RemovePhotoCheck(w, r, pic) ==
  /\ r \in Owned \cap Pictured
  /\ Contains(photos[r], pic)
  /\ Start(w, [op |-> "drop", ride |-> r, pic |-> pic, first |-> FirstOf(Without(photos[r], pic))])
  /\ UNCHANGED <<type, kind, retired, photos, primary, orderly>>

PhotoCommit(w) ==
  LET t == task[w] IN
  /\ t.op \in {"add", "drop"}
  /\ t.op = "add" => Fresh(t.pic)
  /\ photos' = [photos EXCEPT ![t.ride] = IF t.op = "add" THEN Append(@, t.pic) ELSE Without(@, t.pic)]
  /\ primary' = [primary EXCEPT ![t.ride] = t.first]
  /\ Finish(w)
  /\ UNCHANGED <<type, kind, retired, orderly>>

----------------------------------------------------------------------------
(* The company's types.                                                    *)

\* The fares page and the API switch a type on and off.
SetTypeStatus(k) ==
  /\ type[k] \in {"active", "inactive"}
  /\ type' = [type EXCEPT ![k] = IF @ = "active" THEN "inactive" ELSE "active"]
  /\ UNCHANGED <<kind, retired, photos, primary, task, orderly>>

\* delete_vehicle_type: not while a vehicle is of the type.
DeleteTypeCheck(w, k) ==
  /\ type[k] # "deleted"
  /\ \A r \in Owned : kind[r] # k
  /\ Start(w, [op |-> "scrap", kind |-> k])
  /\ UNCHANGED <<type, kind, retired, photos, primary, orderly>>

DeleteType(w) ==
  /\ task[w].op = "scrap"
  /\ type' = [type EXCEPT ![task[w].kind] = "deleted"]
  /\ Finish(w)
  /\ UNCHANGED <<kind, retired, photos, primary, orderly>>

----------------------------------------------------------------------------
Clerk(w) ==
  \/ \E k \in Types : CreateCheck(w, k) \/ DeleteTypeCheck(w, k) \/ \E r \in Rides : UpdateCheck(w, r, k)
  \/ \E r \in Rides, shots \in {<<>>} \union {<<pic>> : pic \in Pictures} : CreateCommit(w, r, shots)
  \/ UpdateWrite(w)
  \/ \E r \in Pictured, pic \in Pictures : AddPhotoCheck(w, r, pic) \/ RemovePhotoCheck(w, r, pic)
  \/ PhotoCommit(w)
  \/ DeleteType(w)
  \/ GiveUp(w)

Next ==
  \/ \E w \in Clerks : Clerk(w)
  \/ \E r \in Rides : Retire(r)
  \/ \E k \in Types : SetTypeStatus(k)

Spec == Init /\ [][Next]_vars

----------------------------------------------------------------------------
(* Properties.                                                             *)

TypeOK ==
  /\ type \in [Types -> TypeStatus]
  /\ kind \in [Rides -> Types \union {Nothing}]
  /\ retired \subseteq Rides
  /\ photos \in [Rides -> Seq(Pictures)]
  /\ primary \in [Rides -> Pictures \union {Nothing}]

\* create and add_photo: requests that count at the same moment may overshoot a limit,
\* but by no more than one for every further process that serves them.
LimitsNearlyKept ==
  LET slack == IF orderly THEN 0 ELSE Cardinality(Clerks) - 1 IN
  /\ Cardinality(Owned) <= MaxVehicles + slack
  /\ \A r \in Rides : Len(photos[r]) <= MaxPhotos + slack

\* _sync_primary: while requests do not overlap, Vehicle.photo_url is the oldest picture
\* the vehicle still has.
PrimaryIsFirst == orderly => \A r \in Rides : primary[r] = FirstOf(photos[r])
=============================================================================

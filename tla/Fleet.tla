-------------------------------- MODULE Fleet --------------------------------
(***************************************************************************)
(* The fleet registry of one organization (application/fleet/service.py):  *)
(* vehicles, drivers, devices, cameras, fleets and driver assignments, and *)
(* the vehicle limit of its plan.  Every request is from a member with     *)
(* fleet.manage; the check of that is in Tenancy.                          *)
(*                                                                         *)
(* Nothing here locks a row.  Registry rows are never deleted and an       *)
(* external_id never changes, so a request that only looks up what it      *)
(* refers to and inserts or sets fields is one step; its uniqueness        *)
(* constraint makes it wait for, and fail by, an insert not yet committed. *)
(* Only create_vehicle, which counts, and end_assignment, which looks at   *)
(* ended_at, act on something that may have changed: they are two steps.   *)
(***************************************************************************)
EXTENDS Requests

CONSTANTS
  Vehicle, Driver, Device, Camera,  (* external_id of each. *)
  Group,    (* Names of fleets. *)
  None,
  Limits    (* vehicle_limit of the plans; -1 is no limit. *)

ASSUME FleetAssumption ==
  /\ None \notin Vehicle \cup Device \cup Group
  /\ IsFiniteSet(Vehicle)
  /\ Limits \subseteq Nat \cup {-1} /\ Limits # {}

VARIABLES
  vehicle, driver, fleet, device, camera,
  assignment,  (* Every driver assignment, in order. *)
  limit,       (* vehicle_limit of the plan. *)
  subscription,(* Its state: a trial, ended, or active. *)
  lowered      (* History: a plan with a smaller limit was chosen. *)

registryVars == <<vehicle, driver, fleet, device, camera, assignment>>
planVars == <<limit, subscription, lowered>>
fleetVars == <<registryVars, planVars>>

-----------------------------------------------------------------------------
(* Rows; a status of "none" is no row.                                      *)

VehicleRow == [status : {"none", "active", "inactive", "maintenance"},
               fleet : Group \cup {None}]

DriverRow == {"none", "active"}

DeviceRow == [status : {"none", "active", "inactive"},
              vehicle : Vehicle \cup {None}]

CameraRow == [status : {"none", "active", "inactive"},
              vehicle : Vehicle \cup {None}, device : Device \cup {None}]

(* "ended" is past_due, which a trial is from its end on.                   *)
SubscriptionState == {"trial", "ended", "active"}

(* ends counts the times ended_at was written: 0 is an open assignment.     *)
AssignmentRow == [driver : Driver, vehicle : Vehicle, ends : Nat]

FleetInit ==
  /\ vehicle = [v \in Vehicle |-> [status |-> "none", fleet |-> None]]
  /\ driver = [d \in Driver |-> "none"]
  /\ fleet = {}
  /\ device = [x \in Device |-> [status |-> "none", vehicle |-> None]]
  /\ camera = [c \in Camera |->
                 [status |-> "none", vehicle |-> None, device |-> None]]
  /\ assignment = <<>>
  /\ limit \in Limits
  /\ subscription = "trial"
  /\ lowered = FALSE

Registered == {v \in Vehicle : vehicle[v].status # "none"}

(* _require, of a reference that may be null.                               *)
Require(row, ref) == ref # None => row[ref].status # "none"

-----------------------------------------------------------------------------
(* Vehicles *)

(* With the limit compared before the vehicle to come.                      *)
EnforceVehicleLimitLate ==
  subscription # "ended" /\ (limit >= 0 => Cardinality(Registered) <= limit)

EnforceVehicleLimit ==
  subscription # "ended" /\ (limit >= 0 => Cardinality(Registered) < limit)

CreateVehicle(p, v, g) ==
  /\ EnforceVehicleLimit
  /\ g # None => g \in fleet
  /\ Begin(p, "registry", [op |-> "create_vehicle", vehicle |-> v, fleet |-> g])
  /\ UNCHANGED <<registryVars, planVars>>

(* The flush and the commit; the external_id is unique.                     *)
InsertVehicle(p) ==
  /\ call[p].op = "create_vehicle"
  /\ vehicle' = IF call[p].vehicle \in Registered THEN vehicle
                ELSE [vehicle EXCEPT ![call[p].vehicle] =
                        [status |-> "active", fleet |-> call[p].fleet]]
  /\ Return(p)
  /\ UNCHANGED <<driver, fleet, device, camera, assignment, planVars>>

(* The fleet is not looked up here: the foreign key wants it to exist.      *)
UpdateVehicle(v, row) ==
  /\ v \in Registered
  /\ row.status # "none" /\ (row.fleet # None => row.fleet \in fleet)
  /\ vehicle' = [vehicle EXCEPT ![v] = row]
  /\ AtOnce("registry")
  /\ UNCHANGED <<driver, fleet, device, camera, assignment, planVars>>

CreateFleet(g) ==
  /\ g \notin fleet
  /\ fleet' = fleet \cup {g}
  /\ AtOnce("registry")
  /\ UNCHANGED <<vehicle, driver, device, camera, assignment, planVars>>

-----------------------------------------------------------------------------
(* Drivers and their assignments *)

CreateDriver(d) ==
  /\ driver[d] = "none"
  /\ driver' = [driver EXCEPT ![d] = "active"]
  /\ AtOnce("registry")
  /\ UNCHANGED <<vehicle, fleet, device, camera, assignment, planVars>>

Open(v) == {i \in DOMAIN assignment :
              assignment[i].vehicle = v /\ assignment[i].ends = 0}

(* uq_driver_assignments_open_vehicle: one open assignment of a vehicle.    *)
AssignDriver(d, v) ==
  /\ driver[d] # "none" /\ v \in Registered
  /\ Open(v) = {}
  /\ assignment' = Append(assignment, [driver |-> d, vehicle |-> v, ends |-> 0])
  /\ AtOnce("registry")
  /\ UNCHANGED <<vehicle, driver, fleet, device, camera, planVars>>

CloseAssignment(p, i) ==
  /\ assignment[i].ends = 0
  /\ Begin(p, "registry", [op |-> "end_assignment", row |-> i])
  /\ UNCHANGED <<registryVars, planVars>>

(* Written by id, whatever has become of the row since it was read.         *)
EndAssignment(p) ==
  /\ call[p].op = "end_assignment"
  /\ assignment' = [assignment EXCEPT ![call[p].row].ends = @ + 1]
  /\ Return(p)
  /\ UNCHANGED <<vehicle, driver, fleet, device, camera, planVars>>

-----------------------------------------------------------------------------
(* Devices and cameras *)

CreateDevice(x, v) ==
  /\ Require(vehicle, v)
  /\ device[x].status = "none"
  /\ device' = [device EXCEPT ![x] = [status |-> "active", vehicle |-> v]]
  /\ AtOnce("registry")
  /\ UNCHANGED <<vehicle, driver, fleet, camera, assignment, planVars>>

UpdateDevice(x, row) ==
  /\ device[x].status # "none" /\ row.status # "none"
  /\ Require(vehicle, row.vehicle)
  /\ device' = [device EXCEPT ![x] = row]
  /\ AtOnce("registry")
  /\ UNCHANGED <<vehicle, driver, fleet, camera, assignment, planVars>>

CreateCamera(c, v, x) ==
  /\ Require(vehicle, v) /\ Require(device, x)
  /\ camera[c].status = "none"
  /\ camera' = [camera EXCEPT ![c] =
                  [status |-> "active", vehicle |-> v, device |-> x]]
  /\ AtOnce("registry")
  /\ UNCHANGED <<vehicle, driver, fleet, device, assignment, planVars>>

UpdateCamera(c, row) ==
  /\ camera[c].status # "none" /\ row.status # "none"
  /\ Require(vehicle, row.vehicle) /\ Require(device, row.device)
  /\ camera' = [camera EXCEPT ![c] = row]
  /\ AtOnce("registry")
  /\ UNCHANGED <<vehicle, driver, fleet, device, assignment, planVars>>

-----------------------------------------------------------------------------
(* The plan *)

(* change_plan also makes the subscription active.                          *)
ChangePlan(n) ==
  /\ limit' = n
  /\ subscription' = "active"
  /\ lowered' = (lowered \/ (n >= 0 /\ (limit < 0 \/ n < limit)))
  /\ AtOnce("plan")
  /\ UNCHANGED <<registryVars>>

(* The trial ends: effective_status is past_due from then on.               *)
TrialEnds ==
  /\ subscription = "trial"
  /\ subscription' = "ended"
  /\ AtOnce("plan")
  /\ UNCHANGED <<registryVars, limit, lowered>>

FleetStep ==
  \/ \E p \in Process, v \in Vehicle, g \in Group \cup {None} : CreateVehicle(p, v, g)
  \/ \E p \in Process : InsertVehicle(p) \/ EndAssignment(p)
  \/ \E v \in Vehicle, row \in VehicleRow : UpdateVehicle(v, row)
  \/ \E g \in Group : CreateFleet(g)
  \/ \E d \in Driver : CreateDriver(d)
  \/ \E d \in Driver, v \in Vehicle : AssignDriver(d, v)
  \/ \E p \in Process, i \in DOMAIN assignment : CloseAssignment(p, i)
  \/ \E x \in Device, v \in Vehicle \cup {None} : CreateDevice(x, v)
  \/ \E x \in Device, row \in DeviceRow : UpdateDevice(x, row)
  \/ \E c \in Camera, v \in Vehicle \cup {None}, x \in Device \cup {None} :
       CreateCamera(c, v, x)
  \/ \E c \in Camera, row \in CameraRow : UpdateCamera(c, row)
  \/ \E n \in Limits : ChangePlan(n)
  \/ TrialEnds

-----------------------------------------------------------------------------
FleetTypeOK ==
  /\ vehicle \in [Vehicle -> VehicleRow]
  /\ driver \in [Driver -> DriverRow]
  /\ fleet \subseteq Group
  /\ device \in [Device -> DeviceRow]
  /\ camera \in [Camera -> CameraRow]
  /\ assignment \in Seq(AssignmentRow)
  /\ limit \in Limits /\ subscription \in SubscriptionState /\ lowered \in BOOLEAN

Creating == {p \in Process : call[p].op = "create_vehicle"}

(* The vehicles are counted and one more is inserted without a lock on      *)
(* anything (saas/service.py:131): requests that overlap can exceed the     *)
(* plan, but by no more than the requests that run at one time less one,    *)
(* however many follow; the excess does not grow with use.  A plan changed  *)
(* for a smaller one leaves what is there.                                  *)
OverrunBounded ==
  limit >= 0 /\ ~lowered =>
    Cardinality(Registered) + Cardinality(Creating)
      < limit + Cardinality(Process)
=============================================================================

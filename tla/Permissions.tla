----------------------------- MODULE Permissions -----------------------------
(* The permission catalog and the roles of an organization                   *)
(* (domain/permissions.py): who may call what.  No state.                    *)

Permission == {
  "org.read", "org.update", "org.members.read", "org.members.manage",
  "org.invitations.manage", "org.retention.manage", "fleet.read",
  "fleet.manage", "trips.read", "telemetry.read", "events.read",
  "events.review", "events.evidence.read", "events.evidence.raw_media",
  "risks.read", "risks.manage", "geofences.manage", "coaching.read",
  "coaching.manage", "analytics.read", "reports.read", "reports.manage",
  "notifications.manage", "integrations.read", "integrations.manage",
  "subscription.read", "subscription.manage", "audit.read"}

Role == {
  "owner", "admin", "safety_manager", "fleet_manager", "event_reviewer",
  "coach", "analyst", "auditor", "integration_manager", "driver"}

ReadOnlyAudit == {
  "org.read", "org.members.read", "fleet.read", "trips.read", "events.read",
  "risks.read", "coaching.read", "analytics.read", "reports.read",
  "subscription.read", "audit.read"}

(* Everyone who sees the fleet and its events, beside the drivers.           *)
Viewer == {"org.read", "fleet.read"}

RolePermissions == [
  owner |-> Permission,
  admin |-> Permission \ {"subscription.manage"},
  safety_manager |-> Permission \ {
    "org.update", "org.members.manage", "org.invitations.manage",
    "org.retention.manage", "fleet.manage", "integrations.read",
    "integrations.manage", "subscription.read", "subscription.manage",
    "audit.read"},
  fleet_manager |-> Viewer \cup {
    "org.members.read", "fleet.manage", "trips.read", "telemetry.read",
    "events.read", "risks.read", "analytics.read", "reports.read"},
  event_reviewer |-> Viewer \cup {
    "trips.read", "events.read", "events.review", "events.evidence.read",
    "risks.read"},
  coach |-> Viewer \cup {
    "events.read", "events.evidence.read", "coaching.read",
    "coaching.manage", "analytics.read"},
  analyst |-> Viewer \cup {
    "trips.read", "events.read", "risks.read", "analytics.read",
    "reports.read", "reports.manage"},
  auditor |-> ReadOnlyAudit,
  integration_manager |-> Viewer \cup {
    "integrations.read", "integrations.manage", "notifications.manage"},
  driver |-> {"coaching.read"}]

RoleHas(role, permission) == permission \in RolePermissions[role]
==============================================================================

------------------------------- MODULE Access -------------------------------
(***************************************************************************)
(* Who may do what, as the client has it (lib/status.ts, app/AppShell.tsx, *)
(* the pages under features/) and as the server has it (the guards of the  *)
(* routers under server/routes).  The two tables are written by hand on    *)
(* either side; module Workspace plays one against the other.              *)
(***************************************************************************)
Roles == {"owner", "membership_officer", "birthday_coordinator", "auditor"}
Officers == {"owner", "membership_officer"}
Alerted == Roles \ {"auditor"}

-----------------------------------------------------------------------------
(* The client *)

\* capabilitiesFor: the roles that have each capability.
Holders ==
  [canManageMembers |-> Officers, canImportMembers |-> Officers, canSeeBirthdays |-> Alerted,
   canRunNow |-> {"owner"}, canManageStaff |-> {"owner"}, canSeeAudit |-> {"owner", "auditor"}]

\* A page for a role: whether it is shown at all (or "Not available for your
\* role"), what its useAsync loads, what Refresh and "try again" load anew, and
\* the buttons that send something; failed says that the load has failed.
\* The dashboard is all error panel then, the other pages keep their header.
RunNow(role) == IF role \in Holders.canRunNow THEN {"run"} ELSE {}
Only(holders, role, things) == IF role \in holders THEN things ELSE {}

DashboardPage(role, failed) ==
  [may |-> TRUE, loads |-> {"dashboard"}, again |-> {"dashboard"},
   buttons |-> IF failed THEN {} ELSE RunNow(role)]

\* enabled: the only load, with that of the staff page, that waits for the role.
BirthdaysPage(role, failed) ==
  [may |-> role \in Holders.canSeeBirthdays, loads |-> Only(Holders.canSeeBirthdays, role, {"upcoming"}),
   again |-> {"upcoming"}, buttons |-> {}]

NotificationsPage(role, failed) ==
  [may |-> TRUE, loads |-> {"notifications"}, again |-> {"notifications"},
   buttons |-> {"test"} \cup RunNow(role)]

EndpointsPage(role, failed) ==
  [may |-> role # "auditor", loads |-> {"settings"}, again |-> {"settings"}, buttons |-> {"endpoint", "resend"}]

\* Edit and archive are in the rows of the table (Workspace!Press).
MembersPage(role, failed) ==
  [may |-> role \in Holders.canManageMembers, loads |-> {"members"}, again |-> {"members"},
   buttons |-> {"member", "archive"}]

ImportsPage(role, failed) ==
  [may |-> role \in Holders.canImportMembers, loads |-> {}, again |-> {}, buttons |-> {"import"}]

AuditPage(role, failed) ==
  [may |-> role \in Holders.canSeeAudit, loads |-> {"audit"}, again |-> {"audit"}, buttons |-> {}]

StaffPage(role, failed) ==
  [may |-> role \in Holders.canManageStaff, loads |-> Only(Holders.canManageStaff, role, {"access"}),
   again |-> {"access"}, buttons |-> {"staff"}]

\* No Refresh here, and canManage of the rule's form is the server's own answer.
SettingsPage(role, failed) ==
  [may |-> TRUE, loads |-> {"settings", "mfaStatus"}, again |-> IF failed THEN {"settings"} ELSE {},
   buttons |-> {"security"} \cup Only({"owner"}, role, {"rule"})]

\* renderRoute.
Route(page, role, failed) ==
  CASE page = "dashboard" -> DashboardPage(role, failed)
    [] page = "birthdays" -> BirthdaysPage(role, failed)
    [] page = "notifications" -> NotificationsPage(role, failed)
    [] page = "endpoints" -> EndpointsPage(role, failed)
    [] page = "members" -> MembersPage(role, failed)
    [] page = "imports" -> ImportsPage(role, failed)
    [] page = "audit" -> AuditPage(role, failed)
    [] page = "staff" -> StaffPage(role, failed)
    [] page = "settings" -> SettingsPage(role, failed)
Pages == {"dashboard", "birthdays", "notifications", "endpoints", "members", "imports", "audit",
          "staff", "settings"}

\* A slip for the mutation runs: the audit item without its "visible".
NavWithAudit(role) ==
  {"dashboard", "notifications", "settings", "audit"}
    \cup Only(Holders.canSeeBirthdays, role, {"birthdays"}) \cup (IF role # "auditor" THEN {"endpoints"} ELSE {})
    \cup Only(Holders.canManageMembers, role, {"members", "imports"})
    \cup Only(Holders.canManageStaff, role, {"staff"})

\* items of AppShell, those visible to the role.
Nav(role) ==
  {"dashboard", "notifications", "settings"}
    \cup Only(Holders.canSeeBirthdays, role, {"birthdays"}) \cup (IF role # "auditor" THEN {"endpoints"} ELSE {})
    \cup Only(Holders.canManageMembers, role, {"members"}) \cup Only(Holders.canImportMembers, role, {"imports"})
    \cup Only(Holders.canSeeAudit, role, {"audit"}) \cup Only(Holders.canManageStaff, role, {"staff"})

\* The badge of the navigation.
ShellLoads(role) == Only(Holders.canSeeBirthdays, role, {"today"})

Loads == {"dashboard", "upcoming", "today", "notifications", "settings", "members", "audit",
          "access", "mfaStatus"}

\* A slip: both forms of the settings page refresh the first of its resources.
ReloadsFirst(page, button) ==
  CASE button \in {"run", "test"} -> {page}
    [] button \in {"endpoint", "rule", "security"} -> {"settings"}
    [] button \in {"member", "archive"} -> {"members"}
    [] button = "staff" -> {"access"}
    [] OTHER -> {}

\* What is loaded anew after a button's request has succeeded; "endpoint" is
\* create, confirm and toggle.
Reloads(page, button) ==
  CASE button \in {"run", "test"} -> {page}
    [] button \in {"endpoint", "rule"} -> {"settings"}
    [] button \in {"member", "archive"} -> {"members"}
    [] button = "staff" -> {"access"}
    [] button = "security" -> {"mfaStatus"}
    [] OTHER -> {}

-----------------------------------------------------------------------------
(* The server: requireAuth, or requireRoles with these roles, before each    *)
(* handler.                                                                  *)

DashboardRouter == [dashboard |-> Roles]
BirthdaysRouter == [today |-> Alerted, upcoming |-> Alerted]
NotificationsRouter == [notifications |-> Roles, test |-> Alerted, run |-> {"owner"}]
EndpointsRouter == [endpoint |-> Alerted, resend |-> Alerted]
MembersRouter == [members |-> Officers, member |-> Officers, archive |-> Officers]
ImportsRouter == [import |-> Officers]
AuditRouter == [audit |-> {"owner", "auditor"}]
StaffRouter == [access |-> {"owner"}, staff |-> {"owner"}]
SettingsRouter == [settings |-> Roles, rule |-> {"owner"}]
AuthRouter == [mfaStatus |-> Roles, security |-> Roles]

\* Where they are mounted.  A request is one router's.
Routers ==
  {DashboardRouter, BirthdaysRouter, NotificationsRouter, EndpointsRouter, MembersRouter, ImportsRouter,
   AuditRouter, StaffRouter, SettingsRouter, AuthRouter}
Requests == UNION {DOMAIN router : router \in Routers}
Allowed(request, role) == \E router \in Routers : request \in DOMAIN router /\ role \in router[request]

\* The loads whose queries read a table that the handler of a request writes,
\* by the services and not by the pages; every one of them is audited.
Shows(request) ==
  CASE request \in {"run", "test"} -> {"notifications", "dashboard", "audit"}
    [] request = "endpoint" -> {"settings", "audit"}
    [] request = "resend" -> {"audit"}
    [] request = "rule" -> {"settings", "dashboard", "audit"}
    [] request \in {"member", "archive", "import"} -> {"members", "dashboard", "upcoming", "today", "audit"}
    [] request = "staff" -> {"access", "audit"}
    [] request = "security" -> {"mfaStatus", "access", "audit"}
    [] OTHER -> {}
=============================================================================

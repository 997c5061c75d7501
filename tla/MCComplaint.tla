----------------------------- MODULE MCComplaint -----------------------------
(* Instances of Complaint for TLC.                                         *)
EXTENDS Complaint, TLC

CONSTANTS o1, o2, p3

(* The third property belongs to the second owner.                         *)
MCOwnerOf == [p \in Properties |-> IF p = p3 THEN o2 ELSE o1]

(* One body grants tenants and complaints, one every module but complaints  *)
(* only to view; both state the permissions of a module rows do not know.  *)
ViewOnly == [keys |-> {"view", "handle"}, true |-> {"view"}]
States(ms) == [stated |-> ms, json |-> [m \in Modules |-> IF m \in ms THEN ViewOnly ELSE Empty]]
MCDtos ==
    {[flags |-> {"complaints", "tenants"}, granular |-> States({"manageStaff"})],
     [flags |-> Modules, granular |-> States({"manageStaff", "complaints"})]}

(* Staff is managed, with permissions of rows or of profiles; complaints    *)
(* are raised and assigned while staff come and go; complaints are edited   *)
(* and handled.                                                            *)
MCWorkloads ==
    {{"createMaintenanceStaff", "editStaffAccess", "deleteStaff", "updateRowPermissions"},
     {"createMaintenanceStaff", "editStaffAccess", "deleteStaff", "updateProfilePermissions"},
     {"createMaintenanceStaff", "deleteStaff", "createComplaintByOwner",
      "assignMaintenanceStaff"},
     {"createComplaintByOwner", "createComplaintByTenant", "assignMaintenanceStaff",
      "changeStatus", "editComplaintByTenant", "addComplaintPhotos", "insertPhotos"}}

Symmetry == Permutations(Members) \cup Permutations(Rows) \cup Permutations(Complaints)
            \cup Permutations(Slots) \cup Permutations(Properties \ {p3})
==============================================================================

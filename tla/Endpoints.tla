------------------------------ MODULE Endpoints ------------------------------
(***************************************************************************)
(* Which requests a staff member may send: the controllers. Every request  *)
(* of an owner that is open to MAINTENANCE_STAFF passes the checks of its  *)
(* handler first and then runs for the owner of the member. There is one   *)
(* operator per handler. u is the member and p the property the request is *)
(* about: the one it names, or the one of the room, tenancy, due or other  *)
(* row it names; q is the property of a second row, v another member.      *)
(***************************************************************************)
EXTENDS Staff

(* tenancy.controller.ts                                                   *)
MayOnBoardTenancy(u, p, q) ==
    TenantsModuleAccess(u, p, "add") /\ RoomBelongsToProperty(u, q, p)
MayShiftTenantRoom(u, p, q) == RoomShiftAccess(u, p, q)
MayUpdateTenancyDetails(u, p) == TenancyModuleAccess(u, p, "edit")
MayPutOnNoticePeriod(u, p) == TenancyModuleAccess(u, p, "edit")
MayCancelNoticePeriod(u, p) == TenancyModuleAccess(u, p, "edit")
MayGetMoveOutRequests(u, p) == TenantsModuleAccess(u, p, "view")
MayGetMoveOutRequestDetails(u, p) == MoveOutRequestAccess(u, p, "view")
MayApproveMoveOutRequest(u, p) == MoveOutRequestAccess(u, p, "edit")
MayRejectMoveOutRequest(u, p) == MoveOutRequestAccess(u, p, "edit")
MayGetRoomShiftRequests(u, p) == TenantsModuleAccess(u, p, "view")
MayGetRoomShiftRequestDetails(u, p) == RoomShiftRequestAccess(u, p, "view")
MayApproveRoomShiftRequest(u, p) == RoomShiftRequestAccess(u, p, "edit")
MayRejectRoomShiftRequest(u, p) == RoomShiftRequestAccess(u, p, "edit")
MayConfirmMoveIn(u, p) == TenancyModuleAccess(u, p, "add")
MayGetMoveInHistory(u, p) == TenantsModuleAccess(u, p, "view")
MayGetMoveOutHistory(u, p) == TenantsModuleAccess(u, p, "view")
MayFetchRecentlyDeletedTenants(u, p) == TenantsModuleAccess(u, p, "view")
MayReactivateTenancy(u, p) == TenantsModuleAccess(u, p, "edit")

(* tenent.controller.ts and tenantkyc.controller.ts. A tenant belongs to   *)
(* the property of its latest tenancy.                                     *)
MayGetTenantsInRoom(u, p) == TenantsModuleAccessForRoom(u, p, "view")
MayGetTenantsByProperty(u, p) == PropertyTenantListForFinanceAccess(u, p)
MayGetTenantStats(u, p) == TenantsModuleAccess(u, p, "view")
MaySearchTenants(u, p) == TenantsModuleAccess(u, p, "view")
MayGetTenantById(u, p) == TenantUserModuleAccess(u, p, "view")
MayUpdateTenant(u, p) == TenantUserModuleAccess(u, p, "edit")
MayDeleteTenant(u, p) == TenantsModuleAccess(u, p, "delete")
MayRevokeTenancyExit(u, p) == TenancyModuleAccess(u, p, "edit")
MayMoveTenantOut(u, p) == TenancyModuleAccess(u, p, "edit")
MayUploadKycDocuments(u, p) == TenantUserModuleAccess(u, p, "edit")
MayFetchKycDetailsOfTenant(u, p) == TenantUserModuleAccess(u, p, "view")

(* due.controller.ts, billing.controller.ts, payment.controller.ts.        *)
MayAddDueToTenant(u, p) == FinanceModuleAccess(u, p, "editDues")
MayAddDueToRoom(u, p, q) ==
    FinanceModuleAccess(u, p, "editDues") /\ RoomBelongsToProperty(u, q, p)
MayFetchTenantDuesByTenancyId(u, p) == TenantFinanceViewAccess(u, p)
MayGetAllTenantDues(u, p) == TenantFinanceViewAccess(u, p)
MayGetUnpaidDuesByProperty(u, p) == PropertyUnpaidDuesAccess(u, p)
MayGetUnpaidDuesByTenant(u, p) == TenantFinanceViewAccess(u, p)
MayGetDuesByTenantAndProperty(u, p) == TenantDuesReadAccess(u, p)
MayCollectDue(u, p) == DueFinanceAccess(u, p, "collectPayments")
MayGetPropertyCollections(u, p) == FinanceModuleAccess(u, p, "viewDues")
MaySendBulkReminder(u, p) == FinanceModuleAccess(u, p, "viewDues")
MayGetDueById(u, p) == DueFinanceAccess(u, p, "viewDues")
MayAddDue(u, p) == FinanceModuleAccess(u, p, "editDues")
MayDeleteDue(u, p) == DueDeleteAccess(u, p)
MayEditDue(u, p) == DueFinanceAccess(u, p, "editDues")
MayGetPaymentHistory(u, p) == RentBookAccess(u, p)

(* Expenses, metrics, settlement and electricity controllers.              *)
MayCreateExpense(u, p) == FinanceModuleAccess(u, p, "addExpenses")
MayFetchExpensesByPropertyId(u, p) == FinanceModuleAccess(u, p, "viewExpenses")
MayUpdateExpense(u, p) == ExpenseAccess(u, p)
MayDeleteExpense(u, p) == ExpenseDeleteAccess(u, p)
MayGetPropertyMetrics(u, p) == FinanceModuleAccess(u, p, "viewDues")
MayFetchPropertyMonthlyMatrics(u, p) == FinanceModuleAccess(u, p, "viewDues")
MayGetSettlementData(u, p) == FinanceModuleAccess(u, p, "viewDues")
ResolveOwnerContext(u, p) == FinanceModuleAccess(u, p, "editDues")
MayGetRoomsWithMeter(u, p) == ResolveOwnerContext(u, p)
MayGetMeterReadingsForMonth(u, p) == ResolveOwnerContext(u, p)
MayGetMeterReadingStatus(u, p) == ResolveOwnerContext(u, p)
MaySubmitAllReadings(u, p) == ResolveOwnerContext(u, p)

(* property.controller.ts and room.controller.ts.                          *)
MayFetchAllPropertyOfOwner(u) == ManageStaffModuleAccess(u, "edit")
MayCreateRoom(u, p) == RoomsModuleAccess(u, p, "edit")
MayFetchAllRoomsOfProperty(u, p) == RoomListAccessForPicker(u, p)
MayEditRoom(u, p) == RoomInventoryAccess(u, p, "edit")
MayDeleteRoom(u, p) == RoomInventoryAccess(u, p, "delete")
MayDeleteRoomImage(u, p) == RoomInventoryAccess(u, p, "delete")
MayGetRoomById(u, p) == RoomInventoryAccess(u, p, "view")
MayGetAlltenantsOfRoom(u, p) == RoomInventoryAccess(u, p, "view")

(* complaint.controller.ts.                                                *)
MayCreateComplaint(u, p) == ComplaintsModuleAccess(u, p, "add")
MayGetComplaintSummary(u, p) == ComplaintsModuleAccess(u, p, "view")
MayGetComplaintById(u, p) == ComplaintModuleAccess(u, p, "view")
MayGetAllComplaints(u, p) == ComplaintsModuleAccess(u, p, "view")
MayChangeStatus(u, p) == ComplaintModuleAccess(u, p, "handle")
MayAddLogs(u, p) == ComplaintModuleAccess(u, p, "handle")
MayAddComplaintPhotos(u, p) == ComplaintModuleAccess(u, p, "handle")

(* staff.controller.ts: v is the member the request is about.              *)
MayAddMaintenanceStaff(u) == ManageStaffModuleAccess(u, "add")
MayGetStaffDetails(u, v) == ManageStaffProfileAccess(u, v, "view")
MayGetAllMaintenanceStaff(u) == ManageStaffModuleAccess(u, "view")
MayFetchAllStaffsForProperty(u, p) ==
    ComplaintsModuleAccess(u, p, "add") \/ ComplaintsModuleAccess(u, p, "handle")
MayEditPropertyPermission(u, v) == ManageStaffProfileAccess(u, v, "edit")
MayEditEmpProfile(u, v) == ManageStaffProfileAccess(u, v, "edit")
MayGetStaffExpenses(u, v) == ManageStaffUserAccess(u, v, "view")
MayGetStaffCollections(u, v) == ManageStaffUserAccess(u, v, "view")
MayGetPropertyStaffCollections(u, p) == ManageStaffPropertyAccess(u, p, "view")
MayDeleteStaff(u, v) == ManageStaffDeleteAccess(u, v)
MayUpdateStaffAppPermissions(u, v) == ManageStaffProfileAccess(u, v, "edit")

(* Owner settings: propertyowner, banks and property-settings controllers. *)
MayAddBusinessDetails(u, p) == OwnerSettingsPropertyAccess(u, p, "editBusiness")
MayFetchBuinessDetails(u, p) == OwnerSettingsPropertyAccess(u, p, "viewBusiness")
MayFetchProfile(u) == OwnerSettingsModuleAccess(u, "viewProfile")
MayUpdateProfile(u) == OwnerSettingsModuleAccess(u, "editProfile")
MayAddAccountDetails(u) == OwnerSettingsModuleAccess(u, "editBank")
MayAddUpIAccount(u) == OwnerSettingsModuleAccess(u, "editBank")
MayEditBankAccount(u) == OwnerSettingsModuleAccess(u, "editBank")
MayFetchAllBankAccounts(u) == OwnerSettingsModuleAccess(u, "viewBank")
MayFetchAllLinkedBankAccounts(u) == OwnerSettingsModuleAccess(u, "viewBank")
MayFetchBankAccountDetailsByID(u) == OwnerSettingsModuleAccess(u, "viewBank")
MayLinkBankAccountToProperty(u, p) == OwnerSettingsPropertyAccess(u, p, "editBank")
MayGetLateFineConfig(u, p) == OwnerSettingsPropertyAccess(u, p, "propertySettings")
MayUpsertLateFineConfig(u, p) == OwnerSettingsPropertyAccess(u, p, "propertySettings")

-----------------------------------------------------------------------------
(* The requests about property p that u may send, per part of the app.     *)
TenancyRequests(u, p) ==
    \/ \E q \in Properties : \/ MayOnBoardTenancy(u, p, q) \/ MayOnBoardTenancy(u, q, p)
                             \/ MayShiftTenantRoom(u, p, q) \/ MayShiftTenantRoom(u, q, p)
    \/ MayUpdateTenancyDetails(u, p) \/ MayPutOnNoticePeriod(u, p) \/ MayCancelNoticePeriod(u, p)
    \/ MayGetMoveOutRequests(u, p) \/ MayGetMoveOutRequestDetails(u, p)
    \/ MayApproveMoveOutRequest(u, p) \/ MayRejectMoveOutRequest(u, p)
    \/ MayGetRoomShiftRequests(u, p) \/ MayGetRoomShiftRequestDetails(u, p)
    \/ MayApproveRoomShiftRequest(u, p) \/ MayRejectRoomShiftRequest(u, p)
    \/ MayConfirmMoveIn(u, p) \/ MayGetMoveInHistory(u, p) \/ MayGetMoveOutHistory(u, p)
    \/ MayFetchRecentlyDeletedTenants(u, p) \/ MayReactivateTenancy(u, p)
TenantRequests(u, p) ==
    \/ MayGetTenantsInRoom(u, p) \/ MayGetTenantsByProperty(u, p) \/ MayGetTenantStats(u, p)
    \/ MaySearchTenants(u, p) \/ MayGetTenantById(u, p) \/ MayUpdateTenant(u, p)
    \/ MayDeleteTenant(u, p) \/ MayRevokeTenancyExit(u, p) \/ MayMoveTenantOut(u, p)
    \/ MayUploadKycDocuments(u, p) \/ MayFetchKycDetailsOfTenant(u, p)
MoneyRequests(u, p) ==
    \/ MayAddDueToTenant(u, p)
    \/ \E q \in Properties : MayAddDueToRoom(u, p, q) \/ MayAddDueToRoom(u, q, p)
    \/ MayFetchTenantDuesByTenancyId(u, p) \/ MayGetAllTenantDues(u, p)
    \/ MayGetUnpaidDuesByProperty(u, p) \/ MayGetUnpaidDuesByTenant(u, p)
    \/ MayGetDuesByTenantAndProperty(u, p) \/ MayCollectDue(u, p)
    \/ MayGetPropertyCollections(u, p) \/ MaySendBulkReminder(u, p) \/ MayGetDueById(u, p)
    \/ MayAddDue(u, p) \/ MayDeleteDue(u, p) \/ MayEditDue(u, p) \/ MayGetPaymentHistory(u, p)
    \/ MayCreateExpense(u, p) \/ MayFetchExpensesByPropertyId(u, p)
    \/ MayUpdateExpense(u, p) \/ MayDeleteExpense(u, p)
    \/ MayGetPropertyMetrics(u, p) \/ MayFetchPropertyMonthlyMatrics(u, p)
    \/ MayGetSettlementData(u, p) \/ MayGetRoomsWithMeter(u, p)
    \/ MayGetMeterReadingsForMonth(u, p) \/ MayGetMeterReadingStatus(u, p)
    \/ MaySubmitAllReadings(u, p)
RoomRequests(u, p) ==
    \/ MayCreateRoom(u, p) \/ MayFetchAllRoomsOfProperty(u, p) \/ MayEditRoom(u, p)
    \/ MayDeleteRoom(u, p) \/ MayDeleteRoomImage(u, p) \/ MayGetRoomById(u, p)
    \/ MayGetAlltenantsOfRoom(u, p)
ComplaintRequests(u, p) ==
    \/ MayCreateComplaint(u, p) \/ MayGetComplaintSummary(u, p) \/ MayGetComplaintById(u, p)
    \/ MayGetAllComplaints(u, p) \/ MayChangeStatus(u, p) \/ MayAddLogs(u, p)
    \/ MayAddComplaintPhotos(u, p) \/ MayFetchAllStaffsForProperty(u, p)
SettingsRequests(u, p) ==
    \/ MayGetPropertyStaffCollections(u, p)
    \/ MayAddBusinessDetails(u, p) \/ MayFetchBuinessDetails(u, p)
    \/ MayLinkBankAccountToProperty(u, p)
    \/ MayGetLateFineConfig(u, p) \/ MayUpsertLateFineConfig(u, p)

SomeRequest(u, p) ==
    \/ TenancyRequests(u, p) \/ TenantRequests(u, p) \/ MoneyRequests(u, p)
    \/ RoomRequests(u, p) \/ ComplaintRequests(u, p) \/ SettingsRequests(u, p)
==============================================================================

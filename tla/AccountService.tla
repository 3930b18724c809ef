---------------------------- MODULE AccountService ----------------------------
(***************************************************************************)
(* auth and franchise-store: stores, the accounts of their staff from the  *)
(* manager's request to the approval, accounts of other roles, sessions    *)
(* (refresh tokens) and the one-time codes that reset a password.          *)
(*                                                                         *)
(* No endpoint but the two that write several rows opens a transaction, so *)
(* the statements of overlapping requests interleave.  A password is known *)
(* to its owner, the default one of new staff, or a random one nobody has. *)
(***************************************************************************)
EXTENDS Requests, Sequences

CONSTANTS
  Users,           \* identifiers of the accounts
  Stores,
  BaseOf,          \* local part the name of a user yields: buildStaffEmailLocalBase
  MaxSuffix,       \* last suffix tried for an address (100 in the code)
  AddressChoices,  \* addresses an administrator may type in
  StatusChoices, RoleChoices, \* what an administrator may set by hand
  SessionLife, CodeLife,
  LastInstant,     \* bound: the clock stops here
  MaxSessions,     \* bound: number of refresh tokens ever issued
  MaxCodes         \* bound: number of one-time codes ever sent

UserStatus == {"active", "banned", "pending", "rejected", "inactive"}
Roles == {"admin", "manager", "supply_coordinator", "central_kitchen_staff",
          "franchise_store_staff"}
Staff == "franchise_store_staff"

VARIABLES
  instant,   \* the clock
  store,     \* stores: identifier -> is_active
  storeroom, \* the stores that have their default warehouse
  account,   \* users: identifier -> row
  session,   \* refresh_tokens: number of the token -> user and expiry
  issued,    \* number of tokens issued so far
  code       \* otp_codes: a sequence of rows, deleted ones marked

(* Rows of users, refresh_tokens and otp_codes; suffix 0 is a placeholder.  *)
Address == [local : Users \cup {BaseOf[u] : u \in Users}, suffix : 0..MaxSuffix]
UserRow == [role : Roles, status : UserStatus, email : Address,
            password : {"unknown", "default", "chosen"}, store : SUBSET Stores]
SessionRow == [user : Users, expiresAt : 1..LastInstant + SessionLife]
CodeRow == [user : SUBSET Users, expiresAt : 1..LastInstant + CodeLife,
            isUsed : BOOLEAN]

ASSUME AccountAssumption ==
  /\ StatusChoices \subseteq UserStatus /\ RoleChoices \subseteq Roles
  /\ MaxSuffix \in Nat \ {0} /\ LastInstant \in Nat
  /\ SessionLife \in Nat \ {0} /\ CodeLife \in Nat \ {0}
  /\ MaxSessions \in Nat /\ MaxCodes \in Nat
  /\ \A a \in AddressChoices : a \in Address /\ a.suffix # 0   \* no placeholder is typed in

accountVars == <<instant, store, storeroom, account, session, issued, code>>

Placeholder(u) == [local |-> u, suffix |-> 0]        \* pending.<uuid>@...
formatStaffEmail(b, n) == [local |-> b, suffix |-> n]

Exists(u) == u \in DOMAIN account
Taken(email, except) ==
  \E u \in DOMAIN account : u # except /\ account[u].email = email

AccountInit ==
  /\ instant = 0
  /\ store = [s \in {} |-> s]
  /\ storeroom = {}
  /\ account = [u \in {} |-> u]
  /\ session = [t \in {} |-> t]
  /\ issued = 0
  /\ code = << >>

-----------------------------------------------------------------------------
(* Stores.                                                                  *)

(* A store and its default warehouse, in one transaction. *)
createStore(s) ==
  /\ Immediate("store")
  /\ s \notin DOMAIN store
  /\ store' = [k \in DOMAIN store \cup {s} |-> IF k = s THEN TRUE ELSE store[k]]
  /\ storeroom' = storeroom \cup {s}
  /\ UNCHANGED <<instant, account, session, issued, code>>

ArriveUpdateStore(c, s) ==
  /\ s \in DOMAIN store /\ store[s]
  /\ \E active \in BOOLEAN :
       Becomes(c, [kind |-> "updateStore", step |-> "update", store |-> s,
                   active |-> active])
  /\ UNCHANGED accountVars

(* UPDATE ... WHERE id: a store that was closed meanwhile may open again. *)
updateStore(c) ==
  /\ At(c, "updateStore", "update")
  /\ store' = [store EXCEPT ![req[c].store] = req[c].active]
  /\ Done(c)
  /\ UNCHANGED <<instant, storeroom, account, session, issued, code>>

removeStore(s) ==
  /\ Immediate("closeStore")
  /\ s \in DOMAIN store
  /\ store' = [store EXCEPT ![s] = FALSE]
  /\ UNCHANGED <<instant, storeroom, account, session, issued, code>>

-----------------------------------------------------------------------------
(* Accounts.                                                                *)

Insert(u, row) ==
  account' = [k \in DOMAIN account \cup {u} |-> IF k = u THEN row ELSE account[k]]

(* users.email is UNIQUE: an INSERT or UPDATE that would repeat one fails. *)
Unique(u, email) == ~Taken(email, u)

(* createStaffRequestsBatch: the stores are checked first, the requests     *)
(* are inserted in a transaction afterwards.                               *)
ArriveStaffRequest(c, S, s) ==
  /\ MayCall(c, "staff")
  /\ S # {}
  /\ \A u \in S : ~Exists(u)
  /\ s \in DOMAIN store /\ store[s]
  /\ Becomes(c, [kind |-> "staff", step |-> "insert", users |-> S, store |-> s])
  /\ UNCHANGED accountVars

PendingRow(u, s, password) ==
  [role |-> Staff, status |-> "pending", email |-> Placeholder(u),
   password |-> password, store |-> {s}]

(* Mutant: pending staff already have the default password. *)
insertStaffUsers_DefaultPassword(c) ==
  /\ At(c, "staff", "insert")
  /\ \A u \in req[c].users : ~Exists(u)
  /\ account' = [u \in DOMAIN account \cup req[c].users |->
                   IF Exists(u) THEN account[u]
                   ELSE PendingRow(u, req[c].store, "default")]
  /\ Done(c)
  /\ UNCHANGED <<instant, store, storeroom, session, issued, code>>

insertStaffUsers(c) ==
  /\ At(c, "staff", "insert")
  /\ \A u \in req[c].users : ~Exists(u)   \* a fresh uuid
  /\ account' = [u \in DOMAIN account \cup req[c].users |->
                   IF Exists(u) THEN account[u]
                   ELSE PendingRow(u, req[c].store, "unknown")]
  /\ Done(c)
  /\ UNCHANGED <<instant, store, storeroom, session, issued, code>>

IsPendingStaff(u) ==
  Exists(u) /\ account[u].role = Staff /\ account[u].status = "pending"

ArriveRejectStaff(c, u) ==
  /\ IsPendingStaff(u)
  /\ Becomes(c, [kind |-> "reject", step |-> "update", user |-> u])
  /\ UNCHANGED accountVars

rejectStaff(c) ==
  /\ At(c, "reject", "update")
  /\ account' = [account EXCEPT ![req[c].user].status = "rejected"]
  /\ Done(c)
  /\ UNCHANGED <<instant, store, storeroom, session, issued, code>>

(* pickUniqueStaffEmail: the first suffix that is free, none when all are   *)
(* taken.                                                                  *)
FreeSuffixes(u) ==
  {n \in 1..MaxSuffix : ~Taken(formatStaffEmail(BaseOf[u], n), u)}

ArriveApproveStaff(c, u) ==
  /\ MayCall(c, "approve")
  /\ IsPendingStaff(u)
  /\ \E n \in FreeSuffixes(u) :
       /\ \A k \in FreeSuffixes(u) : n <= k
       /\ Becomes(c, [kind |-> "approve", step |-> "update", user |-> u,
                      email |-> formatStaffEmail(BaseOf[u], n)])
  /\ UNCHANGED accountVars

approveStaff(c) ==
  /\ At(c, "approve", "update")
  /\ Unique(req[c].user, req[c].email)
  /\ account' = [account EXCEPT ![req[c].user].email = req[c].email,
                                ![req[c].user].password = "default",
                                ![req[c].user].status = "active"]
  /\ Done(c)
  /\ UNCHANGED <<instant, store, storeroom, session, issued, code>>

(* Accounts of the other roles are made by the administrator; a store       *)
(* need only exist.                                                        *)
ArriveCreateUser(c, u) ==
  /\ MayCall(c, "createUser")
  /\ ~Exists(u)
  /\ \E role \in RoleChoices \ {"admin", Staff} : \E email \in AddressChoices :
       \E S \in {{}} \cup {{s} : s \in DOMAIN store} :
         /\ ~Taken(email, u)
         /\ Becomes(c, [kind |-> "createUser", step |-> "insert", user |-> u,
                        row |-> [role |-> role, status |-> "active",
                                 email |-> email, password |-> "chosen",
                                 store |-> S]])
  /\ UNCHANGED accountVars

createUser(c) ==
  /\ At(c, "createUser", "insert")
  /\ ~Exists(req[c].user)   \* a fresh uuid
  /\ Unique(req[c].user, req[c].row.email)
  /\ Insert(req[c].user, req[c].row)
  /\ Done(c)
  /\ UNCHANGED <<instant, store, storeroom, session, issued, code>>

(* Users are never deleted, so the check before the UPDATE cannot go stale. *)
updateUserByAdmin(u) ==
  /\ Immediate("admin")
  /\ Exists(u)
  /\ \E st \in StatusChoices \cup {account[u].status} :
       \E role \in RoleChoices \cup {account[u].role} :
         account' = [account EXCEPT ![u].status = st, ![u].role = role]
  /\ UNCHANGED <<instant, store, storeroom, session, issued, code>>

-----------------------------------------------------------------------------
(* Sessions.                                                                *)

ArriveLogin(c, u) ==
  /\ Exists(u)
  /\ account[u].status = "active"
  /\ account[u].password # "unknown"
  /\ Becomes(c, [kind |-> "login", step |-> "save", user |-> u])
  /\ UNCHANGED accountVars

(* refreshToken: the row is found, deleted, and a new one saved, in three   *)
(* statements.  Neither the row's expiry nor the status of its user is      *)
(* asked (the lifetime inside the signed token is configured apart).       *)
ArriveRefresh(c, t) ==
  /\ t \in DOMAIN session
  /\ Becomes(c, [kind |-> "refresh", step |-> "delete", token |-> t,
                 user |-> session[t].user])
  /\ UNCHANGED accountVars

Without(t) == [k \in DOMAIN session \ {t} |-> session[k]]

deleteRefreshToken(c) ==
  /\ At(c, "refresh", "delete")
  /\ session' = Without(req[c].token)
  /\ GoesTo(c, "save")
  /\ UNCHANGED <<instant, store, storeroom, account, issued, code>>

saveRefreshToken(c) ==
  /\ At(c, "login", "save") \/ At(c, "refresh", "save")
  /\ issued < MaxSessions
  /\ issued' = issued + 1
  /\ session' = [t \in DOMAIN session \cup {issued'} |->
                   IF t = issued' THEN [user |-> req[c].user,
                                        expiresAt |-> instant + SessionLife]
                   ELSE session[t]]
  /\ Done(c)
  /\ UNCHANGED <<instant, store, storeroom, account, code>>

logout(t) ==
  /\ Immediate("logout")
  /\ t \in DOMAIN session
  /\ session' = Without(t)
  /\ UNCHANGED <<instant, store, storeroom, account, issued, code>>

(* Mutant: gt for lt. *)
clearExpiredTokens_Live ==
  /\ Immediate("clearTokens")
  /\ \E t \in DOMAIN session : session[t].expiresAt > instant
  /\ session' = [t \in {t \in DOMAIN session : session[t].expiresAt <= instant}
                   |-> session[t]]
  /\ UNCHANGED <<instant, store, storeroom, account, issued, code>>

(* The two jobs at 2 a.m. *)
clearExpiredTokens ==
  /\ Immediate("clearTokens")
  /\ \E t \in DOMAIN session : session[t].expiresAt < instant
  /\ session' = [t \in {t \in DOMAIN session : session[t].expiresAt >= instant}
                   |-> session[t]]
  /\ UNCHANGED <<instant, store, storeroom, account, issued, code>>

Deleted(i) == code[i].user = {}

clearExpiredOtp ==
  /\ Immediate("clearOtp")
  /\ \E i \in DOMAIN code : ~Deleted(i) /\ code[i].expiresAt < instant
  /\ code' = [i \in DOMAIN code |->
                IF code[i].expiresAt < instant THEN [code[i] EXCEPT !.user = {}]
                ELSE code[i]]
  /\ UNCHANGED <<instant, store, storeroom, account, session, issued>>

-----------------------------------------------------------------------------
(* One-time codes.                                                          *)

forgotPassword(u) ==
  /\ Immediate("forgot")
  /\ Exists(u) /\ Len(code) < MaxCodes
  /\ code' = Append(code, [user |-> {u}, expiresAt |-> instant + CodeLife,
                           isUsed |-> FALSE])
  /\ UNCHANGED <<instant, store, storeroom, account, session, issued>>

(* findValidOtp, for a caller who has read the mail: a placeholder address  *)
(* receives none.                                                          *)
ArriveReset(c, i) ==
  /\ i \in DOMAIN code /\ ~Deleted(i)
  /\ ~code[i].isUsed /\ code[i].expiresAt > instant
  /\ \A u \in code[i].user :
       /\ account[u].email # Placeholder(u)
       /\ Becomes(c, [kind |-> "reset", step |-> "password", code |-> i, user |-> u])
  /\ UNCHANGED accountVars

updateUserPassword(c) ==
  /\ At(c, "reset", "password")
  /\ account' = [account EXCEPT ![req[c].user].password = "chosen"]
  /\ GoesTo(c, "mark")
  /\ UNCHANGED <<instant, store, storeroom, session, issued, code>>

markOtpAsUsed(c) ==
  /\ At(c, "reset", "mark")
  /\ code' = [code EXCEPT ![req[c].code].isUsed = TRUE]
  /\ Done(c)
  /\ UNCHANGED <<instant, store, storeroom, account, session, issued>>

-----------------------------------------------------------------------------
Tick ==
  /\ Immediate("time")
  /\ instant < LastInstant
  /\ instant' = instant + 1
  /\ UNCHANGED <<store, storeroom, account, session, issued, code>>

StoreRequest(c) ==
  \/ \E s \in Stores : ArriveUpdateStore(c, s)
  \/ updateStore(c)

StaffRequest(c) ==
  \/ \E S \in SUBSET Users, s \in Stores : ArriveStaffRequest(c, S, s)
  \/ insertStaffUsers(c)
  \/ \E u \in Users : ArriveRejectStaff(c, u) \/ ArriveApproveStaff(c, u)
                      \/ ArriveCreateUser(c, u)
  \/ rejectStaff(c) \/ approveStaff(c) \/ createUser(c)

SessionRequest(c) ==
  \/ \E u \in Users : ArriveLogin(c, u)
  \/ \E t \in DOMAIN session : ArriveRefresh(c, t)
  \/ deleteRefreshToken(c) \/ saveRefreshToken(c)
  \/ \E i \in DOMAIN code : ArriveReset(c, i)
  \/ updateUserPassword(c) \/ markOtpAsUsed(c)

AccountNext ==
  \/ \E s \in Stores : createStore(s) \/ removeStore(s)
  \/ \E u \in Users : updateUserByAdmin(u) \/ forgotPassword(u)
  \/ \E t \in DOMAIN session : logout(t)
  \/ \E c \in Clients : StoreRequest(c) \/ StaffRequest(c) \/ SessionRequest(c)
  \/ clearExpiredTokens \/ clearExpiredOtp \/ Tick

-----------------------------------------------------------------------------
(* Properties.                                                             *)

AccountTypeOK ==
  /\ instant \in 0..LastInstant
  /\ DOMAIN store \subseteq Stores /\ storeroom \subseteq Stores
  /\ DOMAIN account \subseteq Users
  /\ \A u \in DOMAIN account :
       account[u] \in UserRow /\ account[u].store \subseteq DOMAIN store
  /\ issued \in 0..MaxSessions /\ DOMAIN session \subseteq 1..issued
  /\ \A t \in DOMAIN session : session[t] \in SessionRow
  /\ \A i \in DOMAIN code : code[i] \in CodeRow

(* A member of staff holds a session only once the approval has handed the  *)
(* account over, with an address of its own: not while the request waits,   *)
(* nor when an administrator sets its status by hand, nor by a reset.      *)
OnlyHandedOverAccountsSignIn ==
  \A t \in DOMAIN session :
    account[session[t].user].email # Placeholder(session[t].user)

(* The refresh token of a session that was never closed does not stay in    *)
(* the table for ever: the nightly job deletes it once it has expired.      *)
SessionsEnd ==
  \A t \in 1..MaxSessions :
    (t \in DOMAIN session /\ session[t].expiresAt < instant)
      ~> t \notin DOMAIN session
=============================================================================

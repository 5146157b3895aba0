------------------------------ MODULE Accounts ------------------------------
(***************************************************************************)
(* The accounts service: the requests of web/api/lib/actions/auth.js,      *)
(* admin.js, device.js and progress.js on the tables of db.js.  Each       *)
(* request is a chain of SQL statements; one statement is one step, other  *)
(* requests run between any two, and a request may die before any of them. *)
(*                                                                         *)
(* req[r].at is the statement a request does next; one that was not yet    *)
(* sent is idle, and is sent with its first SELECT.  Passwords, rate       *)
(* limits, mail, roles, a link's purpose, the verified and disabled marks  *)
(* and the expiry of rows are left out: where one of them would refuse a   *)
(* request the model lets it die.                                          *)
(***************************************************************************)
CONSTANTS
  Id, Email, Name,       \* accounts, addresses, callsigns
  Request,               \* requests under way at once
  AdminEmail, AdminName, \* passwords.js's address, db.js's two callsigns
  Tomb,                  \* the address a wiped account is given, by its id
  None

ASSUME AccountsAssumption ==
  /\ AdminEmail \in Email /\ AdminName \subseteq Name
  /\ None \notin Id \cup Email \cup Name

ASSUME TombAssumption ==
  /\ Tomb \in [Id -> Email \ {AdminEmail}]
  /\ \A i, j \in Id : Tomb[i] = Tomb[j] => i = j

VARIABLES
  user,      \* users
  sessions,  \* accounts with rows in sessions, browsers' or bricks'
  tokens,    \* accounts with an unused row in email_tokens
  progress,  \* accounts with a row in progress
  req,
  late       \* history: accounts that a request in flight wrote to while
             \* they were being wiped, or after

rows == <<user, sessions, tokens, progress>>
vars == <<rows, req, late>>

ByCookie == {"logout", "resend", "rename", "progress", "delete"}
ByLookup == {"login", "forgot", "disable", "remove"}
Op == ByCookie \cup ByLookup \cup {"none", "register", "verify", "reset", "seed"}
Checks == {"nameFree", "addUser", "setName"}
At == Checks \cup {"idle", "useToken", "addToken", "addSession", "dropSessions", "fresh",
       "readProgress", "writeProgress", "adminName", "addAdmin",
       "wipeSessions", "wipeTokens", "wipeProgress", "wipeUser"}

Row == [is : {"none", "live", "deleted"}, email : Email \cup {None}, name : Name \cup {None}]
NoRow == [is |-> "none", email |-> None, name |-> None]
Req == [op : Op, at : At, id : Id \cup {None}, email : Email \cup {None},
        name : Name \cup {None}, knew : BOOLEAN, saw : BOOLEAN]
Rest == [op |-> "none", at |-> "idle", id |-> None, email |-> None, name |-> None,
         knew |-> FALSE, saw |-> FALSE]

TypeOK ==
  /\ user \in [Id -> Row] /\ req \in [Request -> Req]
  /\ sessions \subseteq Id /\ tokens \subseteq Id
  /\ progress \subseteq Id /\ late \subseteq Id

Init ==
  /\ user = [i \in Id |-> NoRow] /\ req = [r \in Request |-> Rest]
  /\ sessions = {} /\ tokens = {} /\ progress = {} /\ late = {}

-----------------------------------------------------------------------------
(* The tables *)

Live(i) == user[i].is = "live"

ClashByEmail(i, e, n) ==  \* mutant: no index on the callsigns
  \E j \in Id \ {i} : user[j].is # "none" /\ user[j].email = e /\ e # None

(* email UNIQUE holds over every row, the callsign's index over the rows   *)
(* that are not deleted.                                                   *)
Clash(i, e, n) ==
  \E j \in Id \ {i} :
    \/ user[j].is # "none" /\ user[j].email = e /\ e # None
    \/ Live(j) /\ user[j].name = n /\ n # None

NameEverTaken(i, n) == \E j \in Id \ {i} : user[j].name = n  \* mutant: deleted rows count

(* assertUsernameFree, freeAdminUsername *)
NameTaken(i, n) == \E j \in Id \ {i} : Live(j) /\ user[j].name = n

Wiping(i) == \E r \in Request : req[r].id = i /\ req[r].at \in {"wipeTokens", "wipeProgress", "wipeUser"}

-----------------------------------------------------------------------------
(* A request's steps *)

On(r, s) == req[r].at = s
Goes(r, s) == req' = [req EXCEPT ![r].at = s]
Ends(r) == req' = [req EXCEPT ![r] = Rest]
Starts(r, op, s, i, n) ==
  req' = [req EXCEPT ![r] = [Rest EXCEPT !.op = op, !.at = s, !.id = i, !.name = n, !.knew = TRUE]]

(* A write for an account, by a request that read it when it was live. *)
Writes(r) ==
  LET i == req[r].id IN
  late' = IF Wiping(i) \/ (~Live(i) /\ req[r].knew) THEN late \cup {i} ELSE late

New(i) == user[i].is = "none" /\ \A q \in Request : req[q].id # i  \* randomUUID

(* A refusal the model does not look into, a lost connection, a timeout.   *)
(* One that has only read might as well not have been sent.                *)
Dies(r) == ~On(r, "idle") /\ req[r].at \notin Checks /\ Ends(r) /\ UNCHANGED <<rows, late>>

(* registerUser.  Whoever typed the address did not know the id drawn for  *)
(* it; another account's tombstone is an address like any other.           *)
EmailFree(r, i, e, n) ==
  /\ On(r, "idle") /\ New(i) /\ e # Tomb[i]
  /\ ~\E j \in Id : Live(j) /\ user[j].email = e
  /\ req' = [req EXCEPT ![r] = [Rest EXCEPT !.op = "register", !.at = "nameFree", !.id = i,
                                            !.email = e, !.name = n]]
  /\ UNCHANGED <<rows, late>>

(* registerUser, changeUsername *)
NameFree(r) ==
  /\ On(r, "nameFree")
  /\ IF NameTaken(req[r].id, req[r].name) THEN Ends(r)
     ELSE Goes(r, IF req[r].op = "register" THEN "addUser" ELSE "setName")
  /\ UNCHANGED <<rows, late>>

AddUser(r) ==
  LET i == req[r].id IN
  /\ On(r, "addUser")
  /\ IF Clash(i, req[r].email, req[r].name) THEN Ends(r) /\ UNCHANGED user
     ELSE /\ user' = [user EXCEPT ![i] = [is |-> "live", email |-> req[r].email, name |-> req[r].name]]
          /\ req' = [req EXCEPT ![r] = [Rest EXCEPT !.op = "register", !.at = "addToken", !.id = i,
                                                     !.knew = TRUE]]
  /\ UNCHANGED <<sessions, tokens, progress, late>>

(* What follows once the account is found. *)
Then(op) ==
  CASE op = "login" -> "addSession" [] op \in {"forgot", "resend"} -> "addToken"
    [] op \in {"logout", "disable"} -> "dropSessions" [] op = "rename" -> "nameFree"
    [] op = "progress" -> "readProgress" [] op \in {"delete", "remove"} -> "wipeSessions"

(* currentUser, userFromDeviceBearer: a session of an account not deleted. *)
WhoAmI(r, i, op, n) ==
  /\ On(r, "idle") /\ Live(i) /\ i \in sessions
  /\ (n = None) <=> (op # "rename")
  /\ Starts(r, op, Then(op), i, n)
  /\ UNCHANGED <<rows, late>>

(* loginUser, deviceLogin, forgotPassword by address, mutateUser by id *)
FindsLive(r, i, op) ==
  /\ On(r, "idle") /\ Live(i)
  /\ Starts(r, op, Then(op), i, None)
  /\ UNCHANGED <<rows, late>>

(* verifyEmail, resetPassword: the token's row alone, not its account's. *)
FindsToken(r, i, op) ==
  /\ On(r, "idle") /\ i \in tokens
  /\ req' = [req EXCEPT ![r] = [Rest EXCEPT !.op = op, !.at = "useToken", !.id = i, !.knew = Live(i)]]
  /\ UNCHANGED <<rows, late>>

UseToken(r) ==
  /\ On(r, "useToken")
  /\ tokens' = tokens \ {req[r].id}
  /\ Goes(r, IF req[r].op = "verify" THEN "addSession" ELSE "dropSessions")
  /\ UNCHANGED <<user, sessions, progress, late>>

(* issueToken *)
AddToken(r) ==
  /\ On(r, "addToken")
  /\ tokens' = tokens \cup {req[r].id} /\ Writes(r)
  /\ IF req[r].op = "register" THEN Goes(r, "addSession") ELSE Ends(r)
  /\ UNCHANGED <<user, sessions, progress>>

(* openSession, openDeviceSession *)
AddSession(r) ==
  /\ On(r, "addSession")
  /\ sessions' = sessions \cup {req[r].id}
  /\ Writes(r) /\ Ends(r)
  /\ UNCHANGED <<user, tokens, progress>>

(* clearSessions *)
DropSessions(r) ==
  /\ On(r, "dropSessions")
  /\ sessions' = sessions \ {req[r].id}
  /\ IF req[r].op = "reset" THEN Goes(r, "addSession") ELSE Ends(r)
  /\ UNCHANGED <<user, tokens, progress, late>>

(* changeUsername's UPDATE finds the row by its id, deleted or not. *)
SetName(r) ==
  LET i == req[r].id IN
  /\ On(r, "setName")
  /\ IF Live(i) /\ Clash(i, None, req[r].name) THEN Ends(r) /\ UNCHANGED <<user, late>>
     ELSE user' = [user EXCEPT ![i].name = req[r].name] /\ Writes(r) /\ Goes(r, "fresh")
  /\ UNCHANGED <<sessions, tokens, progress>>

Fresh(r) == On(r, "fresh") /\ Ends(r) /\ UNCHANGED <<rows, late>>

(* saveMergedProgress: INSERT or UPDATE, by what its SELECT saw. *)
ReadProgress(r) ==
  /\ On(r, "readProgress")
  /\ req' = [req EXCEPT ![r].saw = (req[r].id \in progress), ![r].at = "writeProgress"]
  /\ UNCHANGED <<rows, late>>

WriteProgress(r) ==
  /\ On(r, "writeProgress")
  /\ progress' = IF req[r].saw THEN progress ELSE progress \cup {req[r].id}
  /\ IF req[r].saw THEN UNCHANGED late ELSE Writes(r)
  /\ Ends(r)
  /\ UNCHANGED <<user, sessions, tokens>>

(* wipeUser, called by deleteAccount and mutateUser *)
WipeSessions(r) ==
  /\ On(r, "wipeSessions") /\ Goes(r, "wipeTokens")
  /\ sessions' = sessions \ {req[r].id}
  /\ UNCHANGED <<user, tokens, progress, late>>

WipeNoTokens(r) ==  \* mutant: the account's mail links are kept
  On(r, "wipeTokens") /\ Goes(r, "wipeProgress") /\ UNCHANGED <<rows, late>>

WipeTokens(r) ==
  /\ On(r, "wipeTokens") /\ Goes(r, "wipeProgress")
  /\ tokens' = tokens \ {req[r].id}
  /\ UNCHANGED <<user, sessions, progress, late>>

WipeProgress(r) ==
  /\ On(r, "wipeProgress") /\ Goes(r, "wipeUser")
  /\ progress' = progress \ {req[r].id}
  /\ UNCHANGED <<user, sessions, tokens, late>>

Blanked(i) == [is |-> "deleted", email |-> Tomb[i], name |-> None]

(* The UPDATE fails on the index when another account has registered the   *)
(* tombstone: the account stays, without its sessions, links and progress. *)
WipeUser(r) ==
  LET i == req[r].id IN
  /\ On(r, "wipeUser") /\ Ends(r)
  /\ user' = IF Live(i) /\ ~Clash(i, Tomb[i], None) THEN [user EXCEPT ![i] = Blanked(i)] ELSE user
  /\ UNCHANGED <<sessions, tokens, progress, late>>

(* seedAdmin, on the first request of every instance of the service *)
AdminExists(r) ==
  /\ On(r, "idle")
  /\ \/ \E i \in Id : user[i].email = AdminEmail /\ user[i].name = None
                      /\ Starts(r, "seed", "adminName", i, None)
     \/ \E i \in Id : /\ New(i) /\ \A j \in Id : user[j].email # AdminEmail
                      /\ Starts(r, "seed", "adminName", i, None)
  /\ UNCHANGED <<rows, late>>

FreeAdminUsername(r, n) ==
  /\ On(r, "adminName")
  /\ IF n = None THEN \A m \in AdminName : NameTaken(req[r].id, m)
     ELSE n \in AdminName /\ ~NameTaken(req[r].id, n)
  /\ IF n = None /\ user[req[r].id].is # "none" THEN Ends(r)
     ELSE req' = [req EXCEPT ![r].name = n, ![r].at = "addAdmin"]
  /\ UNCHANGED <<rows, late>>

(* The UPDATE that names an admin without a callsign, or the INSERT whose  *)
(* unique violation is swallowed: another instance was first.              *)
AddAdmin(r) ==
  LET i == req[r].id
      n == req[r].name
  IN
  /\ On(r, "addAdmin") /\ Ends(r)
  /\ IF user[i].is = "none"
     THEN /\ user' = IF Clash(i, AdminEmail, n) THEN user
                     ELSE [user EXCEPT ![i] = [is |-> "live", email |-> AdminEmail, name |-> n]]
          /\ UNCHANGED late
     ELSE IF user[i].name # None \/ (Live(i) /\ Clash(i, None, n)) THEN UNCHANGED <<user, late>>
     ELSE user' = [user EXCEPT ![i].name = n] /\ Writes(r)
  /\ UNCHANGED <<sessions, tokens, progress>>

-----------------------------------------------------------------------------

(* Answered at its first SELECT: nothing found, or nothing to do. *)
Answered(r) == On(r, "idle") /\ UNCHANGED vars

Sent(r) ==
  \/ AdminExists(r) \/ Answered(r)
  \/ \E i \in Id :
       \/ (\E op \in ByLookup : FindsLive(r, i, op))
       \/ (\E e \in Email, n \in Name : EmailFree(r, i, e, n))
       \/ (\E op \in {"verify", "reset"} : FindsToken(r, i, op))
       \/ (\E op \in ByCookie, n \in Name \cup {None} : WhoAmI(r, i, op, n))

Statement(r) ==
  \/ NameFree(r) \/ AddUser(r) \/ AddAdmin(r) \/ SetName(r) \/ Fresh(r) \/ UseToken(r) \/ AddToken(r) \/ AddSession(r)
  \/ DropSessions(r) \/ ReadProgress(r) \/ WriteProgress(r)
  \/ WipeSessions(r) \/ WipeTokens(r) \/ WipeProgress(r) \/ WipeUser(r)
  \/ \E n \in Name \cup {None} : FreeAdminUsername(r, n)

Next == \E r \in Request : Sent(r) \/ Statement(r) \/ Dies(r)

Spec == Init /\ [][Next]_vars

-----------------------------------------------------------------------------

(* However registrations, renames, deletions and first requests overlap,   *)
(* no two accounts share an address or a callsign.                         *)
OneLiveAccount ==
  \A i, j \in Id : i # j /\ Live(i) /\ Live(j) =>
    user[i].email # user[j].email /\ (user[i].name # user[j].name \/ user[i].name = None)

(* A registration or a rename is told "taken" only while a live account    *)
(* has that address or callsign, or when the address is the very one       *)
(* wipeUser left on a deleted row: what a deletion gave back can be had    *)
(* again (docs/SAAS.md:156).                                               *)
Holder(q) ==
  \E j \in Id \ {q.id} :
    \/ Live(j) /\ (user[j].email = q.email \/ user[j].name = q.name)
    \/ user[j].is = "deleted" /\ q.email = Tomb[j]
TakenIsHeld ==
  [][\A r \in Request : req[r].at \in Checks /\ req'[r].at = "idle" => Holder(req[r])]_vars

(* A deletion leaves nothing of the account but its tombstone, and nothing *)
(* comes back, but for what a request writes that had read the account     *)
(* before.                                                                 *)
WipedForGood ==
  \A i \in Id \ late : user[i].is = "deleted" =>
    /\ user[i].email = Tomb[i] /\ user[i].name = None
    /\ i \notin progress /\ i \notin sessions /\ i \notin tokens
=============================================================================

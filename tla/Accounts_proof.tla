--------------------------- MODULE Accounts_proof ---------------------------
(***************************************************************************)
(* Proofs about Accounts.  The invariant says, besides the properties,     *)
(* what each request in flight still knows to be true of the account it    *)
(* has read: that its row exists, that nobody else has drawn its id while  *)
(* it does not, that one who found it already deleted came by a link that  *)
(* a late write left, and how far a deletion has come.                     *)
(***************************************************************************)
EXTENDS Accounts, TLAPS

Present(i) == user[i].is # "none"
Acting == {"useToken", "addToken", "addSession", "dropSessions", "setName", "fresh", "readProgress",
           "writeProgress", "wipeSessions", "wipeTokens", "wipeProgress", "wipeUser"}

(* A deleted row has its own tombstone for an address. *)
Blank == \A i \in Id : user[i].is = "deleted" => user[i].email = Tomb[i]

(* An account that has no row yet has nothing else. *)
Unborn == \A i \in Id : ~Present(i) =>
  /\ user[i].email = None /\ user[i].name = None
  /\ i \notin sessions /\ i \notin tokens /\ i \notin progress

(* A request past its first statement has an account, and one that acts on *)
(* it has a row; a registration has its address.                           *)
Knows == \A r \in Request :
  /\ req[r].at # "idle" => req[r].id \in Id
  /\ req[r].at \in Acting \/ (req[r].at = "nameFree" /\ req[r].op # "register") => Present(req[r].id)
  /\ req[r].at = "addUser" \/ (req[r].at = "nameFree" /\ req[r].op = "register") => req[r].email # None

(* An id without a row is one request's alone. *)
Alone == \A r, q \in Request :
  req[r].at # "idle" /\ req[q].at # "idle" /\ req[r].id = req[q].id /\ r # q => Present(req[r].id)

(* Who did not know the account when it was live has it from a late write. *)
Blind == \A r \in Request :
  req[r].at # "idle" /\ ~req[r].knew /\ Present(req[r].id) => req[r].id \in late

(* What a deletion has wiped stays wiped, or somebody was late. *)
WipeOrder == \A r \in Request :
  req[r].id \in late \/
  /\ req[r].at \in {"wipeTokens", "wipeProgress", "wipeUser"} => req[r].id \notin sessions
  /\ req[r].at \in {"wipeProgress", "wipeUser"} => req[r].id \notin tokens
  /\ req[r].at = "wipeUser" => req[r].id \notin progress

IInv == TypeOK /\ OneLiveAccount /\ WipedForGood /\ Blank /\ Unborn /\ Knows /\ Alone /\ Blind /\ WipeOrder

-----------------------------------------------------------------------------
(* Steps that write no row *)

(* What a request that goes on as c must know. *)
Sound(r, c) ==
  /\ c \in Req
  /\ c.at # "idle" => c.id \in Id
  /\ c.at \in Acting \/ (c.at = "nameFree" /\ c.op # "register") => Present(c.id)
  /\ c.at = "addUser" \/ (c.at = "nameFree" /\ c.op = "register") => c.email # None
  /\ c.at # "idle" /\ ~Present(c.id) =>
       \A q \in Request \ {r} : req[q].at # "idle" => req[q].id # c.id
  /\ c.at # "idle" /\ ~c.knew /\ Present(c.id) => c.id \in late

LEMMA RestIsSound == ASSUME NEW r \in Request PROVE Sound(r, Rest)
BY DEF Sound, Rest, Req, Op, At, Checks, Acting

(* Steps that leave the users alone. *)
Grows(S, T) == \A i \in T \ S :
  i \in Id /\ Present(i) /\ (i \in late' \/ (user[i].is # "deleted" /\ ~Wiping(i)))

LEMMA MoveStep ==
  ASSUME IInv, NEW r \in Request, NEW c, Sound(r, c), req' = [req EXCEPT ![r] = c],
         user' = user, late \subseteq late', late' \subseteq Id,
         Grows(sessions, sessions'), Grows(tokens, tokens'), Grows(progress, progress'),
         \/ c.id \in late'
         \/ /\ c.at \in {"wipeTokens", "wipeProgress", "wipeUser"} => c.id \notin sessions'
            /\ c.at \in {"wipeProgress", "wipeUser"} => c.id \notin tokens'
            /\ c.at = "wipeUser" => c.id \notin progress'
  PROVE  IInv'
<1>1. c \in Req /\ req \in [Request -> Req] BY DEF Sound, IInv, TypeOK
<1>2. \A q \in Request : req'[q] = IF q = r THEN c ELSE req[q] BY <1>1
<1>3. TypeOK' BY <1>1 DEF IInv, TypeOK, Grows
<1>4. OneLiveAccount' /\ Blank' BY DEF IInv, OneLiveAccount, Live, Blank
<1>5. WipedForGood' BY DEF IInv, WipedForGood, Grows
<1>6. Unborn' BY DEF IInv, Unborn, Present, Grows
<1>7. Knows' BY <1>2 DEF IInv, Knows, Sound, Present
<1>8. Alone' BY <1>2 DEF IInv, Alone, Sound, Present
<1>9. Blind' BY <1>2 DEF IInv, Blind, Sound, Present
<1>10. WipeOrder'
  <2> SUFFICES ASSUME NEW q \in Request, q # r, req[q].id \notin late'
               PROVE  /\ req[q].at \in {"wipeTokens", "wipeProgress", "wipeUser"} => req[q].id \notin sessions'
                      /\ req[q].at \in {"wipeProgress", "wipeUser"} => req[q].id \notin tokens'
                      /\ req[q].at = "wipeUser" => req[q].id \notin progress'
    BY <1>2 DEF WipeOrder
  <2>1. req[q].at \in {"wipeTokens", "wipeProgress", "wipeUser"} => Wiping(req[q].id) BY DEF Wiping
  <2>2. req[q].at \in {"wipeTokens", "wipeProgress", "wipeUser"} => req[q].id \notin sessions'
    BY <2>1 DEF Grows, IInv, WipeOrder
  <2>3. req[q].at \in {"wipeProgress", "wipeUser"} => req[q].id \notin tokens'
    BY <2>1 DEF Grows, IInv, WipeOrder
  <2>4. req[q].at = "wipeUser" => req[q].id \notin progress' BY <2>1 DEF Grows, IInv, WipeOrder
  <2> QED BY <2>2, <2>3, <2>4
<1> QED BY <1>3, <1>4, <1>5, <1>6, <1>7, <1>8, <1>9, <1>10 DEF IInv

LEMMA ReadStep ==
  ASSUME IInv, NEW r \in Request, NEW c, Sound(r, c), req' = [req EXCEPT ![r] = c],
         UNCHANGED <<rows, late>>, c.at \notin {"wipeTokens", "wipeProgress", "wipeUser"}
  PROVE  IInv'
<1>1. Grows(sessions, sessions') /\ Grows(tokens, tokens') /\ Grows(progress, progress')
  BY DEF Grows, rows
<1> QED BY <1>1, MoveStep DEF rows, IInv, TypeOK

LEMMA SentKeeps == ASSUME IInv, NEW r \in Request, Sent(r) PROVE IInv'
<1> USE AccountsAssumption
<1>1. \A op \in ByCookie \cup ByLookup :
        /\ Then(op) \in {"addSession", "addToken", "dropSessions", "nameFree", "readProgress", "wipeSessions"}
        /\ op \in Op \ {"register"}
  BY DEF Then, ByCookie, ByLookup, Op
<1>2. ASSUME NEW i \in Id, Live(i), NEW op \in ByCookie \cup ByLookup, NEW n \in Name \cup {None},
             Starts(r, op, Then(op), i, n), UNCHANGED <<rows, late>>
      PROVE  IInv'
  <2> DEFINE c == [Rest EXCEPT !.op = op, !.at = Then(op), !.id = i, !.name = n, !.knew = TRUE]
  <2>1. req' = [req EXCEPT ![r] = c] BY <1>2 DEF Starts
  <2>2. Sound(r, c) /\ c.at \notin {"wipeTokens", "wipeProgress", "wipeUser"}
    BY <1>1, <1>2 DEF Sound, Rest, Req, At, Checks, Acting, Live, Present, Op
  <2> HIDE DEF c
  <2> QED BY <2>1, <2>2, <1>2, ReadStep
<1>3. ASSUME NEW i \in Id, NEW op \in {"verify", "reset"}, FindsToken(r, i, op) PROVE IInv'
  <2> DEFINE c == [Rest EXCEPT !.op = op, !.at = "useToken", !.id = i, !.knew = Live(i)]
  <2>1. Present(i) /\ (~Live(i) => i \in late) /\ Live(i) \in BOOLEAN
    BY <1>3 DEF IInv, TypeOK, Row, FindsToken, Unborn, WipedForGood, Live, Present
  <2>2. Sound(r, c) /\ c.at = "useToken" BY <2>1 DEF Sound, Rest, Req, Op, At, Checks, Acting, ByCookie, ByLookup
  <2>3. req' = [req EXCEPT ![r] = c] BY <1>3 DEF FindsToken
  <2> HIDE DEF c
  <2> QED BY <2>2, <2>3, <1>3, ReadStep DEF FindsToken
<1>4. ASSUME NEW i \in Id, NEW e \in Email, NEW n \in Name, EmailFree(r, i, e, n) PROVE IInv'
  <2> DEFINE c == [Rest EXCEPT !.op = "register", !.at = "nameFree", !.id = i, !.email = e, !.name = n]
  <2>1. Sound(r, c) /\ c.at = "nameFree"
    BY <1>4 DEF Sound, Rest, Req, Op, At, Checks, Acting, EmailFree, New, Present
  <2>2. req' = [req EXCEPT ![r] = c] BY <1>4 DEF EmailFree
  <2> HIDE DEF c
  <2> QED BY <2>1, <2>2, <1>4, ReadStep DEF EmailFree
<1>5. ASSUME AdminExists(r) PROVE IInv'
  <2> DEFINE c(i) == [Rest EXCEPT !.op = "seed", !.at = "adminName", !.id = i, !.name = None, !.knew = TRUE]
  <2>1. PICK i \in Id : (Present(i) \/ New(i)) /\ req' = [req EXCEPT ![r] = c(i)]
    BY <1>5 DEF AdminExists, Starts, IInv, Unborn
  <2>2. Sound(r, c(i)) /\ c(i).at = "adminName"
    BY <2>1 DEF Sound, Rest, Req, Op, At, Checks, Acting, New, Present
  <2> HIDE DEF c
  <2> QED BY <2>1, <2>2, <1>5, ReadStep DEF AdminExists
<1>6. CASE Answered(r)
  BY <1>6 DEF Answered, vars, rows, IInv, TypeOK, OneLiveAccount, Live, WipedForGood, Blank, Unborn,
     Present, Knows, Alone, Blind, WipeOrder
<1> QED BY <1>2, <1>3, <1>4, <1>5, <1>6 DEF Sent, WhoAmI, FindsLive

-----------------------------------------------------------------------------
(* Steps of a request on its way *)

(* The account of a request that acts has a row, and is in late by now if  *)
(* the request writes to it during a deletion or after.                    *)
LEMMA WriterKnows ==
  ASSUME IInv, NEW r \in Request, req[r].at \in Acting
  PROVE  /\ req[r] \in Req /\ req[r].id \in Id /\ Present(req[r].id)
         /\ Writes(r) => /\ late \subseteq late' /\ late' \subseteq Id
                         /\ req[r].id \in late' \/ (user[req[r].id].is # "deleted" /\ ~Wiping(req[r].id))
<1>1. req[r] \in Req /\ req[r].id \in Id /\ Present(req[r].id)
  BY DEF IInv, TypeOK, Knows, Acting
<1>2. ~req[r].knew => req[r].id \in late BY <1>1 DEF IInv, Blind, Acting
<1>3. ASSUME Writes(r)
      PROVE  /\ late \subseteq late' /\ late' \subseteq Id
             /\ req[r].id \in late' \/ (user[req[r].id].is # "deleted" /\ ~Wiping(req[r].id))
  BY <1>1, <1>2, <1>3 DEF Writes, Live, IInv, TypeOK
<1> QED BY <1>1, <1>3

(* The next statement of a request whose account has a row. *)
LEMMA NextIsSound ==
  ASSUME IInv, NEW r \in Request, req[r].at \in Acting, NEW s \in Acting
  PROVE  /\ Sound(r, [req[r] EXCEPT !.at = s])
         /\ [req EXCEPT ![r].at = s] = [req EXCEPT ![r] = [req[r] EXCEPT !.at = s]]
<1>1. req \in [Request -> Req] /\ req[r] \in Req BY DEF IInv, TypeOK
<1>2. req[r].id \in Id /\ Present(req[r].id) /\ (~req[r].knew => req[r].id \in late)
  BY DEF IInv, Knows, Blind, Acting
<1>3. s \in At /\ s \notin {"idle", "nameFree", "addUser"} BY DEF Acting, At, Checks
<1>4. [req[r] EXCEPT !.at = s] \in Req BY <1>1, <1>3 DEF Req
<1>5. Sound(r, [req[r] EXCEPT !.at = s]) BY <1>1, <1>2, <1>3, <1>4 DEF Sound, Req
<1> QED BY <1>1, <1>5

(* A step that writes the user's row. *)
Distinct(i, e, n) ==
  \A j \in Id \ {i} : Live(j) => user[j].email # e /\ (user[j].name # n \/ n = None)

LEMMA RowStep ==
  ASSUME IInv, NEW r \in Request, NEW i \in Id, req[r].at # "idle", req[r].id = i,
         NEW row \in Row, row.is # "none", user' = [user EXCEPT ![i] = row],
         NEW c \in Req, req' = [req EXCEPT ![r] = c],
         UNCHANGED <<sessions, tokens, progress>>, late \subseteq late', late' \subseteq Id,
         row.is = "live" => Distinct(i, row.email, row.name),
         row.is = "deleted" =>
           /\ row.email = Tomb[i]
           /\ i \in late' \/ (row.name = None /\ i \notin sessions /\ i \notin tokens /\ i \notin progress),
         c.at # "idle" => c.id = i /\ (c.knew \/ i \in late'),
         c.at \notin {"nameFree", "addUser", "wipeTokens", "wipeProgress", "wipeUser"}
  PROVE  IInv'
<1>1. user \in [Id -> Row] /\ req \in [Request -> Req] BY DEF IInv, TypeOK
<1>2. \A q \in Request : req'[q] = IF q = r THEN c ELSE req[q] BY <1>1
<1>3. \A j \in Id : user'[j] = IF j = i THEN row ELSE user[j] BY <1>1
<1>4. TypeOK' BY <1>1 DEF IInv, TypeOK
<1>5. OneLiveAccount'
  <2>1. SUFFICES ASSUME NEW j \in Id, NEW k \in Id, j # k, user'[j].is = "live", user'[k].is = "live"
                 PROVE  user'[j].email # user'[k].email
                        /\ (user'[j].name # user'[k].name \/ user'[j].name = None)
    BY DEF OneLiveAccount, Live
  <2>2. CASE j = i BY <2>1, <2>2, <1>3 DEF Distinct, Live
  <2>3. CASE k = i BY <2>1, <2>3, <1>3 DEF Distinct, Live
  <2>4. CASE j # i /\ k # i BY <2>1, <2>4, <1>3 DEF IInv, OneLiveAccount, Live
  <2> QED BY <2>2, <2>3, <2>4
<1>6. WipedForGood' BY <1>3 DEF IInv, WipedForGood
<1>7. Blank' BY <1>3 DEF IInv, Blank
<1>8. Unborn' BY <1>3 DEF IInv, Unborn, Present
<1>9. \A j \in Id : Present(j)' <=> (j = i \/ Present(j)) BY <1>3 DEF Present
<1>10. Knows' BY <1>2, <1>9 DEF IInv, Knows, Acting
<1>11. Alone' BY <1>2, <1>9 DEF IInv, Alone, Knows
<1>12. Blind'
  <2>1. SUFFICES ASSUME NEW q \in Request, req'[q].at # "idle", ~req'[q].knew,
                        user'[req'[q].id].is # "none"
                 PROVE  req'[q].id \in late'
    BY DEF Blind, Present
  <2>2. CASE q = r BY <2>1, <2>2, <1>2 DEF Req
  <2>3. CASE q # r
    <3>1. req'[q] = req[q] /\ req[q].id \in Id BY <2>1, <2>3, <1>2 DEF IInv, Knows
    <3>2. Present(req[q].id) BY <2>1, <2>3, <3>1, <1>3 DEF IInv, Alone, Present
    <3> QED BY <2>1, <3>1, <3>2 DEF IInv, Blind
  <2> QED BY <2>2, <2>3
<1>13. WipeOrder' BY <1>2 DEF IInv, WipeOrder
<1> QED BY <1>4, <1>5, <1>6, <1>7, <1>8, <1>10, <1>11, <1>12, <1>13 DEF IInv

LEMMA StatementKeeps ==
  ASSUME IInv, NEW r \in Request, Statement(r) \/ Dies(r) PROVE IInv'
<1> USE AccountsAssumption
<1>r. Rest.at = "idle" /\ Rest.id = None /\ Sound(r, Rest) BY RestIsSound DEF Rest
<1>t. req \in [Request -> Req] /\ req[r] \in Req BY DEF IInv, TypeOK
<1>1. ASSUME Ends(r), UNCHANGED <<rows, late>> PROVE IInv'
  <2> HIDE DEF Rest
  <2> QED BY <1>1, <1>r, ReadStep DEF Ends
<1>2. CASE NameFree(r)
  <2>1. CASE Ends(r) BY <2>1, <1>2, <1>1 DEF NameFree
  <2>2. CASE ~Ends(r)
    <3> DEFINE s == IF req[r].op = "register" THEN "addUser" ELSE "setName"
               c == [req[r] EXCEPT !.at = s]
    <3>1. req' = [req EXCEPT ![r] = c] /\ UNCHANGED <<rows, late>>
      BY <1>2, <2>2, <1>t DEF NameFree, Goes
    <3>2. s \in At /\ s \in {"addUser", "setName"} BY DEF At, Checks
    <3>3. Sound(r, c) /\ c.at = s
      BY <1>2, <1>t, <3>2 DEF NameFree, On, Sound, IInv, Knows, Alone, Blind, Req, Acting
    <3> HIDE DEF c
    <3> QED BY <3>1, <3>2, <3>3, ReadStep
  <2> QED BY <2>1, <2>2
<1>3. CASE \E n \in Name \cup {None} : FreeAdminUsername(r, n)
  <2>1. PICK n \in Name \cup {None} : FreeAdminUsername(r, n) BY <1>3
  <2>2. CASE Ends(r) BY <2>1, <2>2, <1>1 DEF FreeAdminUsername
  <2>3. CASE ~Ends(r)
    <3> DEFINE c == [req[r] EXCEPT !.name = n, !.at = "addAdmin"]
    <3>1. req' = [req EXCEPT ![r] = c] /\ UNCHANGED <<rows, late>>
      BY <2>1, <2>3, <1>t DEF FreeAdminUsername
    <3>2. Sound(r, c) /\ c.at = "addAdmin"
      BY <2>1, <1>t DEF FreeAdminUsername, On, Sound, IInv, Knows, Alone, Blind, Req, Acting, At
    <3> HIDE DEF c
    <3> QED BY <3>1, <3>2, ReadStep
  <2> QED BY <2>2, <2>3
<1>4. CASE Fresh(r) \/ Dies(r) BY <1>4, <1>1 DEF Fresh, Dies
<1>5. CASE ReadProgress(r)
  <2> DEFINE c == [req[r] EXCEPT !.saw = (req[r].id \in progress), !.at = "writeProgress"]
  <2>1. req' = [req EXCEPT ![r] = c] /\ UNCHANGED <<rows, late>>
    BY <1>5, <1>t DEF ReadProgress
  <2>2. Sound(r, c) /\ c.at = "writeProgress"
    BY <1>5, <1>t DEF ReadProgress, On, Sound, IInv, Knows, Alone, Blind, Req, Acting, At
  <2> HIDE DEF c
  <2> QED BY <2>1, <2>2, ReadStep
<1>6. ASSUME Ends(r), req[r].at \in Acting, user' = user, late \subseteq late', late' \subseteq Id,
             Grows(sessions, sessions'), Grows(tokens, tokens'), Grows(progress, progress')
      PROVE  IInv'
  <2> HIDE DEF Rest
  <2> QED BY <1>6, <1>r, MoveStep DEF Ends
<1>7. ASSUME NEW s \in Acting, Goes(r, s), req[r].at \in Acting, user' = user,
             late \subseteq late', late' \subseteq Id,
             Grows(sessions, sessions'), Grows(tokens, tokens'), Grows(progress, progress'),
             \/ req[r].id \in late'
             \/ /\ s \in {"wipeTokens", "wipeProgress", "wipeUser"} => req[r].id \notin sessions'
                /\ s \in {"wipeProgress", "wipeUser"} => req[r].id \notin tokens'
                /\ s = "wipeUser" => req[r].id \notin progress'
      PROVE  IInv'
  <2> DEFINE c == [req[r] EXCEPT !.at = s]
  <2>1. Sound(r, c) /\ req' = [req EXCEPT ![r] = c] BY <1>7, NextIsSound DEF Goes
  <2>2. c.at = s /\ c.id = req[r].id BY <1>t DEF Req
  <2> HIDE DEF c
  <2> QED BY <1>7, <2>1, <2>2, MoveStep
<1>8. late \subseteq Id /\ sessions \subseteq Id /\ tokens \subseteq Id /\ progress \subseteq Id
  BY DEF IInv, TypeOK
<1>9. CASE UseToken(r)
  <2>1. req[r].at \in Acting BY <1>9 DEF UseToken, On, Acting
  <2>2. PICK s \in {"addSession", "dropSessions"} : Goes(r, s) BY <1>9 DEF UseToken
  <2>3. Grows(sessions, sessions') /\ Grows(tokens, tokens') /\ Grows(progress, progress')
    BY <1>9 DEF UseToken, Grows
  <2> QED BY <1>7, <1>8, <1>9, <2>1, <2>2, <2>3 DEF UseToken, Acting
<1>10. CASE AddToken(r) \/ AddSession(r) \/ WriteProgress(r)
  <2>1. req[r].at \in Acting /\ user' = user
    BY <1>10 DEF AddToken, AddSession, WriteProgress, On, Acting
  <2>2. late \subseteq late' /\ late' \subseteq Id
    BY <1>10, <2>1, <1>8, WriterKnows DEF AddToken, AddSession, WriteProgress
  <2>3. Grows(sessions, sessions') /\ Grows(tokens, tokens') /\ Grows(progress, progress')
    BY <1>10, <2>1, WriterKnows DEF Grows, AddToken, AddSession, WriteProgress
  <2>4. CASE Ends(r) BY <1>6, <2>1, <2>2, <2>3, <2>4
  <2>5. CASE Goes(r, "addSession") BY <1>7, <2>1, <2>2, <2>3, <2>5 DEF Acting
  <2> QED BY <1>10, <2>4, <2>5 DEF AddToken, AddSession, WriteProgress
<1>11. CASE DropSessions(r)
  <2>1. req[r].at \in Acting BY <1>11 DEF DropSessions, On, Acting
  <2>2. Grows(sessions, sessions') /\ Grows(tokens, tokens') /\ Grows(progress, progress')
    BY <1>11 DEF DropSessions, Grows
  <2>3. CASE Ends(r) BY <1>6, <1>8, <1>11, <2>1, <2>2, <2>3 DEF DropSessions
  <2>4. CASE Goes(r, "addSession") BY <1>7, <1>8, <1>11, <2>1, <2>2, <2>4 DEF DropSessions, Acting
  <2> QED BY <1>11, <2>3, <2>4 DEF DropSessions
<1>12. CASE WipeSessions(r) \/ WipeTokens(r) \/ WipeProgress(r)
  <2>1. req[r].at \in Acting /\ user' = user /\ late' = late
    BY <1>12 DEF WipeSessions, WipeTokens, WipeProgress, On, Acting
  <2>2. Grows(sessions, sessions') /\ Grows(tokens, tokens') /\ Grows(progress, progress')
    BY <1>12 DEF WipeSessions, WipeTokens, WipeProgress, Grows
  <2>3. PICK s \in {"wipeTokens", "wipeProgress", "wipeUser"} :
          /\ Goes(r, s)
          /\ \/ req[r].id \in late
             \/ /\ req[r].id \notin sessions'
                /\ s \in {"wipeProgress", "wipeUser"} => req[r].id \notin tokens'
                /\ s = "wipeUser" => req[r].id \notin progress'
    BY <1>12 DEF WipeSessions, WipeTokens, WipeProgress, On, IInv, WipeOrder
  <2> QED BY <1>7, <1>8, <2>1, <2>2, <2>3 DEF Acting
<1>i. req[r].at # "idle" => req[r].id \in Id BY DEF IInv, Knows
<1>n. req[r].name \in Name \cup {None} /\ req[r].email \in Email \cup {None}
      /\ user \in [Id -> Row] /\ late \subseteq Id
  BY <1>t DEF Req, IInv, TypeOK
<1>d. ASSUME NEW i \in Id, NEW e, NEW n, ~Clash(i, e, n)
      PROVE  \A j \in Id \ {i} : Live(j) => (user[j].email # e \/ e = None) /\ (user[j].name # n \/ n = None)
  BY <1>d DEF Clash, Live
<1>c. Rest \in Req /\ Rest.at = "idle" BY <1>r DEF Sound
<1>13. CASE AddUser(r)
  <2> DEFINE i == req[r].id
             row == [is |-> "live", email |-> req[r].email, name |-> req[r].name]
             c == [Rest EXCEPT !.op = "register", !.at = "addToken", !.id = i, !.knew = TRUE]
  <2>1. CASE Clash(i, req[r].email, req[r].name) BY <2>1, <1>13, <1>1 DEF AddUser, rows
  <2>2. CASE ~Clash(i, req[r].email, req[r].name)
    <3>1. i \in Id /\ req[r].at = "addUser" /\ req[r].email # None
      BY <1>13, <1>i DEF AddUser, On, IInv, Knows
    <3>2. row \in Row /\ row.is = "live" BY <1>n DEF Row
    <3>3. Distinct(i, row.email, row.name) BY <2>2, <3>1, <1>d DEF Distinct
    <3>4. c \in Req /\ c.at = "addToken" /\ c.id = i /\ c.knew BY <3>1 DEF Rest, Req, Op, At
    <3>5. user' = [user EXCEPT ![i] = row] /\ req' = [req EXCEPT ![r] = c]
          /\ UNCHANGED <<sessions, tokens, progress>> /\ late' = late
      BY <1>13, <2>2 DEF AddUser
    <3> HIDE DEF row, c, i
    <3> QED BY <3>1, <3>2, <3>3, <3>4, <3>5, <1>n, RowStep DEF i
  <2> QED BY <2>1, <2>2
<1>14. CASE AddAdmin(r)
  <2> DEFINE i == req[r].id
             n == req[r].name
  <2>1. i \in Id /\ req[r].at # "idle" /\ req' = [req EXCEPT ![r] = Rest]
        /\ UNCHANGED <<sessions, tokens, progress>>
    BY <1>14, <1>i DEF AddAdmin, On, Ends
  <2>2. CASE UNCHANGED <<user, late>> BY <2>1, <2>2, <1>1 DEF Ends, rows
  <2>3. CASE user[i].is = "none" /\ ~UNCHANGED <<user, late>>
    <3> DEFINE row == [is |-> "live", email |-> AdminEmail, name |-> n]
    <3>1. ~Clash(i, AdminEmail, n) /\ user' = [user EXCEPT ![i] = row] /\ late' = late
      BY <1>14, <2>3 DEF AddAdmin
    <3>2. row \in Row /\ row.is = "live" BY <1>n DEF Row
    <3>3. Distinct(i, row.email, row.name) BY <3>1, <2>1, <1>d DEF Distinct
    <3> HIDE DEF row, i, Rest
    <3> QED BY <2>1, <3>1, <3>2, <3>3, <1>c, <1>n, RowStep DEF i
  <2>4. CASE user[i].is # "none" /\ ~UNCHANGED <<user, late>>
    <3> DEFINE row == [user[i] EXCEPT !.name = n]
    <3>1. /\ user' = [user EXCEPT ![i].name = n] /\ Writes(r)
          /\ Live(i) => ~Clash(i, None, n)
      BY <1>14, <2>4 DEF AddAdmin
    <3>2. row \in Row /\ row.is = user[i].is /\ row.email = user[i].email /\ row.name = n
      BY <2>1, <1>n DEF Row
    <3>3. user' = [user EXCEPT ![i] = row] BY <3>1, <2>1, <1>n
    <3>4. row.is = "live" => Distinct(i, row.email, row.name)
      BY <3>1, <3>2, <2>1, <1>d DEF Distinct, Live, IInv, OneLiveAccount
    <3>5. row.is = "deleted" => row.email = Tomb[i] BY <3>2, <2>1 DEF IInv, Blank
    <3>6. late \subseteq late' /\ late' \subseteq Id /\ (~Live(i) => i \in late')
      BY <3>1, <2>1, <2>4, <1>n DEF Writes, IInv, Blind, Present
    <3>7. row.is = "deleted" => i \in late' BY <3>2, <3>6 DEF Live
    <3> HIDE DEF row, i, Rest
    <3> QED BY <2>1, <2>4, <3>2, <3>3, <3>4, <3>5, <3>6, <3>7, <1>c, RowStep DEF i
  <2> QED BY <2>2, <2>3, <2>4
<1>15. CASE SetName(r)
  <2> DEFINE i == req[r].id
             n == req[r].name
             row == [user[i] EXCEPT !.name = n]
             c == [req[r] EXCEPT !.at = "fresh"]
  <2>1. i \in Id /\ req[r].at \in Acting /\ req[r].at # "idle" BY <1>15, <1>i DEF SetName, On, Acting
  <2>2. CASE Live(i) /\ Clash(i, None, n) BY <2>2, <1>15, <1>1 DEF SetName, rows
  <2>3. CASE ~(Live(i) /\ Clash(i, None, n))
    <3>1. user' = [user EXCEPT ![i].name = n] /\ Writes(r) /\ Goes(r, "fresh")
          /\ UNCHANGED <<sessions, tokens, progress>>
      BY <1>15, <2>3 DEF SetName
    <3>2. row \in Row /\ row.is = user[i].is /\ row.email = user[i].email /\ row.name = n
      BY <2>1, <1>n DEF Row
    <3>3. user' = [user EXCEPT ![i] = row] BY <3>1, <2>1, <1>n
    <3>4. row.is = "live" => Distinct(i, row.email, row.name)
      BY <2>3, <3>2, <2>1, <1>d DEF Distinct, Live, IInv, OneLiveAccount
    <3>5. row.is = "deleted" => row.email = Tomb[i] BY <3>2, <2>1 DEF IInv, Blank
    <3>6. late \subseteq late' /\ late' \subseteq Id /\ Present(i)
          /\ (i \in late' \/ user[i].is # "deleted")
      BY <3>1, <2>1, WriterKnows
    <3>7. Sound(r, c) /\ req' = [req EXCEPT ![r] = c] BY <3>1, <2>1, NextIsSound DEF Goes, Acting
    <3>8. c \in Req /\ c.at = "fresh" /\ c.id = i /\ (c.knew \/ i \in late')
      BY <3>6, <3>7, <1>t DEF Sound, Req
    <3>9. row.is # "none" /\ (row.is = "deleted" => i \in late') BY <3>2, <3>6 DEF Present
    <3> HIDE DEF row, c, i
    <3> QED BY <2>1, <3>1, <3>2, <3>3, <3>4, <3>5, <3>6, <3>7, <3>8, <3>9, RowStep DEF i
  <2> QED BY <2>2, <2>3
<1>16. CASE WipeUser(r)
  <2> DEFINE i == req[r].id
             row == Blanked(i)
  <2>1. i \in Id /\ req[r].at = "wipeUser" BY <1>16, <1>i DEF WipeUser, On
  <2>2. CASE ~Live(i) \/ Clash(i, Tomb[i], None) BY <2>2, <1>16, <1>1 DEF WipeUser, rows
  <2>3. CASE Live(i) /\ ~Clash(i, Tomb[i], None)
    <3>1. user' = [user EXCEPT ![i] = row] /\ req' = [req EXCEPT ![r] = Rest] /\ late' = late
          /\ UNCHANGED <<sessions, tokens, progress>>
      BY <1>16, <2>3 DEF WipeUser, Ends
    <3>2. row \in Row /\ row.is = "deleted" /\ row.email = Tomb[i] /\ row.name = None
      BY <2>1, TombAssumption DEF Blanked, Row
    <3>3. i \in late \/ (i \notin sessions /\ i \notin tokens /\ i \notin progress)
      BY <2>1 DEF IInv, WipeOrder
    <3> HIDE DEF row, i, Rest
    <3> QED BY <2>1, <3>1, <3>2, <3>3, <1>c, <1>n, RowStep DEF i
  <2> QED BY <2>2, <2>3
<1> QED BY <1>2, <1>3, <1>4, <1>5, <1>9, <1>10, <1>11, <1>12, <1>13, <1>14, <1>15, <1>16 DEF Statement

-----------------------------------------------------------------------------
(* The theorems *)

LEMMA InitIsSound == Init => IInv
<1> USE AccountsAssumption
<1> SUFFICES ASSUME Init PROVE IInv OBVIOUS
<1>1. \A i \in Id : user[i] = NoRow BY DEF Init
<1>2. \A r \in Request : req[r] = Rest BY DEF Init
<1>3. NoRow \in Row /\ Rest \in Req BY DEF NoRow, Row, Rest, Req, Op, At
<1>4. TypeOK BY <1>3 DEF Init, TypeOK
<1>5. OneLiveAccount /\ WipedForGood /\ Blank /\ Unborn
  BY <1>1 DEF Init, OneLiveAccount, Live, WipedForGood, Blank, Unborn, Present, NoRow
<1>6. Knows /\ Alone /\ Blind /\ WipeOrder
  BY <1>2 DEF Knows, Alone, Blind, WipeOrder, Rest, Acting
<1> QED BY <1>4, <1>5, <1>6 DEF IInv

LEMMA StepKeeps == IInv /\ [Next]_vars => IInv'
<1> SUFFICES ASSUME IInv, [Next]_vars PROVE IInv' OBVIOUS
<1>1. CASE Next BY <1>1, SentKeeps, StatementKeeps DEF Next
<1>2. CASE UNCHANGED vars
  BY <1>2 DEF vars, rows, IInv, TypeOK, OneLiveAccount, Live, WipedForGood, Blank, Unborn,
     Present, Knows, Alone, Blind, WipeOrder
<1> QED BY <1>1, <1>2

LEMMA Invariance == Spec => []IInv
BY InitIsSound, StepKeeps, PTL DEF Spec

(* The tables and the requests keep their types. *)
THEOREM TypeCorrect == Spec => []TypeOK
<1>1. IInv => TypeOK BY DEF IInv
<1> QED BY <1>1, Invariance, PTL

(* However registerUser, changeUsername, wipeUser and seedAdmin overlap, no *)
(* two live accounts share an address or a callsign.                        *)
THEOREM LiveAccountsDiffer == Spec => []OneLiveAccount
<1>1. IInv => OneLiveAccount BY DEF IInv
<1> QED BY <1>1, Invariance, PTL

(* wipeUser leaves nothing of the account, and no request that did not know *)
(* the account before brings anything back.                                 *)
THEOREM DeletionIsFinal == Spec => []WipedForGood
<1>1. IInv => WipedForGood BY DEF IInv
<1> QED BY <1>1, Invariance, PTL

(* registerUser and changeUsername answer "taken" only while a live account *)
(* has the address or the callsign, or for the one address that wipeUser's  *)
(* UPDATE leaves on a deleted row: neither the address nor the callsign of  *)
(* a deleted account is held by its row.                                    *)
THEOREM TakenMeansHeld == Spec => TakenIsHeld
<1>1. ASSUME IInv, [Next]_vars, NEW r \in Request, req[r].at \in Checks, req'[r].at = "idle"
      PROVE  Holder(req[r])
  <2> USE AccountsAssumption
  <2>1. req \in [Request -> Req] /\ user \in [Id -> Row] /\ req[r] \in Req BY <1>1 DEF IInv, TypeOK
  <2>2. req[r].at # "idle" /\ req[r].id \in Id BY <1>1 DEF Checks, IInv, Knows
  <2>3. \A q \in Request : q # r /\ req'[r] # req[r] => ~Sent(q) /\ ~Statement(q) /\ ~Dies(q)
    <3> SUFFICES ASSUME NEW q \in Request, q # r, Sent(q) \/ Statement(q) \/ Dies(q) PROVE req'[r] = req[r]
      OBVIOUS
    <3>1. CASE Sent(q)
      BY <3>1, <2>1 DEF Sent, AdminExists, Starts, Answered, vars, FindsLive, EmailFree, FindsToken, WhoAmI
    <3>2. CASE Dies(q) BY <3>2, <2>1 DEF Dies, Ends
    <3>3. CASE Statement(q)
      BY <3>3, <2>1 DEF Statement, NameFree, AddUser, AddAdmin, SetName, Fresh, UseToken, AddToken, AddSession,
         DropSessions, ReadProgress, WriteProgress, WipeSessions, WipeTokens, WipeProgress, WipeUser,
         FreeAdminUsername, Goes, Ends
    <3> QED BY <3>1, <3>2, <3>3
  <2>4. Sent(r) \/ Statement(r) \/ Dies(r)
    BY <1>1, <2>2, <2>3 DEF Next, vars
  <2>5. NameFree(r) \/ AddUser(r) \/ SetName(r)
    <3>1. ~Sent(r)
      BY <2>2 DEF Sent, AdminExists, Answered, FindsLive, EmailFree, FindsToken, WhoAmI, On
    <3>2. ~Dies(r) BY <1>1 DEF Dies
    <3>3. Statement(r) BY <2>4, <3>1, <3>2
    <3> QED
      BY <1>1, <3>3 DEF Statement, Checks, Fresh, UseToken, AddToken, AddSession, AddAdmin,
         DropSessions, ReadProgress, WriteProgress, WipeSessions, WipeTokens, WipeProgress, WipeUser,
         FreeAdminUsername, On
  <2>6. CASE NameFree(r)
    <3>1. ~(req' = [req EXCEPT ![r].at = "addUser"]) /\ ~(req' = [req EXCEPT ![r].at = "setName"])
      BY <1>1, <2>1 DEF Req
    <3>2. NameTaken(req[r].id, req[r].name) BY <2>6, <3>1 DEF NameFree, Goes
    <3> QED BY <3>2 DEF NameTaken, Holder
  <2>7. CASE AddUser(r)
    <3>1. Clash(req[r].id, req[r].email, req[r].name)
      BY <1>1, <2>1, <2>7 DEF AddUser, Rest
    <3>2. PICK j \in Id \ {req[r].id} :
            \/ user[j].is # "none" /\ user[j].email = req[r].email /\ req[r].email # None
            \/ Live(j) /\ user[j].name = req[r].name
      BY <3>1 DEF Clash
    <3>3. user[j].is # "none" => Live(j) \/ (user[j].is = "deleted" /\ user[j].email = Tomb[j])
      BY <1>1, <2>1 DEF IInv, Blank, Live, Row
    <3> QED BY <3>2, <3>3 DEF Holder
  <2>8. CASE SetName(r)
    <3>1. ~(req' = [req EXCEPT ![r].at = "fresh"]) BY <1>1, <2>1 DEF Req
    <3>2. Clash(req[r].id, None, req[r].name) BY <2>8, <3>1 DEF SetName, Goes
    <3> QED BY <3>2 DEF Clash, Holder
  <2> QED BY <2>5, <2>6, <2>7, <2>8
<1>2. IInv /\ [Next]_vars =>
        [\A r \in Request : req[r].at \in Checks /\ req'[r].at = "idle" => Holder(req[r])]_vars
  BY <1>1
<1> QED BY <1>2, Invariance, PTL DEF Spec, TakenIsHeld
=============================================================================

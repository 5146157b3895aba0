---------------------------- MODULE ProgressSync ----------------------------
(***************************************************************************)
(* How study progress travels between the browsers and the Pocket brick of *)
(* one account: localStorage and the debounced PUT of web/js/account.js,   *)
(* the handler of web/api/lib/actions/progress.js with its three queries,  *)
(* and the brick's pull and push of sync.cpp.                              *)
(*                                                                         *)
(* A browser runs one event handler at a time, the brick one loop.  API    *)
(* calls run beside them and beside each other: each query of a handler is *)
(* a step, a call may fail or be given up at any moment, and a handler     *)
(* whose caller is gone still runs on.                                     *)
(***************************************************************************)
EXTENDS ProgressMerge, FiniteSets

CONSTANTS
  Browser,
  Brick,
  Slot,        \* bound on the PUTs in flight
  ChapterOf,   \* the chapter of each item
  DayLength,   \* moments in a day
  MaxNow,      \* bound on the answers and sessions
  MaxMoves     \* bound on reloads, logins, logouts and syncs of the brick

ASSUME SyncAssumption ==
  /\ Brick \notin Browser
  /\ ChapterOf \in [Item -> Chapter]
  /\ DayLength \in Nat \ {0} /\ MaxNow \in Nat /\ MaxMoves \in Nat

VARIABLES
  store,     \* localStorage of each browser
  page,      \* what each browser shows: loading, syncing, out (no user) or up
  timer,     \* browsers with the 1200 ms timer running
  own,       \* the brick's progress in RAM
  saved,     \* what progress.json on its card holds: {snapshot}, or {} if it
             \* is missing or does not parse
  phase,     \* of the brick's sync: idle, pulled or pushing
  row,       \* the account's row in the progress table
  inserted,  \* the row exists
  put,       \* the PUTs in flight
  now,       \* moments passed
  moves,     \* for MaxMoves
  given      \* all the answers people gave, wherever they gave them

device == <<store, page, timer>>
brick == <<own, saved, phase>>
account == <<row, inserted>>
people == <<now, moves, given>>
vars == <<device, brick, account, put, people>>

\* A PUT: its caller and whether that still waits, the progress it carries (the
\* body, then the reply), the row its handler read and whether there was one.
NoPut == [at |-> "free", by |-> Brick, heard |-> FALSE,
          snap |-> Empty, base |-> Empty, update |-> FALSE]

Init ==
  /\ store = [b \in Browser |-> Empty] /\ page = [b \in Browser |-> "loading"]
  /\ timer = {} /\ own = Empty /\ saved = {} /\ phase = "idle"
  /\ row = Empty /\ inserted = FALSE
  /\ put = [s \in Slot |-> NoPut]
  /\ now = 0 /\ moves = 0 /\ given = Empty

-----------------------------------------------------------------------------
(* Studying. *)

Learn == now < MaxNow /\ now' = now + 1 /\ UNCHANGED moves
Move == moves < MaxMoves /\ moves' = moves + 1

GradeDown(card, good) ==  \* mutant: a wrong answer takes one off
  [reps |-> IF good THEN card.reps + 1 ELSE card.reps - 1, due |-> now + 1]

\* sm2: a wrong answer starts the card over.  Cards of equal reps fall due in
\* the order they were answered in.
Grade(card, good) == [reps |-> IF good THEN card.reps + 1 ELSE 0, due |-> now + 1]
Counted(t, good) ==
  IF good THEN [t EXCEPT !.right = @ + 1] ELSE [t EXCEPT !.wrong = @ + 1]

\* grade of sr.js, srsGrade of srs.cpp.
Answered(snap, i, good) ==
  [cards |-> [snap.cards EXCEPT ![i] = Grade(@, good)],
   seen |-> [snap.seen EXCEPT ![i] = Counted(@, good)],
   chapters |-> [snap.chapters EXCEPT ![ChapterOf[i]] = Counted(@, good)],
   days |-> snap.days \cup {now \div DayLength},
   mocks |-> snap.mocks, unlocked |-> snap.unlocked, session |-> snap.session]

\* award: badges that were locked.
Awarded(snap, got) ==
  [snap EXCEPT !.unlocked =
     [g \in Badge |-> IF g \in got /\ @[g] = 0 THEN now + 1 ELSE @[g]]]

\* The last session, and the mock sat in it if finishMock ended it.
Ended(snap, mock) ==
  [snap EXCEPT !.mocks = IF mock THEN @ \cup {now + 1} ELSE @, !.session = now + 1]

\* onProgressSaved: the timer starts over, for a user who may sync.
Saved(b) == timer' = IF page[b] = "up" THEN timer \cup {b} ELSE timer

\* advanceQuiet: the card is graded and badges may unlock.
Study(b, i, good, got) ==
  /\ Learn /\ page[b] \in {"out", "up"}
  /\ store' = [store EXCEPT ![b] = Awarded(Answered(@, i, good), got)]
  /\ given' = Answered(given, i, good)
  /\ Saved(b)
  /\ UNCHANGED <<page, brick, account, put>>

\* noteHeat: a miss in lightning warms the chapter.
NoteHeat(b, c) ==
  /\ Learn /\ page[b] \in {"out", "up"}
  /\ store' = [store EXCEPT ![b].chapters[c].wrong = @ + 1]
  /\ given' = [given EXCEPT !.chapters[c].wrong = @ + 1]
  /\ Saved(b)
  /\ UNCHANGED <<page, brick, account, put>>

\* finalizeSession, after finishMock or not.
EndSession(b, mock, got) ==
  /\ Learn /\ page[b] \in {"out", "up"}
  /\ store' = [store EXCEPT ![b] = Ended(Awarded(@, got), mock)]
  /\ Saved(b)
  /\ UNCHANGED <<page, brick, account, put, given>>

-----------------------------------------------------------------------------
(* The browser's side of a PUT. *)

Send(s, by, body) ==
  /\ put[s].at = "free"
  /\ put' = [put EXCEPT ![s] = [NoPut EXCEPT
               !.at = "sent", !.by = by, !.heard = TRUE, !.snap = body]]

\* The caller of put s is gone or has its answer.
Settled(s) == page' = IF put[s].heard /\ put[s].by \in Browser /\ page[put[s].by] = "syncing"
                      THEN [page EXCEPT ![put[s].by] = "up"] ELSE page

\* The page is loaded anew: timers and promises of the old one are gone.
Reload(b) ==
  /\ Move
  /\ page' = [page EXCEPT ![b] = "loading"]
  /\ timer' = timer \ {b}
  /\ put' = [s \in Slot |-> IF put[s].by = b THEN [put[s] EXCEPT !.heard = FALSE] ELSE put[s]]
  /\ UNCHANGED <<store, brick, account, now, given>>

\* boot: a user who may sync does, and plays once that is settled.
Boot(b, s) ==
  /\ page[b] = "loading"
  /\ page' = [page EXCEPT ![b] = "syncing"]
  /\ Send(s, b, store[b])
  /\ UNCHANGED <<store, timer, brick, account, people>>

BootSignedOut(b) ==
  /\ page[b] = "loading"
  /\ page' = [page EXCEPT ![b] = "out"]
  /\ UNCHANGED <<store, timer, brick, account, put, people>>

\* setUser: a login, or a changed name or password, syncs at once.
SetUser(b, s) ==
  /\ Move /\ page[b] \in {"out", "up"}
  /\ page' = [page EXCEPT ![b] = "up"]
  /\ Send(s, b, store[b])
  /\ UNCHANGED <<store, timer, brick, account, now, given>>

Logout(b) ==
  /\ Move /\ page[b] = "up"
  /\ page' = [page EXCEPT ![b] = "out"]
  /\ UNCHANGED <<store, timer, brick, account, put, now, given>>

\* syncProgress, off the timer.
TimerFires(b, s) ==
  /\ b \in timer
  /\ timer' = timer \ {b}
  /\ IF page[b] = "up" THEN Send(s, b, store[b]) ELSE UNCHANGED put
  /\ UNCHANGED <<store, page, brick, account, people>>

ApplyReschedules(s) ==  \* mutant: state.applying is not set
  /\ put[s].at = "replied" /\ put[s].heard /\ put[s].by \in Browser
  /\ LET b == put[s].by IN
       /\ store' = [store EXCEPT ![b] = [put[s].snap EXCEPT
                      !.session = IF @ = 0 THEN store[b].session ELSE @]]
       /\ timer' = IF page[b] = "up" THEN timer \cup {b} ELSE timer
  /\ Settled(s)
  /\ put' = [put EXCEPT ![s] = NoPut]
  /\ UNCHANGED <<brick, account, people>>

\* applySnapshot: the answer takes the place of the browser's progress.
Apply(s) ==
  /\ put[s].at = "replied" /\ put[s].heard /\ put[s].by \in Browser
  /\ LET b == put[s].by IN
       store' = [store EXCEPT ![b] = [put[s].snap EXCEPT
                   !.session = IF @ = 0 THEN store[b].session ELSE @]]
  /\ Settled(s)
  /\ put' = [put EXCEPT ![s] = NoPut]
  /\ UNCHANGED <<timer, brick, account, people>>

-----------------------------------------------------------------------------
(* saveMergedProgress *)

ReadRow(s) ==
  /\ put[s].at = "sent"
  /\ put' = [put EXCEPT ![s].at = "read", ![s].base = row, ![s].update = inserted]
  /\ UNCHANGED <<device, brick, account, people>>

\* UPDATE or INSERT of the merge with the row that was read.
WriteRow(s) ==
  /\ put[s].at = "read" /\ (put[s].update \/ ~inserted)
  /\ row' = Merge(put[s].base, put[s].snap) /\ inserted' = TRUE
  /\ put' = [put EXCEPT ![s] = [NoPut EXCEPT !.at = "written", !.by = put[s].by, !.heard = put[s].heard]]
  /\ UNCHANGED <<device, brick, people>>

RereadRow(s) ==
  /\ put[s].at = "written"
  /\ put' = [put EXCEPT ![s].at = "replied", ![s].snap = row]
  /\ UNCHANGED <<device, brick, account, people>>

\* The call fails: the network, the handler, or an INSERT of a row another
\* call has inserted meanwhile.  The caller, if there still is one, carries on.
Fail(s) ==
  /\ put[s].at # "free"
  /\ put' = [put EXCEPT ![s] = NoPut]
  /\ Settled(s)
  /\ phase' = IF put[s].heard /\ put[s].by = Brick THEN "idle" ELSE phase
  /\ UNCHANGED <<store, timer, own, saved, account, people>>

\* The caller times out; the handler runs on.
GiveUp(s) ==
  /\ put[s].at \in {"sent", "read", "written"} /\ put[s].heard
  /\ put' = [put EXCEPT ![s].heard = FALSE]
  /\ Settled(s)
  /\ phase' = IF put[s].by = Brick THEN "idle" ELSE phase
  /\ UNCHANGED <<store, timer, own, saved, account, people>>

-----------------------------------------------------------------------------
(* The brick: one loop, so nobody answers on it while it syncs. *)

\* srsSave of x: the card takes it, or refuses it and keeps the old file, or
\* loses that too.  How, and what a power cut adds, is PocketStore's subject.
Saves(x, old) == {{x}, old, {}}

\* srsGrade: what becomes of its save is not looked at.
BrickStudy(i, good) ==
  /\ Learn /\ phase = "idle"
  /\ own' = Answered(own, i, good)
  /\ saved' \in Saves(own', saved)
  /\ given' = Answered(given, i, good)
  /\ UNCHANGED <<device, phase, account, put>>

\* srsReload: a file that cannot be read leaves RAM as it is, any other takes
\* its place, unsaved answers and all.
Reloaded == IF saved = {} THEN own ELSE CHOOSE x \in saved : TRUE

BrickPullTakes(ok) ==  \* mutant: the account's progress replaces the brick's
  /\ Move /\ phase = "idle"
  /\ own' = IF ok THEN MergeRemote(row, Empty) ELSE Reloaded
  /\ saved' \in IF ok THEN Saves(own', saved) ELSE {saved}
  /\ phase' = "pulled"
  /\ UNCHANGED <<device, account, put, now, given>>

\* pullPushProgress: the reload, a save if there is no file, and the GET's
\* answer, merged in and saved if it came.
BrickPull(ok) ==
  /\ Move /\ phase = "idle"
  /\ own' = IF ok THEN MergeRemote(Reloaded, row) ELSE Reloaded
  /\ \E first \in IF saved = {} THEN Saves(Reloaded, saved) ELSE {saved} :
       saved' \in IF ok THEN Saves(own', first) ELSE {first}
  /\ phase' = "pulled"
  /\ UNCHANGED <<device, account, put, now, given>>

\* The PUT carries the bytes of the file, whatever RAM holds.
BrickPush(s) ==
  /\ phase = "pulled" /\ phase' = "pushing"
  /\ \E x \in saved : Send(s, Brick, x)
  /\ UNCHANGED <<device, own, saved, account, people>>

\* A 401, no connection, or "Could not read /pocket/progress.json on the SD
\* card."
BrickStops ==
  /\ phase = "pulled" /\ phase' = "idle"
  /\ UNCHANGED <<device, own, saved, account, put, people>>

\* The PUT's answer is merged, if it parses, and saved.
BrickMerge(s, parses) ==
  /\ put[s].at = "replied" /\ put[s].heard /\ put[s].by = Brick
  /\ own' = IF parses THEN MergeRemote(own, put[s].snap) ELSE own
  /\ saved' \in Saves(own', saved)
  /\ phase' = "idle"
  /\ put' = [put EXCEPT ![s] = NoPut]
  /\ UNCHANGED <<device, account, people>>

-----------------------------------------------------------------------------
UserStep ==
  \/ \E b \in Browser :
       \/ \E i \in Item, good \in BOOLEAN, got \in SUBSET Badge : Study(b, i, good, got)
       \/ \E c \in Chapter : NoteHeat(b, c)
       \/ \E mock \in BOOLEAN, got \in SUBSET Badge : EndSession(b, mock, got)
       \/ Reload(b) \/ Logout(b)
       \/ \E s \in Slot : SetUser(b, s)
  \/ \E i \in Item, good \in BOOLEAN : BrickStudy(i, good)
  \/ \E ok \in BOOLEAN : BrickPull(ok)

BootSome(b) == BootSignedOut(b) \/ \E s \in Slot : Boot(b, s)
TimerFiresSome(b) == \E s \in Slot : TimerFires(b, s)
BrickMergeSome(s) == \E parses \in BOOLEAN : BrickMerge(s, parses)
Serve(s) == ReadRow(s) \/ WriteRow(s) \/ RereadRow(s) \/ Apply(s) \/ BrickMergeSome(s) \/ Fail(s)
BrickPushSome == BrickStops \/ \E s \in Slot : BrickPush(s)

Next ==
  \/ UserStep
  \/ \E b \in Browser : BootSome(b) \/ TimerFiresSome(b)
  \/ \E s \in Slot : Serve(s) \/ GiveUp(s)
  \/ BrickPushSome

\* Timers run out and calls end, well or not; nobody has to study.
Fairness ==
  /\ \A b \in Browser : WF_vars(TimerFiresSome(b))
  /\ \A s \in Slot : WF_vars(Serve(s))
  /\ WF_vars(BrickPushSome)

Spec == Init /\ [][Next]_vars
FairSpec == Spec /\ Fairness

-----------------------------------------------------------------------------
(* Properties. *)

Put == [at : {"free", "sent", "read", "written", "replied"}, by : Browser \cup {Brick},
        heard : BOOLEAN, snap : Snapshot, base : Snapshot, update : BOOLEAN]

\* Every variable has its type.
TypeOK ==
  /\ store \in [Browser -> Snapshot]
  /\ page \in [Browser -> {"loading", "syncing", "out", "up"}]
  /\ timer \subseteq Browser
  /\ own \in Snapshot /\ saved \subseteq Snapshot /\ (\A x, y \in saved : x = y)
  /\ phase \in {"idle", "pulled", "pushing"}
  /\ row \in Snapshot /\ inserted \in BOOLEAN
  /\ put \in [Slot -> Put]
  /\ now \in Nat /\ moves \in Nat /\ given \in Snapshot

\* Every snapshot that is anywhere.
Copies ==
  {store[b] : b \in Browser} \cup {own, row} \cup saved
    \cup UNION {{put[s].snap, put[s].base} : s \in Slot}

\* However often the same answers are sent, merged and handed back, no copy
\* counts an answer twice: none has more of them than people gave.
NothingInvented ==
  \A x \in Copies :
    /\ \A i \in Item : TallyCovers(given.seen[i], x.seen[i])
    /\ \A c \in Chapter : TallyCovers(given.chapters[c], x.chapters[c])
    /\ \A i \in Item : x.cards[i].reps <= given.seen[i].right

\* A handler that writes over the very row it read loses nothing of that row
\* and nothing of what the device sent.
LoneWriteKeeps ==
  [][ \A s \in Slot :
        WriteRow(s) /\ put[s].base = row =>
          Covers(row', row) /\ Covers(row', put[s].snap) ]_vars

\* docs/SAAS.md: "A failed sync must not wipe the brick."  No sync, whole or
\* broken off, takes from the brick what its card held: the reload brings it
\* back to that, the merges only add, and what is written over the file holds
\* at least as much.  Answers whose own save failed are not covered: the
\* reload drops them.
SyncKeepsSaved ==
  [][ phase # "idle" \/ phase' # "idle" =>
        /\ \A x \in saved : SrCovers(own', x)
        /\ \A x \in saved, y \in saved' : SrCovers(y, x) ]_vars

\* Applying an answer is not itself progress to send: once people stop, the
\* traffic stops.
SyncSettles == <>[](timer = {} /\ \A s \in Slot : put[s].at = "free")

\* docs/SAAS.md: "Sync merges by taking the stronger card, the union of study
\* days".  What a sync leaves on a browser includes what the browser had.
SyncMerges ==
  [][ \A s \in Slot : \A b \in Browser :
        put[s].by = b /\ Apply(s) => SrCovers(store'[b], store[b]) ]_vars
=============================================================================

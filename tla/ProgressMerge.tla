---------------------------- MODULE ProgressMerge ----------------------------
(***************************************************************************)
(* A study snapshot and the merge of two of them: web/js/progress-merge.js,*)
(* run by the site's API for every device, and its twin in the firmware,   *)
(* srsMergeRemote of srs.cpp.                                              *)
(*                                                                         *)
(* What a merge compares is kept, the rest of each entry rides along with  *)
(* it: a card is its reps and due date, seen and chapters are tallies, a   *)
(* mock is the time it was sat, a session (with the focus rollup written   *)
(* with it) the time it ended.  An entry that is absent reads as zeros in  *)
(* the code, so it is zeros here.                                          *)
(***************************************************************************)
EXTENDS Integers

CONSTANTS
  Item,      \* question ids
  Chapter,
  Badge      \* achievement ids

Card == [reps : Nat, due : Nat]
Tally == [right : Nat, wrong : Nat]

\* localSnapshot of the site, or a row of the progress table.
Snapshot ==
  [cards : [Item -> Card],
   seen : [Item -> Tally],
   chapters : [Chapter -> Tally],
   days : SUBSET Nat,
   mocks : SUBSET Nat,
   unlocked : [Badge -> Nat],   \* when; 0 while locked
   session : Nat]               \* when it ended; 0 for none

NoCard == [reps |-> 0, due |-> 0]
NoTally == [right |-> 0, wrong |-> 0]

Empty ==
  [cards |-> [i \in Item |-> NoCard],
   seen |-> [i \in Item |-> NoTally],
   chapters |-> [c \in Chapter |-> NoTally],
   days |-> {}, mocks |-> {},
   unlocked |-> [b \in Badge |-> 0],
   session |-> 0]

-----------------------------------------------------------------------------
Larger(m, n) == IF m >= n THEN m ELSE n

Weaker(c, d) == c.reps < d.reps \/ (c.reps = d.reps /\ c.due < d.due)

KeepLeft(c, d) ==  \* mutant: the left card stays, stronger or not
  IF c = NoCard THEN d ELSE c

\* The left card stays unless the right one is stronger.
Stronger(c, d) == IF Weaker(c, d) THEN d ELSE c

SumOf(t, u) ==  \* mutant: the counts are added
  [right |-> t.right + u.right, wrong |-> t.wrong + u.wrong]

Most(t, u) == [right |-> Larger(t.right, u.right), wrong |-> Larger(t.wrong, u.wrong)]

\* mergeAch: the earlier date of two unlocks.
Earlier(m, n) == IF m = 0 \/ (n # 0 /\ n < m) THEN n ELSE m

\* mergeSr, beside the mocks, unlocks and session the caller gives.
MergeSr(a, b, mocks, unlocked, session) ==
  [cards |-> [i \in Item |-> Stronger(a.cards[i], b.cards[i])],
   seen |-> [i \in Item |-> Most(a.seen[i], b.seen[i])],
   chapters |-> [c \in Chapter |-> Most(a.chapters[c], b.chapters[c])],
   days |-> a.days \cup b.days,
   mocks |-> mocks, unlocked |-> unlocked, session |-> session]

\* mergeSnapshots(server, client): the session and focus of the newer one.
Merge(s, c) ==
  MergeSr(s, c, s.mocks \cup c.mocks,
          [b \in Badge |-> Earlier(s.unlocked[b], c.unlocked[b])],
          Larger(s.session, c.session))

\* srsMergeRemote: what the brick takes over from the account.  Its file has
\* no mocks, achievements or session.
MergeRemote(own, remote) == MergeSr(own, remote, {}, Empty.unlocked, 0)

-----------------------------------------------------------------------------
(* Nothing studied in a is missing from x. *)

TallyCovers(t, u) == u.right <= t.right /\ u.wrong <= t.wrong

SrCovers(x, a) ==
  /\ \A i \in Item : ~Weaker(x.cards[i], a.cards[i])
  /\ \A i \in Item : TallyCovers(x.seen[i], a.seen[i])
  /\ \A c \in Chapter : TallyCovers(x.chapters[c], a.chapters[c])
  /\ a.days \subseteq x.days

Covers(x, a) ==
  /\ SrCovers(x, a)
  /\ a.mocks \subseteq x.mocks
  /\ \A b \in Badge : a.unlocked[b] # 0 => x.unlocked[b] \in 1 .. a.unlocked[b]
  /\ a.session <= x.session
=============================================================================

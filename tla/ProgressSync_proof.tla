-------------------------- MODULE ProgressSync_proof --------------------------
(***************************************************************************)
(* Proofs about ProgressMerge and ProgressSync, for every set of browsers, *)
(* items, chapters and badges, any number of PUTs in flight and any bound  *)
(* on the answers, and about PocketStore, the card under the brick's sync, *)
(* for every set of answers.                                               *)
(*                                                                         *)
(* The merge of two snapshots is their least upper bound under Covers:     *)
(* nothing of either is lost and nothing is added.  It is associative and  *)
(* idempotent, so neither the order in which devices sync nor a PUT sent   *)
(* twice changes the outcome.                                              *)
(***************************************************************************)
EXTENDS ProgressSync, PocketStore, TLAPS

-----------------------------------------------------------------------------
(* The merge. *)

LEMMA LargerBounds ==
  ASSUME NEW m \in Nat, NEW n \in Nat
  PROVE  /\ Larger(m, n) \in Nat
         /\ m <= Larger(m, n) /\ n <= Larger(m, n)
         /\ \A k \in Nat : m <= k /\ n <= k => Larger(m, n) <= k
BY DEF Larger

LEMMA StrongerBounds ==
  ASSUME NEW c \in Card, NEW d \in Card
  PROVE  /\ Stronger(c, d) \in Card
         /\ ~Weaker(Stronger(c, d), c) /\ ~Weaker(Stronger(c, d), d)
         /\ \A e \in Card : ~Weaker(e, c) /\ ~Weaker(e, d) => ~Weaker(e, Stronger(c, d))
BY DEF Stronger, Weaker, Card

LEMMA MostBounds ==
  ASSUME NEW t \in Tally, NEW u \in Tally
  PROVE  /\ Most(t, u) \in Tally
         /\ TallyCovers(Most(t, u), t) /\ TallyCovers(Most(t, u), u)
         /\ \A v \in Tally : TallyCovers(v, t) /\ TallyCovers(v, u) => TallyCovers(v, Most(t, u))
BY DEF Most, TallyCovers, Tally, Larger

\* Among unlock dates, 0 standing for none.
Dated(x, a) == a # 0 => x \in 1 .. a

LEMMA EarlierBounds ==
  ASSUME NEW m \in Nat, NEW n \in Nat
  PROVE  /\ Earlier(m, n) \in Nat
         /\ Dated(Earlier(m, n), m) /\ Dated(Earlier(m, n), n)
         /\ \A k \in Nat : Dated(k, m) /\ Dated(k, n) => Dated(k, Earlier(m, n))
BY DEF Earlier, Dated

-----------------------------------------------------------------------------
\* The fields of a merge, named once for the provers.
LEMMA MergeFields ==
  ASSUME NEW s \in Snapshot, NEW c \in Snapshot
  PROVE  Merge(s, c) =
           [cards |-> [i \in Item |-> Stronger(s.cards[i], c.cards[i])],
            seen |-> [i \in Item |-> Most(s.seen[i], c.seen[i])],
            chapters |-> [h \in Chapter |-> Most(s.chapters[h], c.chapters[h])],
            days |-> s.days \cup c.days,
            mocks |-> s.mocks \cup c.mocks,
            unlocked |-> [b \in Badge |-> Earlier(s.unlocked[b], c.unlocked[b])],
            session |-> Larger(s.session, c.session)]
BY DEF Merge, MergeSr

\* The merge of two snapshots is a snapshot.
LEMMA MergeType ==
  ASSUME NEW s \in Snapshot, NEW c \in Snapshot
  PROVE  Merge(s, c) \in Snapshot
<1>1. \A i \in Item : Stronger(s.cards[i], c.cards[i]) \in Card
  BY StrongerBounds DEF Snapshot
<1>2. \A i \in Item : Most(s.seen[i], c.seen[i]) \in Tally
  BY MostBounds DEF Snapshot
<1>3. \A h \in Chapter : Most(s.chapters[h], c.chapters[h]) \in Tally
  BY MostBounds DEF Snapshot
<1>4. \A b \in Badge : Earlier(s.unlocked[b], c.unlocked[b]) \in Nat
  BY EarlierBounds DEF Snapshot
<1>5. Larger(s.session, c.session) \in Nat
  BY LargerBounds DEF Snapshot
<1>6. s.days \cup c.days \in SUBSET Nat /\ s.mocks \cup c.mocks \in SUBSET Nat
  BY DEF Snapshot
<1> QED
  BY <1>1, <1>2, <1>3, <1>4, <1>5, <1>6, MergeFields DEF Snapshot

\* progress-merge.js: what either device had studied, unlocked or sat is in
\* the merge.
THEOREM MergeKeepsBoth ==
  ASSUME NEW s \in Snapshot, NEW c \in Snapshot
  PROVE  Covers(Merge(s, c), s) /\ Covers(Merge(s, c), c)
<1> DEFINE m == Merge(s, c)
<1>1. ASSUME NEW i \in Item
      PROVE  /\ ~Weaker(m.cards[i], s.cards[i]) /\ ~Weaker(m.cards[i], c.cards[i])
             /\ TallyCovers(m.seen[i], s.seen[i]) /\ TallyCovers(m.seen[i], c.seen[i])
  <2>1. s.cards[i] \in Card /\ c.cards[i] \in Card /\ s.seen[i] \in Tally /\ c.seen[i] \in Tally
    BY DEF Snapshot
  <2>2. m.cards[i] = Stronger(s.cards[i], c.cards[i]) /\ m.seen[i] = Most(s.seen[i], c.seen[i])
    BY MergeFields
  <2> QED
    BY <2>1, <2>2, StrongerBounds, MostBounds
<1>2. ASSUME NEW h \in Chapter
      PROVE  TallyCovers(m.chapters[h], s.chapters[h]) /\ TallyCovers(m.chapters[h], c.chapters[h])
  <2>1. s.chapters[h] \in Tally /\ c.chapters[h] \in Tally
    BY DEF Snapshot
  <2>2. m.chapters[h] = Most(s.chapters[h], c.chapters[h])
    BY MergeFields
  <2> QED
    BY <2>1, <2>2, MostBounds
<1>3. ASSUME NEW b \in Badge
      PROVE  Dated(m.unlocked[b], s.unlocked[b]) /\ Dated(m.unlocked[b], c.unlocked[b])
  <2>1. s.unlocked[b] \in Nat /\ c.unlocked[b] \in Nat
    BY DEF Snapshot
  <2>2. m.unlocked[b] = Earlier(s.unlocked[b], c.unlocked[b])
    BY MergeFields
  <2> QED
    BY <2>1, <2>2, EarlierBounds
<1>4. s.session <= m.session /\ c.session <= m.session
  <2>1. m.session = Larger(s.session, c.session)
    BY MergeFields
  <2>2. s.session \in Nat /\ c.session \in Nat
    BY DEF Snapshot
  <2> QED
    BY <2>1, <2>2, LargerBounds
<1>5. m.days = s.days \cup c.days /\ m.mocks = s.mocks \cup c.mocks
  BY MergeFields
<1> HIDE DEF m
<1>6. Covers(m, s) /\ Covers(m, c)
  BY <1>1, <1>2, <1>3, <1>4, <1>5 DEF Covers, SrCovers, Dated
<1> QED
  BY <1>6 DEF m

\* progress-merge.js: the merge holds nothing beyond what the two had, so
\* whatever bounds them both (the answers people really gave) bounds it too.
THEOREM MergeIsLeast ==
  ASSUME NEW s \in Snapshot, NEW c \in Snapshot, NEW x \in Snapshot,
         Covers(x, s), Covers(x, c)
  PROVE  Covers(x, Merge(s, c))
<1> DEFINE m == Merge(s, c)
<1>1. ASSUME NEW i \in Item
      PROVE  ~Weaker(x.cards[i], m.cards[i]) /\ TallyCovers(x.seen[i], m.seen[i])
  <2>1. /\ s.cards[i] \in Card /\ c.cards[i] \in Card /\ x.cards[i] \in Card
        /\ s.seen[i] \in Tally /\ c.seen[i] \in Tally /\ x.seen[i] \in Tally
    BY DEF Snapshot
  <2>2. m.cards[i] = Stronger(s.cards[i], c.cards[i]) /\ m.seen[i] = Most(s.seen[i], c.seen[i])
    BY MergeFields
  <2>3. /\ ~Weaker(x.cards[i], s.cards[i]) /\ ~Weaker(x.cards[i], c.cards[i])
        /\ TallyCovers(x.seen[i], s.seen[i]) /\ TallyCovers(x.seen[i], c.seen[i])
    BY DEF Covers, SrCovers
  <2> QED
    BY <2>1, <2>2, <2>3, StrongerBounds, MostBounds
<1>2. ASSUME NEW h \in Chapter
      PROVE  TallyCovers(x.chapters[h], m.chapters[h])
  <2>1. s.chapters[h] \in Tally /\ c.chapters[h] \in Tally /\ x.chapters[h] \in Tally
    BY DEF Snapshot
  <2>2. m.chapters[h] = Most(s.chapters[h], c.chapters[h])
    BY MergeFields
  <2>3. TallyCovers(x.chapters[h], s.chapters[h]) /\ TallyCovers(x.chapters[h], c.chapters[h])
    BY DEF Covers, SrCovers
  <2> QED
    BY <2>1, <2>2, <2>3, MostBounds
<1>3. ASSUME NEW b \in Badge
      PROVE  Dated(x.unlocked[b], m.unlocked[b])
  <2>1. s.unlocked[b] \in Nat /\ c.unlocked[b] \in Nat /\ x.unlocked[b] \in Nat
    BY DEF Snapshot
  <2>2. m.unlocked[b] = Earlier(s.unlocked[b], c.unlocked[b])
    BY MergeFields
  <2>3. Dated(x.unlocked[b], s.unlocked[b]) /\ Dated(x.unlocked[b], c.unlocked[b])
    BY DEF Covers, Dated
  <2>4. \A k \in Nat : Dated(k, s.unlocked[b]) /\ Dated(k, c.unlocked[b])
                        => Dated(k, Earlier(s.unlocked[b], c.unlocked[b]))
    BY <2>1, EarlierBounds
  <2>5. Dated(x.unlocked[b], Earlier(s.unlocked[b], c.unlocked[b]))
    BY <2>1, <2>3, <2>4
  <2> QED
    BY <2>2, <2>5
<1>4. m.session <= x.session
  <2>1. m.session = Larger(s.session, c.session)
    BY MergeFields
  <2>2. s.session \in Nat /\ c.session \in Nat /\ x.session \in Nat
    BY DEF Snapshot
  <2>3. s.session <= x.session /\ c.session <= x.session
    BY DEF Covers
  <2> QED
    BY <2>1, <2>2, <2>3, LargerBounds
<1>5. m.days \subseteq x.days /\ m.mocks \subseteq x.mocks
  BY MergeFields DEF Covers, SrCovers
<1> HIDE DEF m
<1>6. Covers(x, m)
  BY <1>1, <1>2, <1>3, <1>4, <1>5 DEF Covers, SrCovers, Dated
<1> QED
  BY <1>6 DEF m

-----------------------------------------------------------------------------
LEMMA PartsAssociate ==
  /\ \A c, d, e \in Card : Stronger(Stronger(c, d), e) = Stronger(c, Stronger(d, e))
  /\ \A t, u, v \in Tally : Most(Most(t, u), v) = Most(t, Most(u, v))
  /\ \A k, m, n \in Nat : Earlier(Earlier(k, m), n) = Earlier(k, Earlier(m, n))
  /\ \A k, m, n \in Nat : Larger(Larger(k, m), n) = Larger(k, Larger(m, n))
<1>1. \A c, d, e \in Card : Stronger(Stronger(c, d), e) = Stronger(c, Stronger(d, e))
  BY DEF Stronger, Weaker, Card
<1>2. \A k, m, n \in Nat : Larger(Larger(k, m), n) = Larger(k, Larger(m, n))
  BY DEF Larger
<1>3. \A t, u, v \in Tally : Most(Most(t, u), v) = Most(t, Most(u, v))
  BY <1>2 DEF Most, Tally
<1>4. \A k, m, n \in Nat : Earlier(Earlier(k, m), n) = Earlier(k, Earlier(m, n))
  BY DEF Earlier
<1> QED
  BY <1>1, <1>2, <1>3, <1>4

\* progress-merge.js: merging twice what was merged once changes nothing, so
\* a PUT that is repeated does no harm.
THEOREM MergeIdempotent ==
  ASSUME NEW s \in Snapshot
  PROVE  Merge(s, s) = s
<1>1. \A i \in Item : Stronger(s.cards[i], s.cards[i]) = s.cards[i]
  BY DEF Stronger
<1>2. \A t \in Tally : Most(t, t) = t
  BY DEF Most, Tally, Larger
<1>3. \A n \in Nat : Earlier(n, n) = n /\ Larger(n, n) = n
  BY DEF Earlier, Larger
<1>4. /\ [i \in Item |-> Stronger(s.cards[i], s.cards[i])] = s.cards
      /\ [i \in Item |-> Most(s.seen[i], s.seen[i])] = s.seen
      /\ [h \in Chapter |-> Most(s.chapters[h], s.chapters[h])] = s.chapters
      /\ [b \in Badge |-> Earlier(s.unlocked[b], s.unlocked[b])] = s.unlocked
      /\ Larger(s.session, s.session) = s.session
      /\ s.days \cup s.days = s.days /\ s.mocks \cup s.mocks = s.mocks
  BY <1>1, <1>2, <1>3 DEF Snapshot
<1> QED
  BY <1>4, MergeFields DEF Snapshot

\* progress-merge.js: three devices end up with the same account whichever
\* two of them are merged first.
THEOREM MergeAssociative ==
  ASSUME NEW a \in Snapshot, NEW b \in Snapshot, NEW c \in Snapshot
  PROVE  Merge(Merge(a, b), c) = Merge(a, Merge(b, c))
<1>1. Merge(a, b) \in Snapshot /\ Merge(b, c) \in Snapshot
  BY MergeType
<1>2. \A i \in Item :
        /\ Stronger(Stronger(a.cards[i], b.cards[i]), c.cards[i])
             = Stronger(a.cards[i], Stronger(b.cards[i], c.cards[i]))
        /\ Most(Most(a.seen[i], b.seen[i]), c.seen[i])
             = Most(a.seen[i], Most(b.seen[i], c.seen[i]))
  BY PartsAssociate DEF Snapshot
<1>3. \A h \in Chapter :
        Most(Most(a.chapters[h], b.chapters[h]), c.chapters[h])
          = Most(a.chapters[h], Most(b.chapters[h], c.chapters[h]))
  BY PartsAssociate DEF Snapshot
<1>4. \A g \in Badge :
        Earlier(Earlier(a.unlocked[g], b.unlocked[g]), c.unlocked[g])
          = Earlier(a.unlocked[g], Earlier(b.unlocked[g], c.unlocked[g]))
  BY PartsAssociate DEF Snapshot
<1>5. Larger(Larger(a.session, b.session), c.session)
        = Larger(a.session, Larger(b.session, c.session))
  BY PartsAssociate DEF Snapshot
<1>6. Merge(Merge(a, b), c) =
        [cards |-> [i \in Item |-> Stronger(Stronger(a.cards[i], b.cards[i]), c.cards[i])],
         seen |-> [i \in Item |-> Most(Most(a.seen[i], b.seen[i]), c.seen[i])],
         chapters |-> [h \in Chapter |-> Most(Most(a.chapters[h], b.chapters[h]), c.chapters[h])],
         days |-> (a.days \cup b.days) \cup c.days,
         mocks |-> (a.mocks \cup b.mocks) \cup c.mocks,
         unlocked |-> [g \in Badge |-> Earlier(Earlier(a.unlocked[g], b.unlocked[g]), c.unlocked[g])],
         session |-> Larger(Larger(a.session, b.session), c.session)]
  BY <1>1, MergeFields
<1>7. Merge(a, Merge(b, c)) =
        [cards |-> [i \in Item |-> Stronger(a.cards[i], Stronger(b.cards[i], c.cards[i]))],
         seen |-> [i \in Item |-> Most(a.seen[i], Most(b.seen[i], c.seen[i]))],
         chapters |-> [h \in Chapter |-> Most(a.chapters[h], Most(b.chapters[h], c.chapters[h]))],
         days |-> a.days \cup (b.days \cup c.days),
         mocks |-> a.mocks \cup (b.mocks \cup c.mocks),
         unlocked |-> [g \in Badge |-> Earlier(a.unlocked[g], Earlier(b.unlocked[g], c.unlocked[g]))],
         session |-> Larger(a.session, Larger(b.session, c.session))]
  BY <1>1, MergeFields
<1>8. /\ (a.days \cup b.days) \cup c.days = a.days \cup (b.days \cup c.days)
      /\ (a.mocks \cup b.mocks) \cup c.mocks = a.mocks \cup (b.mocks \cup c.mocks)
  OBVIOUS
<1> QED
  BY <1>2, <1>3, <1>4, <1>5, <1>6, <1>7, <1>8

-----------------------------------------------------------------------------
(* The browsers, the brick and the account. *)

(* The helpers keep snapshots snapshots. *)

LEMMA EmptyType == Empty \in Snapshot /\ Empty.unlocked \in [Badge -> Nat]
BY DEF Empty, Snapshot, Card, Tally, NoCard, NoTally

LEMMA GradeType ==
  ASSUME now \in Nat, NEW c \in Card, NEW good
  PROVE  Grade(c, good) \in Card
BY DEF Grade, Card

LEMMA CountedType ==
  ASSUME NEW t \in Tally, NEW good
  PROVE  Counted(t, good) \in Tally
BY DEF Counted, Tally

LEMMA AnsweredFields ==
  ASSUME NEW x \in Snapshot, NEW i \in Item, NEW good
  PROVE  Answered(x, i, good) =
           [cards |-> [x.cards EXCEPT ![i] = Grade(x.cards[i], good)],
            seen |-> [x.seen EXCEPT ![i] = Counted(x.seen[i], good)],
            chapters |-> [x.chapters EXCEPT
                            ![ChapterOf[i]] = Counted(x.chapters[ChapterOf[i]], good)],
            days |-> x.days \cup {now \div DayLength},
            mocks |-> x.mocks, unlocked |-> x.unlocked, session |-> x.session]
BY DEF Answered

LEMMA AnsweredType ==
  ASSUME now \in Nat, NEW x \in Snapshot, NEW i \in Item, NEW good
  PROVE  Answered(x, i, good) \in Snapshot
<1>1. /\ x.cards \in [Item -> Card] /\ x.seen \in [Item -> Tally]
      /\ x.chapters \in [Chapter -> Tally] /\ x.days \subseteq Nat /\ x.mocks \subseteq Nat
      /\ x.unlocked \in [Badge -> Nat] /\ x.session \in Nat
  BY DEF Snapshot
<1>2. now \div DayLength \in Nat /\ ChapterOf[i] \in Chapter
  BY SyncAssumption
<1>3. /\ Grade(x.cards[i], good) \in Card /\ Counted(x.seen[i], good) \in Tally
      /\ Counted(x.chapters[ChapterOf[i]], good) \in Tally
  BY <1>1, <1>2, GradeType, CountedType
<1>4. /\ [x.cards EXCEPT ![i] = Grade(x.cards[i], good)] \in [Item -> Card]
      /\ [x.seen EXCEPT ![i] = Counted(x.seen[i], good)] \in [Item -> Tally]
      /\ [x.chapters EXCEPT ![ChapterOf[i]] = Counted(x.chapters[ChapterOf[i]], good)]
           \in [Chapter -> Tally]
  BY <1>1, <1>3
<1>5. x.days \cup {now \div DayLength} \subseteq Nat
  BY <1>1, <1>2
<1>6. QED BY <1>1, <1>4, <1>5, AnsweredFields DEF Snapshot

LEMMA AwardedType ==
  ASSUME now \in Nat, NEW x \in Snapshot, NEW got \in SUBSET Badge
  PROVE  Awarded(x, got) \in Snapshot
BY DEF Awarded, Snapshot

LEMMA MergeRemoteType ==
  ASSUME NEW x \in Snapshot, NEW r \in Snapshot
  PROVE  MergeRemote(x, r) \in Snapshot
<1>1. \A i \in Item : Stronger(x.cards[i], r.cards[i]) \in Card
  BY StrongerBounds DEF Snapshot
<1>2. \A i \in Item : Most(x.seen[i], r.seen[i]) \in Tally
  BY MostBounds DEF Snapshot
<1>3. \A h \in Chapter : Most(x.chapters[h], r.chapters[h]) \in Tally
  BY MostBounds DEF Snapshot
<1>4. x.days \cup r.days \in SUBSET Nat
  BY DEF Snapshot
<1>5. QED
  BY <1>1, <1>2, <1>3, <1>4, EmptyType DEF MergeRemote, MergeSr, Snapshot

LEMMA HeatedType ==
  ASSUME NEW x \in Snapshot, NEW h \in Chapter
  PROVE  [x EXCEPT !.chapters[h].wrong = @ + 1] \in Snapshot
<1>1. x.chapters[h] \in Tally
  BY DEF Snapshot
<1>2. [x.chapters[h] EXCEPT !.wrong = @ + 1] \in Tally
  BY <1>1 DEF Tally
<1>3. [x.chapters EXCEPT ![h].wrong = @ + 1] \in [Chapter -> Tally]
  BY <1>2 DEF Snapshot
<1>4. QED BY <1>3 DEF Snapshot

LEMMA EndedType ==
  ASSUME now \in Nat, NEW x \in Snapshot, NEW mock
  PROVE  Ended(x, mock) \in Snapshot
<1>1. (IF mock THEN x.mocks \cup {now + 1} ELSE x.mocks) \in SUBSET Nat
  BY DEF Snapshot
<1>2. ASSUME NEW m \in SUBSET Nat, NEW e \in Nat
      PROVE  [x EXCEPT !.mocks = m, !.session = e] \in Snapshot
  BY DEF Snapshot
<1>3. now + 1 \in Nat
  OBVIOUS
<1>4. QED BY <1>1, <1>2, <1>3 DEF Ended

LEMMA SessionType ==
  ASSUME NEW x \in Snapshot, NEW e \in Nat
  PROVE  [x EXCEPT !.session = e] \in Snapshot
BY DEF Snapshot

LEMMA NoPutType == NoPut \in Put
BY EmptyType DEF NoPut, Put

LEMMA SentType ==
  ASSUME NEW by \in Browser \cup {Brick}, NEW body \in Snapshot
  PROVE  [NoPut EXCEPT !.at = "sent", !.by = by, !.heard = TRUE, !.snap = body] \in Put
BY EmptyType DEF NoPut, Put

\* What a file may hold: one snapshot or none.
OneFile(f) == f \subseteq Snapshot /\ \A x, y \in f : x = y

LEMMA SavesType ==
  ASSUME NEW x \in Snapshot, NEW old, OneFile(old), NEW new \in Saves(x, old)
  PROVE  OneFile(new)
BY DEF OneFile, Saves

LEMMA ReloadedType ==
  ASSUME own \in Snapshot, OneFile(saved)
  PROVE  Reloaded \in Snapshot /\ \A x \in saved : Reloaded = x
<1>1. saved # {} => (CHOOSE x \in saved : TRUE) \in saved
  OBVIOUS
<1>2. QED BY <1>1 DEF Reloaded, OneFile

\* What a pull leaves on the card: what RAM then is, or what was read from it.
LEMMA PullFile ==
  ASSUME own \in Snapshot, OneFile(saved), NEW ok \in BOOLEAN, BrickPull(ok), own' \in Snapshot
  PROVE  OneFile(saved') /\ saved' \subseteq {own', Reloaded}
<1>1. PICK first \in IF saved = {} THEN Saves(Reloaded, saved) ELSE {saved} :
        saved' \in IF ok THEN Saves(own', first) ELSE {first}
  BY DEF BrickPull
<1>2. OneFile(first) /\ first \subseteq {Reloaded}
  BY <1>1, ReloadedType DEF Saves, OneFile
<1>3. saved' = first \/ saved' \in Saves(own', first)
  BY <1>1
<1>4. QED BY <1>2, <1>3, SavesType DEF Saves

LEMMA TypeInit == Init => TypeOK
<1> SUFFICES ASSUME Init PROVE TypeOK
  OBVIOUS
<1>1. store \in [Browser -> Snapshot] /\ own \in Snapshot /\ row \in Snapshot /\ given \in Snapshot
      /\ saved = {}
  BY EmptyType DEF Init
<1>2. put \in [Slot -> Put]
  BY NoPutType DEF Init
<1>3. page \in [Browser -> {"loading", "syncing", "out", "up"}] /\ timer \subseteq Browser
  BY DEF Init
<1>4. phase \in {"idle", "pulled", "pushing"} /\ inserted \in BOOLEAN /\ now \in Nat /\ moves \in Nat
  BY DEF Init
<1>5. QED BY <1>1, <1>2, <1>3, <1>4 DEF TypeOK

Pages == {"loading", "syncing", "out", "up"}

LEMMA SettledType ==
  ASSUME TypeOK, NEW s \in Slot, Settled(s)
  PROVE  page' \in [Browser -> Pages]
BY DEF Settled, TypeOK, Pages

LEMMA UserTypeStep ==
  ASSUME TypeOK, UserStep
  PROVE  TypeOK'
<1> USE DEF TypeOK
<1>1. ASSUME NEW b \in Browser, NEW i \in Item, NEW good \in BOOLEAN, NEW got \in SUBSET Badge,
             Study(b, i, good, got)
      PROVE  TypeOK'
  <2>1. Awarded(Answered(store[b], i, good), got) \in Snapshot
    BY AnsweredType, AwardedType
  <2>2. store' \in [Browser -> Snapshot]
    BY <1>1, <2>1 DEF Study
  <2>3. given' \in Snapshot
    BY <1>1, AnsweredType DEF Study
  <2>4. timer' \subseteq Browser
    BY <1>1 DEF Study, Saved
  <2>5. now' \in Nat /\ moves' \in Nat
    BY <1>1 DEF Study, Learn
  <2>6. UNCHANGED <<page, own, saved, phase, row, inserted, put>>
    BY <1>1 DEF Study, brick, account
  <2>7. QED BY <2>2, <2>3, <2>4, <2>5, <2>6
<1>2. ASSUME NEW b \in Browser, NEW h \in Chapter, NoteHeat(b, h)
      PROVE  TypeOK'
  <2>1. [store[b] EXCEPT !.chapters[h].wrong = @ + 1] \in Snapshot
    BY HeatedType
  <2>2. store' \in [Browser -> Snapshot]
    BY <1>2, <2>1 DEF NoteHeat
  <2>3. given' \in Snapshot
    BY <1>2, HeatedType DEF NoteHeat
  <2>4. timer' \subseteq Browser
    BY <1>2 DEF NoteHeat, Saved
  <2>5. now' \in Nat /\ moves' \in Nat
    BY <1>2 DEF NoteHeat, Learn
  <2>6. UNCHANGED <<page, own, saved, phase, row, inserted, put>>
    BY <1>2 DEF NoteHeat, brick, account
  <2>7. QED BY <2>2, <2>3, <2>4, <2>5, <2>6
<1>3. ASSUME NEW b \in Browser, NEW mock \in BOOLEAN, NEW got \in SUBSET Badge, EndSession(b, mock, got)
      PROVE  TypeOK'
  <2>1. Ended(Awarded(store[b], got), mock) \in Snapshot
    BY AwardedType, EndedType
  <2>5. store' \in [Browser -> Snapshot]
    BY <1>3, <2>1 DEF EndSession
  <2>6. timer' \subseteq Browser
    BY <1>3 DEF EndSession, Saved
  <2>7. now' \in Nat /\ moves' \in Nat
    BY <1>3 DEF EndSession, Learn
  <2>8. UNCHANGED <<page, own, saved, phase, row, inserted, put, given>>
    BY <1>3 DEF EndSession, brick, account
  <2>9. QED BY <2>5, <2>6, <2>7, <2>8
<1>4. ASSUME NEW b \in Browser, Reload(b)
      PROVE  TypeOK'
  <2>1. \A s \in Slot : [put[s] EXCEPT !.heard = FALSE] \in Put
    BY DEF Put
  <2>2. put' \in [Slot -> Put]
    BY <1>4, <2>1 DEF Reload
  <2>3. page' \in [Browser -> Pages] /\ timer' \subseteq Browser /\ moves' \in Nat
    BY <1>4 DEF Reload, Move, Pages
  <2>4. UNCHANGED <<store, own, saved, phase, row, inserted, now, given>>
    BY <1>4 DEF Reload, brick, account
  <2>5. QED BY <2>2, <2>3, <2>4 DEF Pages
<1>5. ASSUME NEW b \in Browser, Logout(b)
      PROVE  TypeOK'
  <2>1. page' \in [Browser -> Pages] /\ moves' \in Nat
    BY <1>5 DEF Logout, Move, Pages
  <2>2. UNCHANGED <<store, timer, own, saved, phase, row, inserted, put, now, given>>
    BY <1>5 DEF Logout, brick, account
  <2>3. QED BY <2>1, <2>2 DEF Pages
<1>6. ASSUME NEW b \in Browser, NEW s \in Slot, SetUser(b, s)
      PROVE  TypeOK'
  <2>1. put' \in [Slot -> Put]
    BY <1>6, SentType DEF SetUser, Send
  <2>2. page' \in [Browser -> Pages] /\ moves' \in Nat
    BY <1>6 DEF SetUser, Move, Pages
  <2>3. UNCHANGED <<store, timer, own, saved, phase, row, inserted, now, given>>
    BY <1>6 DEF SetUser, brick, account
  <2>4. QED BY <2>1, <2>2, <2>3 DEF Pages
<1>7. ASSUME NEW i \in Item, NEW good \in BOOLEAN, BrickStudy(i, good)
      PROVE  TypeOK'
  <2>1. own' \in Snapshot /\ given' \in Snapshot
    BY <1>7, AnsweredType DEF BrickStudy
  <2>0. OneFile(saved')
    BY <1>7, <2>1, SavesType DEF BrickStudy, OneFile
  <2>2. now' \in Nat /\ moves' \in Nat
    BY <1>7 DEF BrickStudy, Learn
  <2>3. UNCHANGED <<store, page, timer, phase, row, inserted, put>>
    BY <1>7 DEF BrickStudy, device, account
  <2>4. QED BY <2>0, <2>1, <2>2, <2>3 DEF OneFile
<1>8. ASSUME NEW ok \in BOOLEAN, BrickPull(ok)
      PROVE  TypeOK'
  <2>1. own' \in Snapshot /\ phase' = "pulled"
    BY <1>8, MergeRemoteType, ReloadedType DEF BrickPull, OneFile
  <2>0. OneFile(saved')
    BY <1>8, <2>1, PullFile DEF OneFile
  <2>2. moves' \in Nat
    BY <1>8 DEF BrickPull, Move
  <2>3. UNCHANGED <<store, page, timer, row, inserted, put, now, given>>
    BY <1>8 DEF BrickPull, device, account
  <2>4. QED BY <2>0, <2>1, <2>2, <2>3 DEF OneFile
<1>9. QED BY <1>1, <1>2, <1>3, <1>4, <1>5, <1>6, <1>7, <1>8 DEF UserStep

LEMMA CallTypeStep ==
  ASSUME TypeOK, NEW s \in Slot
  PROVE  /\ \A b \in Browser : Boot(b, s) \/ TimerFires(b, s) => TypeOK'
         /\ Serve(s) \/ GiveUp(s) \/ BrickPush(s) => TypeOK'
<1> USE DEF TypeOK
<1>1. ASSUME NEW b \in Browser, Boot(b, s)
      PROVE  TypeOK'
  <2>1. put' \in [Slot -> Put]
    BY <1>1, SentType DEF Boot, Send
  <2>2. page' \in [Browser -> Pages]
    BY <1>1 DEF Boot, Pages
  <2>3. UNCHANGED <<store, timer, own, saved, phase, row, inserted, now, moves, given>>
    BY <1>1 DEF Boot, brick, account, people
  <2>4. QED BY <2>1, <2>2, <2>3 DEF Pages
<1>2. ASSUME NEW b \in Browser, TimerFires(b, s)
      PROVE  TypeOK'
  <2>1. put' \in [Slot -> Put]
    <3>1. Send(s, b, store[b]) \/ UNCHANGED put
      BY <1>2 DEF TimerFires
    <3>2. store[b] \in Snapshot
      OBVIOUS
    <3>3. ASSUME Send(s, b, store[b])
          PROVE  put' \in [Slot -> Put]
      <4> DEFINE p == [NoPut EXCEPT !.at = "sent", !.by = b, !.heard = TRUE, !.snap = store[b]]
      <4>1. p \in Put
        BY <3>2, SentType
      <4>2. put' = [put EXCEPT ![s] = p]
        BY <3>3 DEF Send
      <4> HIDE DEF p
      <4>3. QED BY <4>1, <4>2
    <3>4. QED BY <3>1, <3>3
  <2>2. timer' \subseteq Browser
    BY <1>2 DEF TimerFires
  <2>3. UNCHANGED <<store, page, own, saved, phase, row, inserted, now, moves, given>>
    BY <1>2 DEF TimerFires, brick, account, people
  <2>4. QED BY <2>1, <2>2, <2>3
<1>3. put[s] \in Put
  OBVIOUS
<1>4. ASSUME ReadRow(s)
      PROVE  TypeOK'
  <2>1. ASSUME NEW base \in Snapshot, NEW update \in BOOLEAN
        PROVE  [put[s] EXCEPT !.at = "read", !.base = base, !.update = update] \in Put
    BY <1>3 DEF Put
  <2>2. put' = [put EXCEPT ![s] = [put[s] EXCEPT !.at = "read", !.base = row, !.update = inserted]]
    BY <1>4 DEF ReadRow
  <2>3. put' \in [Slot -> Put]
    BY <2>1, <2>2
  <2>4. UNCHANGED <<store, page, timer, own, saved, phase, row, inserted, now, moves, given>>
    BY <1>4 DEF ReadRow, device, brick, account, people
  <2>5. QED BY <2>3, <2>4
<1>5. ASSUME WriteRow(s)
      PROVE  TypeOK'
  <2>1. put[s].snap \in Snapshot /\ put[s].base \in Snapshot
        /\ put[s].by \in Browser \cup {Brick} /\ put[s].heard \in BOOLEAN
    BY <1>3 DEF Put
  <2>2. row' \in Snapshot
    BY <1>5, <2>1, MergeType DEF WriteRow
  <2>3. ASSUME NEW by \in Browser \cup {Brick}, NEW heard \in BOOLEAN
        PROVE  [NoPut EXCEPT !.at = "written", !.by = by, !.heard = heard] \in Put
    BY EmptyType DEF NoPut, Put
  <2>4. put' = [put EXCEPT ![s] =
                  [NoPut EXCEPT !.at = "written", !.by = put[s].by, !.heard = put[s].heard]]
    BY <1>5 DEF WriteRow
  <2>5. put' \in [Slot -> Put]
    BY <2>1, <2>3, <2>4
  <2>6. inserted' \in BOOLEAN
    BY <1>5 DEF WriteRow
  <2>7. UNCHANGED <<store, page, timer, own, saved, phase, now, moves, given>>
    BY <1>5 DEF WriteRow, device, brick, people
  <2>8. QED BY <2>2, <2>5, <2>6, <2>7
<1>6. ASSUME RereadRow(s)
      PROVE  TypeOK'
  <2>1. ASSUME NEW snap \in Snapshot
        PROVE  [put[s] EXCEPT !.at = "replied", !.snap = snap] \in Put
    BY <1>3 DEF Put
  <2>2. put' = [put EXCEPT ![s] = [put[s] EXCEPT !.at = "replied", !.snap = row]]
    BY <1>6 DEF RereadRow
  <2>3. put' \in [Slot -> Put]
    BY <2>1, <2>2
  <2>4. UNCHANGED <<store, page, timer, own, saved, phase, row, inserted, now, moves, given>>
    BY <1>6 DEF RereadRow, device, brick, account, people
  <2>5. QED BY <2>3, <2>4
<1>7. ASSUME Apply(s)
      PROVE  TypeOK'
  <2> DEFINE b == put[s].by
             x == put[s].snap
             e == IF x.session = 0 THEN store[b].session ELSE x.session
  <2>1. b \in Browser /\ x \in Snapshot
    BY <1>3, <1>7 DEF Apply, Put
  <2>2. e \in Nat
    BY <2>1 DEF Snapshot
  <2>3. store' = [store EXCEPT ![b] = [x EXCEPT !.session = e]]
    BY <1>7 DEF Apply
  <2> HIDE DEF e, b, x
  <2>4. store' \in [Browser -> Snapshot]
    BY <2>1, <2>2, <2>3, SessionType
  <2>5. page' \in [Browser -> Pages] /\ put' \in [Slot -> Put]
    BY <1>7, SettledType, NoPutType DEF Apply
  <2>6. UNCHANGED <<timer, own, saved, phase, row, inserted, now, moves, given>>
    BY <1>7 DEF Apply, brick, account, people
  <2>7. QED BY <2>4, <2>5, <2>6 DEF Pages
<1>8. ASSUME NEW parses \in BOOLEAN, BrickMerge(s, parses)
      PROVE  TypeOK'
  <2>1. put[s].snap \in Snapshot
    BY <1>3 DEF Put
  <2>2. own' \in Snapshot /\ phase' = "idle" /\ put' \in [Slot -> Put]
    BY <1>8, <2>1, MergeRemoteType, NoPutType DEF BrickMerge
  <2>0. OneFile(saved')
    BY <1>8, <2>2, SavesType DEF BrickMerge, OneFile
  <2>3. UNCHANGED <<store, page, timer, row, inserted, now, moves, given>>
    BY <1>8 DEF BrickMerge, device, account, people
  <2>4. QED BY <2>0, <2>2, <2>3 DEF OneFile
<1>9. ASSUME Fail(s) \/ GiveUp(s)
      PROVE  TypeOK'
  <2>1. [put[s] EXCEPT !.heard = FALSE] \in Put
    BY <1>3 DEF Put
  <2>2. put' \in [Slot -> Put]
    BY <1>9, <2>1, NoPutType DEF Fail, GiveUp
  <2>3. page' \in [Browser -> Pages]
    BY <1>9, SettledType DEF Fail, GiveUp
  <2>4. phase' \in {"idle", "pulled", "pushing"}
    BY <1>9 DEF Fail, GiveUp
  <2>5. UNCHANGED <<store, timer, own, saved, row, inserted, now, moves, given>>
    BY <1>9 DEF Fail, GiveUp, account, people
  <2>6. QED BY <2>2, <2>3, <2>4, <2>5 DEF Pages
<1>10. ASSUME BrickPush(s)
       PROVE  TypeOK'
  <2>0. PICK x \in saved : Send(s, Brick, x)
    BY <1>10 DEF BrickPush
  <2>1. put' \in [Slot -> Put] /\ phase' = "pushing"
    BY <1>10, <2>0, SentType DEF BrickPush, Send
  <2>2. UNCHANGED <<store, page, timer, own, saved, row, inserted, now, moves, given>>
    BY <1>10 DEF BrickPush, device, account, people
  <2>3. QED BY <2>1, <2>2
<1>11. QED
  BY <1>1, <1>2, <1>4, <1>5, <1>6, <1>7, <1>8, <1>9, <1>10 DEF Serve, BrickMergeSome

LEMMA TypeStep ==
  ASSUME TypeOK, [Next]_vars
  PROVE  TypeOK'
<1>1. CASE UNCHANGED vars
  BY <1>1 DEF vars, device, brick, account, people, TypeOK
<1>2. ASSUME NEW b \in Browser, BootSignedOut(b)
      PROVE  TypeOK'
  BY <1>2 DEF BootSignedOut, brick, account, people, TypeOK
<1>3. CASE BrickStops
  BY <1>3 DEF BrickStops, device, account, people, TypeOK
<1>4. QED
  BY <1>1, <1>2, <1>3, UserTypeStep, CallTypeStep DEF Next, BootSome, TimerFiresSome, BrickPushSome

\* Every reachable state is well typed.
THEOREM TypeCorrect == Spec => []TypeOK
BY TypeInit, TypeStep, PTL DEF Spec

-----------------------------------------------------------------------------
(* Nobody's answers are counted twice: a snapshot fits what was given, and *)
(* studying, merging and copying keep it so.                               *)

Fits(x, g) ==
  /\ \A i \in Item : TallyCovers(g.seen[i], x.seen[i])
  /\ \A c \in Chapter : TallyCovers(g.chapters[c], x.chapters[c])
  /\ \A i \in Item : x.cards[i].reps <= g.seen[i].right

LEMMA EmptyFits ==
  ASSUME NEW g \in Snapshot
  PROVE  Fits(Empty, g)
<1>1. \A i \in Item : g.seen[i] \in Tally
  BY DEF Snapshot
<1>2. \A c \in Chapter : g.chapters[c] \in Tally
  BY DEF Snapshot
<1>3. QED BY <1>1, <1>2 DEF Fits, Empty, NoCard, NoTally, TallyCovers, Tally

LEMMA SameFits ==
  ASSUME NEW x, NEW y, NEW g,
         y.seen = x.seen, y.chapters = x.chapters, y.cards = x.cards, Fits(x, g)
  PROVE  Fits(y, g)
BY DEF Fits

LEMMA SnapshotParts ==
  ASSUME NEW x \in Snapshot
  PROVE  /\ x.seen \in [Item -> Tally] /\ x.chapters \in [Chapter -> Tally]
         /\ x.cards \in [Item -> Card]
BY DEF Snapshot

LEMMA CountedCovers ==
  ASSUME NEW t \in Tally, NEW u \in Tally, NEW good, TallyCovers(t, u)
  PROVE  TallyCovers(Counted(t, good), Counted(u, good)) /\ TallyCovers(Counted(t, good), u)
BY DEF TallyCovers, Counted, Tally

\* An answer beside the same answer among those given.
LEMMA AnsweredFits ==
  ASSUME now \in Nat, NEW x \in Snapshot, NEW g \in Snapshot, NEW j \in Item, NEW good, Fits(x, g)
  PROVE  Fits(Answered(x, j, good), Answered(g, j, good))
<1> DEFINE y == Answered(x, j, good)
           h == Answered(g, j, good)
           k == ChapterOf[j]
<1>1. k \in Chapter
  BY SyncAssumption
<1>2. /\ y.seen = [x.seen EXCEPT ![j] = Counted(x.seen[j], good)]
      /\ h.seen = [g.seen EXCEPT ![j] = Counted(g.seen[j], good)]
      /\ y.chapters = [x.chapters EXCEPT ![k] = Counted(x.chapters[k], good)]
      /\ h.chapters = [g.chapters EXCEPT ![k] = Counted(g.chapters[k], good)]
      /\ y.cards = [x.cards EXCEPT ![j] = Grade(x.cards[j], good)]
  BY AnsweredFields
<1> HIDE DEF y, h, k
<1>3. ASSUME NEW i \in Item
      PROVE  TallyCovers(h.seen[i], y.seen[i])
  <2>1. x.seen[i] \in Tally /\ g.seen[i] \in Tally /\ TallyCovers(g.seen[i], x.seen[i])
    BY SnapshotParts DEF Fits
  <2>2. TallyCovers(Counted(g.seen[i], good), Counted(x.seen[i], good))
    BY <2>1, CountedCovers
  <2>3. QED BY <1>2, <2>1, <2>2, SnapshotParts
<1>4. ASSUME NEW c \in Chapter
      PROVE  TallyCovers(h.chapters[c], y.chapters[c])
  <2>1. x.chapters[c] \in Tally /\ g.chapters[c] \in Tally /\ TallyCovers(g.chapters[c], x.chapters[c])
    BY SnapshotParts DEF Fits
  <2>2. TallyCovers(Counted(g.chapters[c], good), Counted(x.chapters[c], good))
    BY <2>1, CountedCovers
  <2>3. QED BY <1>1, <1>2, <2>1, <2>2, SnapshotParts
<1>5. ASSUME NEW i \in Item
      PROVE  y.cards[i].reps <= h.seen[i].right
  <2>1. x.cards[i] \in Card /\ g.seen[i] \in Tally /\ x.cards[i].reps <= g.seen[i].right
    BY SnapshotParts DEF Fits
  <2>2. Grade(x.cards[i], good).reps <= Counted(g.seen[i], good).right
    BY <2>1 DEF Grade, Counted, Card, Tally
  <2>3. x.cards[i].reps <= Counted(g.seen[i], good).right
    BY <2>1 DEF Counted, Card, Tally
  <2>4. QED BY <1>2, <2>1, <2>2, <2>3, SnapshotParts
<1>6. QED BY <1>3, <1>4, <1>5 DEF Fits, y, h

\* What fitted still fits when more has been given.
Grown(h, g) ==
  /\ \A i \in Item : TallyCovers(h.seen[i], g.seen[i])
  /\ \A c \in Chapter : TallyCovers(h.chapters[c], g.chapters[c])

LEMMA GrownFits ==
  ASSUME NEW x \in Snapshot, NEW g \in Snapshot, NEW h \in Snapshot, Fits(x, g), Grown(h, g)
  PROVE  Fits(x, h)
<1>1. ASSUME NEW t \in Tally, NEW u \in Tally, NEW v \in Tally, TallyCovers(v, u), TallyCovers(u, t)
      PROVE  TallyCovers(v, t)
  BY <1>1 DEF TallyCovers, Tally
<1>2. ASSUME NEW i \in Item
      PROVE  TallyCovers(h.seen[i], x.seen[i]) /\ x.cards[i].reps <= h.seen[i].right
  <2>1. x.seen[i] \in Tally /\ g.seen[i] \in Tally /\ h.seen[i] \in Tally /\ x.cards[i] \in Card
    BY SnapshotParts
  <2>2. TallyCovers(h.seen[i], g.seen[i]) /\ TallyCovers(g.seen[i], x.seen[i])
        /\ x.cards[i].reps <= g.seen[i].right
    BY DEF Fits, Grown
  <2>3. TallyCovers(h.seen[i], x.seen[i])
    BY <1>1, <2>1, <2>2
  <2>4. x.cards[i].reps <= h.seen[i].right
    BY <2>1, <2>2 DEF TallyCovers, Tally, Card
  <2>5. QED BY <2>3, <2>4
<1>3. ASSUME NEW c \in Chapter
      PROVE  TallyCovers(h.chapters[c], x.chapters[c])
  <2>1. x.chapters[c] \in Tally /\ g.chapters[c] \in Tally /\ h.chapters[c] \in Tally
    BY SnapshotParts
  <2>2. TallyCovers(h.chapters[c], g.chapters[c]) /\ TallyCovers(g.chapters[c], x.chapters[c])
    BY DEF Fits, Grown
  <2>3. QED BY <1>1, <2>1, <2>2
<1>4. QED BY <1>2, <1>3 DEF Fits

LEMMA AnsweredGrown ==
  ASSUME NEW g \in Snapshot, NEW j \in Item, NEW good
  PROVE  Grown(Answered(g, j, good), g)
<1> DEFINE h == Answered(g, j, good)
           k == ChapterOf[j]
<1>1. k \in Chapter
  BY SyncAssumption
<1>2. /\ h.seen = [g.seen EXCEPT ![j] = Counted(g.seen[j], good)]
      /\ h.chapters = [g.chapters EXCEPT ![k] = Counted(g.chapters[k], good)]
  BY AnsweredFields
<1> HIDE DEF h, k
<1>3. \A t \in Tally : TallyCovers(t, t) /\ TallyCovers(Counted(t, good), t)
  BY DEF TallyCovers, Counted, Tally
<1>4. \A i \in Item : TallyCovers(h.seen[i], g.seen[i])
  BY <1>2, <1>3, SnapshotParts
<1>5. \A c \in Chapter : TallyCovers(h.chapters[c], g.chapters[c])
  BY <1>1, <1>2, <1>3, SnapshotParts
<1>6. QED BY <1>4, <1>5 DEF Grown, h

LEMMA MergeFits ==
  ASSUME NEW x \in Snapshot, NEW y \in Snapshot, NEW g \in Snapshot, Fits(x, g), Fits(y, g),
         NEW mocks, NEW unlocked, NEW session
  PROVE  Fits(MergeSr(x, y, mocks, unlocked, session), g)
<1> DEFINE m == MergeSr(x, y, mocks, unlocked, session)
<1>1. ASSUME NEW i \in Item
      PROVE  TallyCovers(g.seen[i], m.seen[i]) /\ m.cards[i].reps <= g.seen[i].right
  <2>1. /\ x.seen[i] \in Tally /\ y.seen[i] \in Tally /\ g.seen[i] \in Tally
        /\ x.cards[i] \in Card /\ y.cards[i] \in Card
    BY SnapshotParts
  <2>2. m.seen[i] = Most(x.seen[i], y.seen[i]) /\ m.cards[i] = Stronger(x.cards[i], y.cards[i])
    BY DEF MergeSr
  <2>3. /\ TallyCovers(g.seen[i], x.seen[i]) /\ TallyCovers(g.seen[i], y.seen[i])
        /\ x.cards[i].reps <= g.seen[i].right /\ y.cards[i].reps <= g.seen[i].right
    BY DEF Fits
  <2>4. TallyCovers(g.seen[i], Most(x.seen[i], y.seen[i]))
    BY <2>1, <2>3, MostBounds
  <2>5. Stronger(x.cards[i], y.cards[i]) \in {x.cards[i], y.cards[i]}
    BY DEF Stronger
  <2> HIDE DEF m
  <2>6. QED BY <2>2, <2>3, <2>4, <2>5
<1>2. ASSUME NEW c \in Chapter
      PROVE  TallyCovers(g.chapters[c], m.chapters[c])
  <2>1. x.chapters[c] \in Tally /\ y.chapters[c] \in Tally /\ g.chapters[c] \in Tally
    BY SnapshotParts
  <2>2. m.chapters[c] = Most(x.chapters[c], y.chapters[c])
    BY DEF MergeSr
  <2>3. TallyCovers(g.chapters[c], x.chapters[c]) /\ TallyCovers(g.chapters[c], y.chapters[c])
    BY DEF Fits
  <2> HIDE DEF m
  <2>4. QED BY <2>1, <2>2, <2>3, MostBounds
<1> HIDE DEF m
<1>3. Fits(m, g)
  BY <1>1, <1>2 DEF Fits
<1>4. QED BY <1>3 DEF m

\* Heat noted beside the same heat among what was given.
Heated(x, k) == [x EXCEPT !.chapters[k].wrong = @ + 1]

LEMMA HeatedFits ==
  ASSUME NEW x \in Snapshot, NEW g \in Snapshot, NEW k \in Chapter
  PROVE  /\ Fits(x, g) => Fits(Heated(x, k), Heated(g, k))
         /\ Grown(Heated(g, k), g)
<1> DEFINE Warm(t) == [t EXCEPT !.wrong = @ + 1]
<1>1. \A y \in Snapshot : /\ Heated(y, k).seen = y.seen /\ Heated(y, k).cards = y.cards
                          /\ Heated(y, k).chapters = [y.chapters EXCEPT ![k] = Warm(y.chapters[k])]
  BY DEF Heated, Snapshot
<1>2. \A t, u \in Tally : TallyCovers(t, u) =>
        TallyCovers(Warm(t), Warm(u)) /\ TallyCovers(Warm(t), u)
  BY DEF TallyCovers, Tally
<1>3. \A t \in Tally : TallyCovers(t, t)
  BY DEF TallyCovers, Tally
<1> HIDE DEF Warm
<1>4. ASSUME Fits(x, g), NEW c \in Chapter
      PROVE  TallyCovers(Heated(g, k).chapters[c], Heated(x, k).chapters[c])
  <2>1. x.chapters[c] \in Tally /\ g.chapters[c] \in Tally /\ TallyCovers(g.chapters[c], x.chapters[c])
    BY <1>4, SnapshotParts DEF Fits
  <2>2. TallyCovers(Warm(g.chapters[c]), Warm(x.chapters[c]))
    BY <1>2, <2>1
  <2>3. /\ Heated(x, k).chapters = [x.chapters EXCEPT ![k] = Warm(x.chapters[k])]
        /\ Heated(g, k).chapters = [g.chapters EXCEPT ![k] = Warm(g.chapters[k])]
    BY <1>1
  <2>4. g.chapters \in [Chapter -> Tally] /\ x.chapters \in [Chapter -> Tally]
    BY SnapshotParts
  <2>5. QED BY <2>1, <2>2, <2>3, <2>4
<1>5. ASSUME NEW c \in Chapter
      PROVE  TallyCovers(Heated(g, k).chapters[c], g.chapters[c])
  <2>1. g.chapters[c] \in Tally
    BY SnapshotParts
  <2>2. TallyCovers(Warm(g.chapters[c]), g.chapters[c]) /\ TallyCovers(g.chapters[c], g.chapters[c])
    BY <1>2, <1>3, <2>1
  <2>3. Heated(g, k).chapters = [g.chapters EXCEPT ![k] = Warm(g.chapters[k])]
    BY <1>1
  <2>4. g.chapters \in [Chapter -> Tally]
    BY SnapshotParts
  <2>5. QED BY <2>2, <2>3, <2>4
<1>6. Fits(x, g) => Fits(Heated(x, k), Heated(g, k))
  BY <1>1, <1>4 DEF Fits
<1>7. \A i \in Item : TallyCovers(Heated(g, k).seen[i], g.seen[i])
  BY <1>1, <1>3, SnapshotParts
<1>8. QED BY <1>5, <1>6, <1>7 DEF Grown

LEMMA KeptParts ==
  ASSUME NEW x \in Snapshot, NEW g
  PROVE  /\ \A got : Fits(x, g) => Fits(Awarded(x, got), g)
         /\ \A mock : Fits(x, g) => Fits(Ended(x, mock), g)
         /\ \A e : Fits(x, g) => Fits([x EXCEPT !.session = e], g)
<1>1. \A got : LET y == Awarded(x, got) IN
        y.seen = x.seen /\ y.chapters = x.chapters /\ y.cards = x.cards
  BY DEF Awarded, Snapshot
<1>2. \A mock : LET y == Ended(x, mock) IN
        y.seen = x.seen /\ y.chapters = x.chapters /\ y.cards = x.cards
  BY DEF Ended, Snapshot
<1>3. \A e : LET y == [x EXCEPT !.session = e] IN
        y.seen = x.seen /\ y.chapters = x.chapters /\ y.cards = x.cards
  BY DEF Snapshot
<1>4. QED BY <1>1, <1>2, <1>3 DEF Fits

\* NothingInvented, copy by copy.
AllFit ==
  /\ \A b \in Browser : Fits(store[b], given)
  /\ Fits(own, given) /\ Fits(row, given) /\ \A x \in saved : Fits(x, given)
  /\ \A s \in Slot : Fits(put[s].snap, given) /\ Fits(put[s].base, given)

LEMMA AllFitMeans == AllFit <=> NothingInvented
BY DEF AllFit, NothingInvented, Copies, Fits

LEMMA PutParts ==
  ASSUME TypeOK, NEW s \in Slot
  PROVE  /\ put[s].snap \in Snapshot /\ put[s].base \in Snapshot
         /\ put[s] \in Put
BY DEF TypeOK, Put

\* The answers given are a snapshot that grows.
LEMMA StudyFits ==
  ASSUME TypeOK, AllFit,
         \/ \E b \in Browser, i \in Item, good \in BOOLEAN, got \in SUBSET Badge : Study(b, i, good, got)
         \/ \E b \in Browser, c \in Chapter : NoteHeat(b, c)
         \/ \E i \in Item, good \in BOOLEAN : BrickStudy(i, good)
  PROVE  AllFit'
<1> USE DEF TypeOK
<1>1. ASSUME NEW g \in Snapshot, Grown(g, given)
      PROVE  /\ \A b \in Browser : Fits(store[b], g)
             /\ Fits(own, g) /\ Fits(row, g) /\ \A x \in saved : Fits(x, g)
             /\ \A s \in Slot : Fits(put[s].snap, g) /\ Fits(put[s].base, g)
  BY <1>1, GrownFits, PutParts DEF AllFit
<1>2. ASSUME NEW b \in Browser, NEW i \in Item, NEW good \in BOOLEAN, NEW got \in SUBSET Badge,
             Study(b, i, good, got)
      PROVE  AllFit'
  <2>1. given' = Answered(given, i, good) /\ UNCHANGED <<own, saved, row, put>>
        /\ store' = [store EXCEPT ![b] = Awarded(Answered(store[b], i, good), got)]
    BY <1>2 DEF Study, brick, account
  <2>2. given' \in Snapshot /\ Grown(given', given)
    BY <2>1, AnsweredType, AnsweredGrown
  <2>3. Answered(store[b], i, good) \in Snapshot
    BY AnsweredType
  <2>4. Fits(Awarded(Answered(store[b], i, good), got), given')
    BY <2>1, <2>3, AnsweredFits, KeptParts DEF AllFit
  <2>5. \A d \in Browser : Fits(store'[d], given')
    BY <1>1, <2>1, <2>2, <2>4
  <2>6. QED BY <1>1, <2>1, <2>2, <2>5 DEF AllFit
<1>3. ASSUME NEW b \in Browser, NEW c \in Chapter, NoteHeat(b, c)
      PROVE  AllFit'
  <2>1. given' = Heated(given, c) /\ UNCHANGED <<own, saved, row, put>>
        /\ store' = [store EXCEPT ![b] = Heated(store[b], c)]
    BY <1>3 DEF NoteHeat, brick, account, Heated
  <2>2. given' \in Snapshot /\ Grown(given', given)
    BY <2>1, HeatedType, HeatedFits DEF Heated
  <2>3. Fits(Heated(store[b], c), given')
    BY <2>1, HeatedFits DEF AllFit
  <2>4. \A d \in Browser : Fits(store'[d], given')
    BY <1>1, <2>1, <2>2, <2>3
  <2>5. QED BY <1>1, <2>1, <2>2, <2>4 DEF AllFit
<1>4. ASSUME NEW i \in Item, NEW good \in BOOLEAN, BrickStudy(i, good)
      PROVE  AllFit'
  <2>1. given' = Answered(given, i, good) /\ own' = Answered(own, i, good)
        /\ saved' \in Saves(own', saved) /\ UNCHANGED <<store, row, put>>
    BY <1>4 DEF BrickStudy, device, account
  <2>2. given' \in Snapshot /\ Grown(given', given)
    BY <2>1, AnsweredType, AnsweredGrown
  <2>3. Fits(own', given')
    BY <2>1, AnsweredFits DEF AllFit
  <2>4. \A x \in saved' : Fits(x, given')
    BY <1>1, <2>1, <2>2, <2>3 DEF Saves
  <2>5. QED BY <1>1, <2>1, <2>2, <2>3, <2>4 DEF AllFit
<1>5. QED BY <1>2, <1>3, <1>4

LEMMA CopyFits ==
  ASSUME TypeOK, AllFit, NEW s \in Slot,
         \/ \E b \in Browser : SetUser(b, s) \/ Boot(b, s) \/ TimerFires(b, s)
         \/ BrickPush(s) \/ Serve(s) \/ GiveUp(s)
  PROVE  AllFit'
<1> USE DEF TypeOK
<1> DEFINE PutFits == \A t \in Slot : Fits(put'[t].snap, given) /\ Fits(put'[t].base, given)
<1>1. put[s].snap \in Snapshot /\ put[s].base \in Snapshot /\ put[s] \in Put
  BY PutParts
<1>2. Fits(NoPut.snap, given) /\ Fits(NoPut.base, given)
  BY EmptyFits DEF NoPut
<1>3. ASSUME NEW p, put' = [put EXCEPT ![s] = p], Fits(p.snap, given), Fits(p.base, given)
      PROVE  PutFits
  BY <1>3 DEF AllFit
<1>4. ASSUME put' = [put EXCEPT ![s] = NoPut]
      PROVE  PutFits
  BY <1>2, <1>3, <1>4
<1>5. ASSUME NEW by, NEW body, Send(s, by, body), Fits(body, given)
      PROVE  PutFits
  <2> DEFINE p == [NoPut EXCEPT !.at = "sent", !.by = by, !.heard = TRUE, !.snap = body]
  <2>1. p.snap = body /\ p.base = NoPut.base
    BY DEF NoPut
  <2>2. put' = [put EXCEPT ![s] = p]
    BY <1>5 DEF Send
  <2> HIDE DEF p
  <2>3. QED BY <1>2, <1>3, <1>5, <2>1, <2>2
<1>6. ASSUME UNCHANGED <<store, own, saved, row, given>>, PutFits
      PROVE  AllFit'
  BY <1>6 DEF AllFit
<1>7. CASE \E b \in Browser : SetUser(b, s) \/ Boot(b, s) \/ TimerFires(b, s)
  <2>1. UNCHANGED <<store, own, saved, row, given>>
    BY <1>7 DEF SetUser, Boot, TimerFires, brick, account, people
  <2>2. PICK b \in Browser : Send(s, b, store[b]) \/ UNCHANGED put
    BY <1>7 DEF SetUser, Boot, TimerFires
  <2>3. Fits(store[b], given)
    BY DEF AllFit
  <2>4. PutFits
    BY <1>5, <2>2, <2>3 DEF AllFit
  <2>5. QED BY <1>6, <2>1, <2>4
<1>8. CASE BrickPush(s)
  <2>1. UNCHANGED <<store, own, saved, row, given>> 
    BY <1>8 DEF BrickPush, device, account, people
  <2>2. PICK x \in saved : Send(s, Brick, x)
    BY <1>8 DEF BrickPush
  <2>3. PutFits
    BY <1>5, <2>2 DEF AllFit
  <2>4. QED BY <1>6, <2>1, <2>3
<1>9. CASE ReadRow(s)
  <2>1. UNCHANGED <<store, own, saved, row, given>>
    BY <1>9 DEF ReadRow, device, brick, account, people
  <2> DEFINE p == [put[s] EXCEPT !.at = "read", !.base = row, !.update = inserted]
  <2>2. put' = [put EXCEPT ![s] = p]
    BY <1>9 DEF ReadRow
  <2>3. p.snap = put[s].snap /\ p.base = row
    BY <1>1 DEF Put
  <2> HIDE DEF p
  <2>4. PutFits
    BY <1>3, <2>2, <2>3 DEF AllFit
  <2>5. QED BY <1>6, <2>1, <2>4
<1>10. CASE WriteRow(s)
  <2>1. UNCHANGED <<store, own, saved, given>> /\ row' = Merge(put[s].base, put[s].snap)
    BY <1>10 DEF WriteRow, device, brick, people
  <2>2. Fits(row', given)
    BY <1>1, <2>1, MergeFits DEF Merge, AllFit
  <2> DEFINE p == [NoPut EXCEPT !.at = "written", !.by = put[s].by, !.heard = put[s].heard]
  <2>3. put' = [put EXCEPT ![s] = p]
    BY <1>10 DEF WriteRow
  <2>4. p.snap = NoPut.snap /\ p.base = NoPut.base
    BY DEF NoPut
  <2> HIDE DEF p
  <2>5. PutFits
    BY <1>2, <1>3, <2>3, <2>4
  <2>6. QED BY <2>1, <2>2, <2>5 DEF AllFit
<1>11. CASE RereadRow(s)
  <2>1. UNCHANGED <<store, own, saved, row, given>>
    BY <1>11 DEF RereadRow, device, brick, account, people
  <2> DEFINE p == [put[s] EXCEPT !.at = "replied", !.snap = row]
  <2>2. put' = [put EXCEPT ![s] = p]
    BY <1>11 DEF RereadRow
  <2>3. p.snap = row /\ p.base = put[s].base
    BY <1>1 DEF Put
  <2> HIDE DEF p
  <2>4. PutFits
    BY <1>3, <2>2, <2>3 DEF AllFit
  <2>5. QED BY <1>6, <2>1, <2>4
<1>12. CASE Apply(s)
  <2>1. PICK e : store' = [store EXCEPT ![put[s].by] = [put[s].snap EXCEPT !.session = e]]
    BY <1>12 DEF Apply
  <2>2. Fits([put[s].snap EXCEPT !.session = e], given)
    BY <1>1, KeptParts DEF AllFit
  <2>3. \A b \in Browser : Fits(store'[b], given)
    BY <2>1, <2>2 DEF AllFit
  <2>4. UNCHANGED <<own, saved, row, given>> /\ put' = [put EXCEPT ![s] = NoPut]
    BY <1>12 DEF Apply, brick, account, people
  <2>5. QED BY <1>4, <2>3, <2>4 DEF AllFit
<1>13. ASSUME NEW parses \in BOOLEAN, BrickMerge(s, parses)
       PROVE  AllFit'
  <2>1. UNCHANGED <<store, row, given>> /\ put' = [put EXCEPT ![s] = NoPut]
        /\ own' \in {own, MergeRemote(own, put[s].snap)} /\ saved' \in Saves(own', saved)
    BY <1>13 DEF BrickMerge, device, account, people
  <2>2. Fits(own', given)
    BY <1>1, <2>1, MergeFits DEF MergeRemote, AllFit
  <2>3. \A x \in saved' : Fits(x, given)
    BY <2>1, <2>2 DEF Saves, AllFit
  <2>4. QED BY <1>4, <2>1, <2>2, <2>3 DEF AllFit
<1>14. CASE Fail(s)
  BY <1>4, <1>6, <1>14 DEF Fail, account, people
<1>15. CASE GiveUp(s)
  <2>1. UNCHANGED <<store, own, saved, row, given>>
    BY <1>15 DEF GiveUp, account, people
  <2> DEFINE p == [put[s] EXCEPT !.heard = FALSE]
  <2>2. put' = [put EXCEPT ![s] = p]
    BY <1>15 DEF GiveUp
  <2>3. p.snap = put[s].snap /\ p.base = put[s].base
    BY <1>1 DEF Put
  <2> HIDE DEF p
  <2>4. PutFits
    BY <1>3, <2>2, <2>3 DEF AllFit
  <2>5. QED BY <1>6, <2>1, <2>4
<1>16. QED
  BY <1>7, <1>8, <1>9, <1>10, <1>11, <1>12, <1>13, <1>14, <1>15
     DEF Serve, BrickMergeSome

LEMMA OtherFits ==
  ASSUME TypeOK, AllFit,
         \/ \E b \in Browser : Reload(b) \/ Logout(b) \/ BootSignedOut(b)
         \/ \E b \in Browser, mock \in BOOLEAN, got \in SUBSET Badge : EndSession(b, mock, got)
         \/ \E ok \in BOOLEAN : BrickPull(ok)
         \/ BrickStops \/ UNCHANGED vars
  PROVE  AllFit'
<1>1. ASSUME NEW b \in Browser, Reload(b)
      PROVE  AllFit'
  <2>1. \A s \in Slot : put'[s].snap = put[s].snap /\ put'[s].base = put[s].base
    BY <1>1, PutParts DEF Reload, Put
  <2>2. UNCHANGED <<store, own, saved, row, given>>
    BY <1>1 DEF Reload, brick, account
  <2>3. QED BY <2>1, <2>2 DEF AllFit
<1>2. ASSUME NEW b \in Browser, Logout(b) \/ BootSignedOut(b)
      PROVE  AllFit'
  BY <1>2 DEF Logout, BootSignedOut, brick, account, people, AllFit
<1>3. ASSUME NEW b \in Browser, NEW mock \in BOOLEAN, NEW got \in SUBSET Badge, EndSession(b, mock, got)
      PROVE  AllFit'
  <2>1. store' = [store EXCEPT ![b] = Ended(Awarded(store[b], got), mock)]
        /\ UNCHANGED <<own, saved, row, put, given>>
    BY <1>3 DEF EndSession, brick, account
  <2>2. now \in Nat /\ store[b] \in Snapshot
    BY DEF TypeOK
  <2>3. Awarded(store[b], got) \in Snapshot
    BY <2>2, AwardedType
  <2>4. Fits(Ended(Awarded(store[b], got), mock), given)
    BY <2>2, <2>3, KeptParts DEF AllFit
  <2>5. QED BY <2>1, <2>4 DEF AllFit, TypeOK
<1>4. ASSUME NEW ok \in BOOLEAN, BrickPull(ok)
      PROVE  AllFit'
  <2>1. UNCHANGED <<store, row, put, given>> /\ own' \in {Reloaded, MergeRemote(Reloaded, row)}
    BY <1>4 DEF BrickPull, device, account
  <2>2. own \in Snapshot /\ row \in Snapshot /\ given \in Snapshot /\ OneFile(saved)
    BY DEF TypeOK, OneFile
  <2>3. Reloaded \in Snapshot /\ Fits(Reloaded, given)
    BY <2>2, ReloadedType DEF AllFit, Reloaded
  <2>4. Fits(MergeRemote(Reloaded, row), given)
    BY <2>2, <2>3, MergeFits DEF MergeRemote, AllFit
  <2>5. own' \in Snapshot /\ Fits(own', given)
    BY <2>1, <2>2, <2>3, <2>4, MergeRemoteType
  <2>6. saved' \subseteq {own', Reloaded}
    BY <1>4, <2>2, <2>5, PullFile
  <2>7. QED BY <2>1, <2>3, <2>5, <2>6 DEF AllFit
<1>5. CASE BrickStops \/ UNCHANGED vars
  BY <1>5 DEF BrickStops, vars, device, brick, account, people, AllFit
<1>6. QED BY <1>1, <1>2, <1>3, <1>4, <1>5

\* progress-merge.js, account.js and sync.cpp: however often the same answers
\* are sent, merged and handed back, no copy counts one of them twice.
THEOREM NoAnswerCountsTwice == Spec => []NothingInvented
<1> DEFINE Inv == TypeOK /\ AllFit
<1>1. Init => Inv
  <2> SUFFICES ASSUME Init PROVE AllFit
    BY TypeInit
  <2>1. Fits(Empty, given)
    BY EmptyType, EmptyFits DEF Init
  <2>2. QED BY <2>1 DEF Init, AllFit, NoPut
<1>2. Inv /\ [Next]_vars => Inv'
  <2> SUFFICES ASSUME TypeOK, AllFit, [Next]_vars PROVE AllFit'
    BY TypeStep
  <2>1. CASE UserStep
    BY <2>1, StudyFits, CopyFits, OtherFits DEF UserStep
  <2>2. CASE ~UserStep
    BY <2>2, CopyFits, OtherFits DEF Next, BootSome, TimerFiresSome, BrickPushSome
  <2>3. QED BY <2>1, <2>2
<1>3. Inv => NothingInvented
  BY AllFitMeans
<1>4. QED BY <1>1, <1>2, <1>3, PTL DEF Spec

-----------------------------------------------------------------------------
(* What merges keep. *)

\* progress.js, saveMergedProgress: a handler that writes over the row it read
\* loses nothing of that row and nothing of what the device sent.
THEOREM AloneLosesNothing == Spec => LoneWriteKeeps
<1>1. ASSUME TypeOK, NEW s \in Slot, WriteRow(s), put[s].base = row
      PROVE  Covers(row', row) /\ Covers(row', put[s].snap)
  <2>1. row' = Merge(row, put[s].snap)
    BY <1>1 DEF WriteRow
  <2>2. row \in Snapshot /\ put[s].snap \in Snapshot
    BY <1>1, PutParts DEF TypeOK
  <2>3. QED BY <2>1, <2>2, MergeKeepsBoth
<1>2. TypeOK => [ \A s \in Slot :
                    WriteRow(s) /\ put[s].base = row =>
                      Covers(row', row) /\ Covers(row', put[s].snap) ]_vars
  BY <1>1
<1>3. QED BY <1>2, TypeCorrect, PTL DEF LoneWriteKeeps

LEMMA RemoteKeepsOwn ==
  ASSUME NEW x \in Snapshot, NEW r \in Snapshot
  PROVE  SrCovers(MergeRemote(x, r), x)
<1> DEFINE m == MergeRemote(x, r)
<1>1. ASSUME NEW i \in Item
      PROVE  ~Weaker(m.cards[i], x.cards[i]) /\ TallyCovers(m.seen[i], x.seen[i])
  <2>1. m.cards[i] = Stronger(x.cards[i], r.cards[i]) /\ m.seen[i] = Most(x.seen[i], r.seen[i])
    BY DEF MergeRemote, MergeSr
  <2>2. x.cards[i] \in Card /\ r.cards[i] \in Card /\ x.seen[i] \in Tally /\ r.seen[i] \in Tally
    BY SnapshotParts
  <2> HIDE DEF m
  <2>3. QED BY <2>1, <2>2, StrongerBounds, MostBounds
<1>2. ASSUME NEW c \in Chapter
      PROVE  TallyCovers(m.chapters[c], x.chapters[c])
  <2>1. m.chapters[c] = Most(x.chapters[c], r.chapters[c])
    BY DEF MergeRemote, MergeSr
  <2>2. x.chapters[c] \in Tally /\ r.chapters[c] \in Tally
    BY SnapshotParts
  <2> HIDE DEF m
  <2>3. QED BY <2>1, <2>2, MostBounds
<1>3. x.days \subseteq m.days
  BY DEF MergeRemote, MergeSr
<1> HIDE DEF m
<1>4. SrCovers(m, x)
  BY <1>1, <1>2, <1>3 DEF SrCovers
<1>5. QED BY <1>4 DEF m

LEMMA CoversItself ==
  ASSUME NEW x \in Snapshot
  PROVE  SrCovers(x, x)
<1>1. \A c \in Card : ~Weaker(c, c)
  BY DEF Weaker, Card
<1>2. \A t \in Tally : TallyCovers(t, t)
  BY DEF TallyCovers, Tally
<1>3. QED BY <1>1, <1>2, SnapshotParts DEF SrCovers

LEMMA CoversOn ==
  ASSUME NEW x \in Snapshot, NEW y \in Snapshot, NEW z \in Snapshot, SrCovers(x, y), SrCovers(y, z)
  PROVE  SrCovers(x, z)
<1>1. \A c, d, e \in Card : ~Weaker(c, d) /\ ~Weaker(d, e) => ~Weaker(c, e)
  BY DEF Weaker, Card
<1>2. \A t, u, v \in Tally : TallyCovers(t, u) /\ TallyCovers(u, v) => TallyCovers(t, v)
  BY DEF TallyCovers, Tally
<1>3. ASSUME NEW i \in Item
      PROVE  ~Weaker(x.cards[i], z.cards[i]) /\ TallyCovers(x.seen[i], z.seen[i])
  <2>1. /\ x.cards[i] \in Card /\ y.cards[i] \in Card /\ z.cards[i] \in Card
        /\ x.seen[i] \in Tally /\ y.seen[i] \in Tally /\ z.seen[i] \in Tally
    BY SnapshotParts
  <2>2. QED BY <1>1, <1>2, <2>1 DEF SrCovers
<1>4. ASSUME NEW c \in Chapter
      PROVE  TallyCovers(x.chapters[c], z.chapters[c])
  <2>1. x.chapters[c] \in Tally /\ y.chapters[c] \in Tally /\ z.chapters[c] \in Tally
    BY SnapshotParts
  <2>2. QED BY <1>2, <2>1 DEF SrCovers
<1>5. z.days \subseteq x.days
  BY DEF SrCovers
<1>6. QED BY <1>3, <1>4, <1>5 DEF SrCovers

\* Between the reload and the last save of a sync RAM holds what the card does.
SyncHolds == phase # "idle" => \A x \in saved : SrCovers(own, x)

Kept ==
  phase # "idle" \/ phase' # "idle" =>
    /\ \A x \in saved : SrCovers(own', x)
    /\ \A x \in saved, y \in saved' : SrCovers(y, x)

LEMMA SyncHoldsStep ==
  ASSUME TypeOK, SyncHolds, [Next]_vars
  PROVE  SyncHolds' /\ [Kept]_vars
<1>1. /\ own \in Snapshot /\ row \in Snapshot /\ OneFile(saved)
      /\ \A s \in Slot : put[s].snap \in Snapshot
  BY PutParts DEF TypeOK, OneFile
<1>2. \A x \in saved : SrCovers(x, x) /\ \A y \in saved : SrCovers(y, x)
  BY <1>1, CoversItself DEF OneFile
<1>3. ASSUME NEW ok \in BOOLEAN, BrickPull(ok)
      PROVE  SyncHolds' /\ Kept
  <2>1. Reloaded \in Snapshot /\ \A x \in saved : Reloaded = x
    BY <1>1, ReloadedType
  <2>2. own' \in Snapshot /\ SrCovers(own', Reloaded)
    BY <1>1, <1>3, <2>1, MergeRemoteType, RemoteKeepsOwn, CoversItself DEF BrickPull
  <2>3. saved' \subseteq {own', Reloaded}
    BY <1>1, <1>3, <2>2, PullFile
  <2>4. SrCovers(own', own') /\ SrCovers(Reloaded, Reloaded)
    BY <2>1, <2>2, CoversItself
  <2>5. QED BY <2>1, <2>2, <2>3, <2>4 DEF SyncHolds, Kept
<1>4. ASSUME NEW s \in Slot, NEW parses \in BOOLEAN, BrickMerge(s, parses)
      PROVE  SyncHolds' /\ Kept
  <2>1. phase' = "idle" /\ saved' \in Saves(own', saved)
    BY <1>4 DEF BrickMerge
  <2>2. own' \in Snapshot /\ SrCovers(own', own)
    BY <1>1, <1>4, MergeRemoteType, RemoteKeepsOwn, CoversItself DEF BrickMerge
  <2>3. ASSUME phase # "idle", NEW x \in saved
        PROVE  SrCovers(own', x)
    BY <1>1, <2>2, <2>3, CoversOn DEF SyncHolds, OneFile
  <2>4. QED BY <1>2, <2>1, <2>3 DEF SyncHolds, Kept, Saves
<1>5. ASSUME NEW i \in Item, NEW good \in BOOLEAN, BrickStudy(i, good)
      PROVE  SyncHolds' /\ Kept
  BY <1>5 DEF BrickStudy, SyncHolds, Kept
<1>6. ASSUME UNCHANGED <<own, saved>>, phase = "idle" => phase' = "idle"
      PROVE  SyncHolds' /\ Kept
  BY <1>2, <1>6 DEF SyncHolds, Kept
<1>7. CASE UserStep
  BY <1>3, <1>5, <1>6, <1>7 DEF UserStep, Study, NoteHeat, EndSession, Reload, Logout, SetUser, brick
<1>8. ASSUME NEW s \in Slot, Serve(s) \/ GiveUp(s)
      PROVE  SyncHolds' /\ Kept
  BY <1>4, <1>6, <1>8 DEF Serve, BrickMergeSome, ReadRow, WriteRow, RereadRow, Apply, Fail, GiveUp, brick
<1>9. CASE (\E b \in Browser : BootSome(b) \/ TimerFiresSome(b)) \/ BrickPushSome
  BY <1>6, <1>9 DEF BootSome, TimerFiresSome, BrickPushSome, Boot, BootSignedOut, TimerFires,
     BrickPush, BrickStops, brick
<1>10. CASE UNCHANGED vars
  BY <1>10 DEF vars, brick, SyncHolds
<1>11. QED BY <1>7, <1>8, <1>9, <1>10 DEF Next

\* sync.cpp, pullPushProgress: no sync, whole or broken off, takes from the
\* brick what its card held, whatever becomes of the saves.
THEOREM SyncTakesNothing == Spec => SyncKeepsSaved
<1>1. Init => SyncHolds
  BY DEF Init, SyncHolds
<1>2. TypeOK /\ SyncHolds /\ [Next]_vars => SyncHolds' /\ [Kept]_vars
  BY SyncHoldsStep
<1>3. QED BY <1>1, <1>2, TypeCorrect, PTL DEF Spec, SyncKeepsSaved, Kept

-----------------------------------------------------------------------------
(* The brick's card: PocketStore, for every set of answers. *)
LEMMA CardFileTypes == /\ Missing \in File /\ Torn \in File
                   /\ \A s \in Progress : Whole(s) \in File
BY DEF File, Missing, Torn, Whole, Progress

LEMMA CardTypeInit == PocketInit => PocketTypeOK
BY CardFileTypes DEF PocketInit, PocketTypeOK, Progress

Refusals == {"write", "flush", "remove", "rename"}

LEMMA CardTypeStep ==
  ASSUME PocketTypeOK, [PocketNext]_pocketVars
  PROVE  PocketTypeOK'
<1> USE DEF PocketTypeOK
<1>1. CASE UNCHANGED pocketVars
  <2>1. UNCHANGED <<power, ram, file, tmp, step, sync, upload, known, safe, refused>>
    BY <1>1 DEF pocketVars, card, net, history
  <2>2. QED BY <2>1
<1>2. CASE Clean \/ Write
  <2>1. UNCHANGED <<power, ram, file, sync, upload, known, safe, refused>> /\ power
    BY <1>2 DEF Clean, Write, net, history
  <2>2. step' \in {"write", "close"} /\ tmp' \in File
    BY <1>2, CardFileTypes DEF Clean, Write
  <2>3. QED BY <2>1, <2>2
<1>3. CASE CloseTmp
  <2>1. UNCHANGED <<power, ram, file, sync, upload, known, safe>> /\ step' = "remove" /\ power
    BY <1>3 DEF CloseTmp, net
  <2>2. tmp' \in File /\ refused' \subseteq Refusals
    BY <1>3, CardFileTypes DEF CloseTmp, Progress, Refusals
  <2>3. "flush" \notin refused' => Complete(tmp')
    BY <1>3 DEF CloseTmp, Whole, Complete
  <2>4. QED BY <2>1, <2>2, <2>3 DEF Refusals
<1>4. CASE WriteFails \/ RenameFails
  <2>1. tmp' \in File /\ UNCHANGED <<power, ram, file, upload, known, safe>> /\ power
    BY <1>4, CardFileTypes DEF WriteFails, RenameFails, SaveFails, card
  <2>2. /\ step' \in {"none", "clean"}
        /\ sync' \in {"none", "get", "put", "sent", "reply", "last", "retry"}
    BY <1>4 DEF WriteFails, RenameFails, SaveFails
  <2>3. refused' \subseteq Refusals
    BY <1>4 DEF WriteFails, RenameFails, Refusals
  <2>4. QED BY <2>1, <2>2, <2>3 DEF Refusals
<1>5. CASE Remove \/ Rename
  <2>1. UNCHANGED <<power, ram, upload, known>> /\ safe' \in Progress /\ power
    BY <1>5 DEF Remove, Rename, File, net
  <2>2. file' \in File /\ tmp' \in File
    BY <1>5, CardFileTypes DEF Remove, Rename
  <2>3. /\ step' \in {"none", "rename"} /\ refused' \subseteq Refusals
        /\ step' = "rename" /\ "flush" \notin refused' => Complete(tmp')
    BY <1>5 DEF Remove, Rename, Refusals
  <2>4. sync' \in {"none", "get", "put", "sent", "reply", "last", "retry"}
    BY <1>5 DEF Remove, Rename, net
  <2>5. QED BY <2>1, <2>2, <2>3, <2>4 DEF Refusals
<1>6. ASSUME NEW a \in Answer, GradeOne(a)
      PROVE  PocketTypeOK'
  BY <1>6 DEF GradeOne, StartSave, Progress, card, net, history, Idle
<1>7. Loaded \in Progress
  BY DEF Loaded, File
<1>8. CASE PowerCut \/ PowerOn
  <2>1. UNCHANGED <<file, tmp, known>> /\ step' = "none" /\ sync' \in {"none", sync}
    BY <1>8 DEF PowerCut, PowerOn, card, net
  <2>2. power' \in BOOLEAN /\ ram' \in Progress /\ upload' \in Progress
    BY <1>7, <1>8 DEF PowerCut, PowerOn, Progress, net
  <2>3. safe' \in Progress /\ refused' \in {refused, {}}
    BY <1>7, <1>8 DEF PowerCut, PowerOn, history
  <2>4. QED BY <2>1, <2>2, <2>3
<1>9. CASE SyncBegin
  <2>1. UNCHANGED <<power, file, tmp, upload, known, safe, refused>> /\ ram' \in Progress /\ power
    BY <1>7, <1>9 DEF SyncBegin, card, history, Idle
  <2>2. step' \in {"none", "clean"} /\ sync' = "get"
    BY <1>9 DEF SyncBegin, StartSave, Idle
  <2>3. QED BY <2>1, <2>2
<1>10. CASE GetMerges \/ GetFails \/ PutSends
  BY <1>10 DEF GetMerges, GetFails, PutSends, StartSave, card, history, Idle, Progress, File
<1>11. CASE AccountMerges \/ SyncStops
  BY <1>11 DEF AccountMerges, SyncStops, card, history, Idle, Progress
<1>12. ASSUME NEW parses \in BOOLEAN, ReplyMerges(parses)
       PROVE  PocketTypeOK'
  BY <1>12 DEF ReplyMerges, StartSave, card, history, Idle, Progress
<1>13. QED
  BY <1>1, <1>2, <1>3, <1>4, <1>5, <1>6, <1>8, <1>9, <1>10, <1>11, <1>12 DEF PocketNext,
     Save, Sync

\* Every reachable state is well typed, and nothing but a whole tmp is renamed
\* as long as the card refuses no flush.
THEOREM PocketTypeCorrect == PocketSpec => []PocketTypeOK
BY CardTypeInit, CardTypeStep, PTL DEF PocketSpec

\* sd_store.cpp, sdReplace: only a flush the card refused at a close tears
\* progress.json, whatever else it refuses and whenever power goes.
THEOREM TornByFlushOnly == PocketSpec => OnlyFlushTears
<1>1. ASSUME PocketTypeOK, [PocketNext]_pocketVars
      PROVE  [file' = Torn => file = Torn \/ "flush" \in refused]_pocketVars
  <2>1. CASE Remove
    BY <1>1, <2>1 DEF Remove, Missing, Torn
  <2>2. CASE Rename
    BY <1>1, <2>2 DEF Rename, PocketTypeOK, Complete, Torn
  <2>3. ~Remove /\ ~Rename => UNCHANGED file
    BY <1>1 DEF PocketNext, Save, Sync, Clean, Write, CloseTmp, WriteFails, RenameFails,
           GradeOne, PowerCut, PowerOn, SyncBegin, GetMerges, GetFails, PutSends,
           AccountMerges, ReplyMerges, SyncStops, card, pocketVars
  <2>4. QED BY <2>1, <2>2, <2>3
<1>2. QED BY <1>1, PocketTypeCorrect, PTL DEF PocketSpec, OnlyFlushTears

-----------------------------------------------------------------------------
(* What is on the card when power goes. *)

Harmless == refused \subseteq {"write", "remove"}

\* A save past its close holds RAM in its tmp; until the rename is due the last
\* save is in progress.json, and past a refused remove it still is; between
\* saves RAM is what was saved.
CardInv ==
  /\ ~power => ram = {}
  /\ step \in {"remove", "rename"} /\ "flush" \notin refused => tmp = Whole(ram)
  /\ step = "rename" /\ refused = {} => file = Missing
  /\ power /\ Harmless /\ (step # "rename" \/ file # Missing) => safe \subseteq OnCard
  /\ power /\ refused = {} => safe \subseteq ram
  /\ power /\ refused = {} /\ step = "none" => ram = safe /\ (Complete(file) => file.has = ram)

StoreInv == PocketTypeOK /\ CardInv

LEMMA CardInit == PocketInit => CardInv
BY DEF PocketInit, CardInv, Harmless, OnCard, Missing, Complete

LEMMA CardStep ==
  ASSUME StoreInv, [PocketNext]_pocketVars
  PROVE  CardInv'
<1> USE DEF StoreInv, CardInv, Harmless, OnCard, PocketTypeOK
<1>1. CASE UNCHANGED pocketVars
  BY <1>1 DEF pocketVars, card, net, history
<1>2. CASE Clean \/ Write \/ CloseTmp
  BY <1>2 DEF Clean, Write, CloseTmp, Missing, Torn, Whole, Complete, net, history
<1>3. CASE WriteFails \/ RenameFails
  BY <1>3 DEF WriteFails, RenameFails, SaveFails, card
<1>4. CASE Remove
  BY <1>4 DEF Remove, Missing, Whole, Complete, net
<1>5. CASE Rename
  BY <1>5 DEF Rename, Missing, Whole, Complete, net
<1>6. ASSUME NEW a \in Answer, GradeOne(a)
      PROVE  CardInv'
  BY <1>6 DEF GradeOne, StartSave, card, net, history, Idle
<1>7. CASE PowerCut
  BY <1>7 DEF PowerCut, card, history
<1>8. CASE PowerOn
  BY <1>8 DEF PowerOn, Loaded, Complete, card
<1>9. CASE SyncBegin
  BY <1>9 DEF SyncBegin, StartSave, Loaded, Complete, Missing, card, Idle, history
<1>10. CASE GetMerges \/ GetFails \/ PutSends
  BY <1>10 DEF GetMerges, GetFails, PutSends, StartSave, card, history, Idle
<1>11. CASE AccountMerges \/ SyncStops
  BY <1>11 DEF AccountMerges, SyncStops, card, history, Idle
<1>12. ASSUME NEW parses \in BOOLEAN, ReplyMerges(parses)
       PROVE  CardInv'
  BY <1>12 DEF ReplyMerges, StartSave, card, history, Idle
<1>13. QED
  BY <1>1, <1>2, <1>3, <1>4, <1>5, <1>6, <1>7, <1>8, <1>9, <1>10, <1>11, <1>12 DEF
         PocketNext, Save, Sync

LEMMA StoreStep == StoreInv /\ [PocketNext]_pocketVars => StoreInv'
BY CardTypeStep, CardStep DEF StoreInv

\* sd_store.cpp, sdReplace: unless the card refuses a flush or a rename, the
\* last save is in the file a boot reads at every instant but the one between
\* the remove and the rename.
THEOREM FileAlwaysKeepsSave == PocketSpec => []FileKeepsSave
<1>1. PocketInit => StoreInv
  BY CardTypeInit, CardInit DEF StoreInv
<1>2. StoreInv => FileKeepsSave
  BY DEF StoreInv, CardInv, FileKeepsSave, Harmless
<1>3. QED BY <1>1, <1>2, StoreStep, PTL DEF PocketSpec

\* sync.cpp, pullPushProgress: the reload a sync begins with drops no answer,
\* since everything graded before it was saved.
THEOREM SyncDropsNothing == PocketSpec => NothingDropped
<1>1. PocketInit => StoreInv
  BY CardTypeInit, CardInit DEF StoreInv
<1>2. ASSUME StoreInv, [PocketNext]_pocketVars
      PROVE  [power /\ power' /\ refused = {} => ram \subseteq ram']_pocketVars
  <2>1. SUFFICES ASSUME power, power', refused = {}, PocketNext
                 PROVE  ram \subseteq ram'
    BY <1>2
  <2>2. CASE SyncBegin
    BY <1>2, <2>1, <2>2 DEF SyncBegin, StoreInv, CardInv, Idle, Loaded
  <2>3. CASE Save \/ GetMerges \/ GetFails \/ PutSends \/ AccountMerges \/ SyncStops
    BY <2>3 DEF Save, Clean, Write, CloseTmp, WriteFails, Remove, Rename, RenameFails,
           SaveFails, GetMerges, GetFails, PutSends, AccountMerges, SyncStops
  <2>4. ASSUME NEW parses \in BOOLEAN, ReplyMerges(parses)
        PROVE  ram \subseteq ram'
    BY <2>4 DEF ReplyMerges
  <2>5. ASSUME NEW a \in Answer, GradeOne(a)
        PROVE  ram \subseteq ram'
    BY <2>5 DEF GradeOne
  <2>6. ~PowerCut /\ ~PowerOn
    BY <2>1 DEF PowerCut, PowerOn
  <2>7. QED BY <2>1, <2>2, <2>3, <2>4, <2>5, <2>6 DEF PocketNext, Sync
<1>3. QED BY <1>1, <1>2, StoreStep, PTL DEF PocketSpec, NothingDropped
=============================================================================

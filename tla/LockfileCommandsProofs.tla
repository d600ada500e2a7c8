------------------------ MODULE LockfileCommandsProofs ------------------------
(***************************************************************************)
(* The safety properties of RootLock and LockfileCommands, for any number  *)
(* of commands, tools and toolsets, and any manifests.                     *)
(*                                                                         *)
(* Of the lock: whoever relies on it is the owner of the file that is      *)
(* there, until one is stolen.  Of the lockfile: wherever a copy of it is  *)
(* kept, its entries are sound, and they are in step with the manifest     *)
(* whose digest the copy has.                                              *)
(***************************************************************************)
EXTENDS LockfileCommands, TLAPS

----------------------------------------------------------------------------
(* The lock.                                                               *)

InsideOwns ==
  ~stolen => \A p \in Procs : pc[p] \in Inside => lock # NoLock /\ lock.owner = p

LockInv == LockTypeOK /\ InsideOwns

LEMMA LockInitInvariant == LockInit => LockInv
BY DEF LockInit, LockInv, LockTypeOK, InsideOwns, Inside

\* A new file makes its creator the owner.
LEMMA CreatedIsOwned ==
  ASSUME LockInv, NEW p \in Procs, lock = NoLock,
         lock' = [owner |-> p, written |-> FALSE], Goto(p, "created"),
         UNCHANGED <<seen, unlock, stolen>>
  PROVE  LockInv'
<1>1. lock' \in LockFile /\ lock' # NoLock
  BY DEF LockFile, NoLock
<1>2. LockTypeOK'
  BY <1>1 DEF LockInv, LockTypeOK, Goto, Inside
<1>3. InsideOwns'
  BY <1>1 DEF LockInv, LockTypeOK, InsideOwns, Goto, Inside
<1> QED
  BY <1>2, <1>3 DEF LockInv

\* One step of a command keeps it.
LEMMA LockStepInvariant ==
  ASSUME LockInv, NEW p \in Procs, LockStep(p)
  PROVE  LockInv'
<1> USE DEF LockInv
<1>1. CASE Create(p)
  BY <1>1, CreatedIsOwned DEF Create
<1>2. CASE Look(p)
  <2>1. lock.owner \in Procs
    BY <1>2 DEF Look, LockTypeOK, LockFile
  <2> QED
    BY <1>2, <2>1 DEF Look, LockTypeOK, InsideOwns, Goto, Inside, Gone
<1>8. CASE Judge(p)
  BY <1>8 DEF Judge, LockTypeOK, InsideOwns, Goto, Inside, Nobody
<1>3. CASE ClearStale(p)
  BY <1>3 DEF ClearStale, Unlink, OwnerInside, LockTypeOK, InsideOwns, Goto, Inside
<1>4. CASE Retry(p)
  <2>1. CASE lock = NoLock
    BY <1>4, <2>1, CreatedIsOwned DEF Retry
  <2>2. CASE lock # NoLock
    BY <1>4, <2>2 DEF Retry, LockTypeOK, InsideOwns, Goto, Inside
  <2> QED
    BY <2>1, <2>2
<1>5. CASE WriteInfo(p)
  <2>1. CASE lock # NoLock /\ lock.owner = p
    <3>1. lock \in LockFile
      BY <2>1 DEF LockTypeOK
    <3>2. lock' = [lock EXCEPT !.written = TRUE]
      BY <1>5, <2>1 DEF WriteInfo
    <3>3. lock' \in LockFile /\ lock' # NoLock /\ lock'.owner = p
      BY <2>1, <3>1, <3>2 DEF LockFile, NoLock
    <3> QED
      BY <1>5, <2>1, <3>3 DEF WriteInfo, LockTypeOK, InsideOwns, Goto, Inside
  <2>2. CASE ~(lock # NoLock /\ lock.owner = p)
    BY <1>5, <2>2 DEF WriteInfo, LockTypeOK, InsideOwns, Goto, Inside
  <2> QED
    BY <2>1, <2>2
<1>6. CASE Release(p)
  BY <1>6 DEF Release, Ends, Nobody, Gone, Unlink, OwnerInside, LockTypeOK, InsideOwns,
              Goto, Inside
<1>7. CASE Crash(p)
  BY <1>7 DEF Crash, Ends, Nobody, Gone, LockTypeOK, InsideOwns, Goto, Inside
<1> QED
  BY <1>1, <1>2, <1>3, <1>4, <1>5, <1>6, <1>7, <1>8 DEF LockStep

\* So does an unlock.
LEMMA UnlockInvariant ==
  ASSUME LockInv, BeginUnlock \/ EndUnlock
  PROVE  LockInv'
<1>1. CASE BeginUnlock
  BY <1>1 DEF BeginUnlock, LockInv, LockTypeOK, InsideOwns
<1>2. CASE EndUnlock
  BY <1>2 DEF EndUnlock, Unlink, OwnerInside, LockInv, LockTypeOK, InsideOwns, Inside
<1> QED
  BY <1>1, <1>2

\* A lock that was stolen stays stolen.
LEMMA StolenStays ==
  ASSUME LockInv, LockNext
  PROVE  stolen => stolen'
BY DEF LockInv, LockTypeOK, LockNext, LockStep, Create, Look, Judge, ClearStale, Retry,
       WriteInfo, Release, Crash, BeginUnlock, EndUnlock, Unlink

LEMMA OwnerIsAlone == LockInv => Exclusive
BY DEF LockInv, InsideOwns, Exclusive

LEMMA LockInvariant == LockInv /\ [LockNext]_lockVars => LockInv'
<1> SUFFICES ASSUME LockInv, [LockNext]_lockVars PROVE LockInv'
  OBVIOUS
<1>1. CASE UNCHANGED lockVars
  BY <1>1 DEF lockVars, LockInv, LockTypeOK, InsideOwns
<1> QED
  BY <1>1, LockStepInvariant, UnlockInvariant DEF LockNext

LEMMA LockRests ==
  ASSUME LockInv, UNCHANGED lockVars
  PROVE  LockInv'
BY LockInvariant

\* Two commands are never inside the lock of utils/locks.py, as long as no
\* unlink by path removed the lock of a live one.
THEOREM LockIsExclusive == LockSpec => []Exclusive
BY LockInvariant, LockInitInvariant, OwnerIsAlone, PTL DEF LockSpec

\* The lock of a live command is removed for the first time.
FirstTheft == ~stolen /\ stolen'

\* A release removes its own command's lock: the first to lose one loses it to a
\* command that clears what it found stale, or to `state unlock`.  (Who was robbed
\* releases by path too, and then robs another.)
THEOREM ReleasesStealNothing ==
  LockSpec => [][FirstTheft => unlock \/ \E p \in Procs : pc[p] = "clearing"]_lockVars
<1>1. LockInv /\ [LockNext]_lockVars =>
        [FirstTheft => unlock \/ \E p \in Procs : pc[p] = "clearing"]_lockVars
  <2> SUFFICES ASSUME LockInv, LockNext, FirstTheft
               PROVE  unlock \/ \E p \in Procs : pc[p] = "clearing"
    BY DEF lockVars, FirstTheft
  <2>1. ASSUME NEW p \in Procs, Release(p) PROVE FALSE
    BY <2>1 DEF Release, Unlink, OwnerInside, FirstTheft, LockInv, LockTypeOK, InsideOwns,
                Inside
  <2> QED
    BY <2>1 DEF LockNext, LockStep, Create, Look, Judge, ClearStale, Retry, WriteInfo, Crash,
                BeginUnlock, EndUnlock, FirstTheft
<1>2. LockInv /\ [LockNext]_lockVars => LockInv'
  BY LockInvariant
<1> QED
  BY <1>1, <1>2, LockInitInvariant, PTL DEF LockSpec

----------------------------------------------------------------------------
(* Entries.                                                                *)

Reviews == [tool : Tools, content : Contents, risk : Nat]

Reviewed(t, e, R) ==
  \E r \in R : r.tool = t /\ r.content = e.content /\ r.risk >= e.risk

\* An entry is approved for toolsets it has, with status approved for all of
\* them, and who is named as its approver saw what it does.
WellFormed(e) ==
  /\ e \in Entry
  /\ e.approved \subseteq e.toolsets
  /\ e.status = "approved" => e.toolsets \subseteq e.approved

Sound(t, e, R) ==
  e = NoEntry \/ (WellFormed(e) /\ (e.attested => Reviewed(t, e, R)))

LEMMA EntryIsThere ==
  ASSUME NEW e \in Entry
  PROVE  e # NoEntry
BY DEF Entry, NoEntry, Status

LEMMA PayloadIsBound ==
  ASSUME NEW e \in Entry
  PROVE  Payload(e) \in Bound
BY DEF Entry, Payload, Bound

LEMMA SignedEntry ==
  ASSUME NEW e, WellFormed(e)
  PROVE  /\ WellFormed(Signed(e))
         /\ Signed(e).content = e.content /\ Signed(e).risk = e.risk
         /\ Signed(e).attested
BY PayloadIsBound DEF WellFormed, Signed, Entry

\* Approving an entry.
LEMMA ApprovedEntry ==
  ASSUME NEW e, WellFormed(e), NEW scope \in SUBSET e.toolsets
  PROVE  /\ WellFormed(Approve(e, scope))
         /\ Approve(e, scope).content = e.content /\ Approve(e, scope).risk = e.risk
<1> DEFINE approved == IF scope = {} THEN e.toolsets ELSE e.approved \cup scope
           status == IF e.toolsets \subseteq approved THEN "approved"
                     ELSE IF e.status = "rejected" THEN "pending" ELSE e.status
           f == [e EXCEPT !.approved = approved, !.status = status]
<1>1. approved \subseteq e.toolsets /\ e.approved \subseteq approved
  BY DEF WellFormed
<1>2. status \in Status /\ (status = "approved" => e.toolsets \subseteq approved)
  BY <1>1 DEF WellFormed, Entry, Status
<1> HIDE DEF approved, status
<1>3. /\ f \in Entry /\ f.approved = approved /\ f.status = status
      /\ f.toolsets = e.toolsets /\ f.content = e.content /\ f.risk = e.risk
  BY <1>1, <1>2 DEF WellFormed, Entry
<1> HIDE DEF f
<1>4. WellFormed(f)
  BY <1>1, <1>2, <1>3 DEF WellFormed
<1>5. Approve(e, scope) = Signed(f)
  BY DEF Approve, approved, status, f
<1> QED
  BY <1>3, <1>4, <1>5, SignedEntry

\* Blocking one.
LEMMA RejectedEntry ==
  ASSUME NEW e, WellFormed(e)
  PROVE  /\ WellFormed(Reject(e)) /\ ~Reject(e).attested
         /\ Reject(e).content = e.content /\ Reject(e).risk = e.risk
BY DEF WellFormed, Entry, Reject, Status

\* Signing one again: it had an approver before.
LEMMA ResignedEntry ==
  ASSUME NEW e, WellFormed(e), NEW scope
  PROVE  /\ WellFormed(Resign(e, scope))
         /\ Resign(e, scope).content = e.content /\ Resign(e, scope).risk = e.risk
         /\ Resign(e, scope).attested => e.attested
BY SignedEntry DEF Resign

\* The three parts of a sync.  Whatever raises what a tool may do takes the
\* approver's name off.
LEMMA RecontentedEntry ==
  ASSUME NEW e, WellFormed(e), NEW a \in Action
  PROVE  LET f == Recontented(e, a) IN
         /\ WellFormed(f) /\ f.content = a.content /\ f.risk = e.risk
         /\ f.attested => e.attested /\ f.content = e.content
BY DEF WellFormed, Entry, Action, Recontented, Reopened, Status

LEMMA ReriskedEntry ==
  ASSUME NEW e, WellFormed(e), NEW a \in Action
  PROVE  LET f == Rerisked(e, a) IN
         /\ WellFormed(f) /\ f.content = e.content /\ f.risk = a.risk
         /\ f.attested => e.attested /\ a.risk <= e.risk
<1> DEFINE g == [Reopened(e) EXCEPT !.approved = {}]
<1>1. CASE a.risk > e.risk
  <2>1. /\ g \in Entry /\ g.approved = {} /\ g.status = "pending" /\ ~g.attested
        /\ g.content = e.content /\ g.toolsets = e.toolsets
    BY DEF WellFormed, Entry, Reopened, Status
  <2>2. Rerisked(e, a) = [g EXCEPT !.risk = a.risk]
    BY <1>1 DEF Rerisked
  <2> HIDE DEF g
  <2> QED
    BY <2>1, <2>2 DEF WellFormed, Entry, Action
<1>2. CASE ~(a.risk > e.risk)
  <2>1. Rerisked(e, a) = [e EXCEPT !.risk = a.risk]
    BY <1>2 DEF Rerisked
  <2> QED
    BY <1>2, <2>1 DEF WellFormed, Entry, Action
<1> QED
  BY <1>1, <1>2

LEMMA RegroupedEntry ==
  ASSUME NEW e, WellFormed(e), NEW a \in Action
  PROVE  LET f == Regrouped(e, a) IN
         /\ WellFormed(f) /\ f.content = e.content /\ f.risk = e.risk
         /\ f.attested => e.attested
<1> DEFINE kept == [e EXCEPT !.approved = @ \cap a.toolsets, !.toolsets = a.toolsets]
<1>1. /\ kept \in Entry /\ kept.approved = e.approved \cap a.toolsets
      /\ kept.toolsets = a.toolsets /\ kept.content = e.content
      /\ kept.risk = e.risk /\ kept.status = e.status /\ kept.attested = e.attested
  BY DEF WellFormed, Entry, Action
<1>2. Regrouped(e, a) =
        IF a.toolsets # e.toolsets /\ ~(a.toolsets \subseteq kept.approved)
          THEN Reopened(kept) ELSE kept
  BY DEF Regrouped
<1> HIDE DEF kept
<1>3. CASE a.toolsets # e.toolsets /\ ~(a.toolsets \subseteq kept.approved)
  <2>1. /\ Reopened(kept) \in Entry /\ Reopened(kept).status = "pending"
        /\ ~Reopened(kept).attested /\ Reopened(kept).approved = kept.approved
        /\ Reopened(kept).toolsets = kept.toolsets
        /\ Reopened(kept).content = kept.content /\ Reopened(kept).risk = kept.risk
    BY <1>1 DEF Reopened, Entry, Status
  <2>2. Regrouped(e, a) = Reopened(kept)
    BY <1>2, <1>3
  <2> QED
    BY <1>1, <2>1, <2>2 DEF WellFormed
<1>4. CASE ~(a.toolsets # e.toolsets /\ ~(a.toolsets \subseteq kept.approved))
  BY <1>1, <1>2, <1>4 DEF WellFormed
<1> QED
  BY <1>3, <1>4

\* A sync leaves a sound entry with the content and the risk of the manifest.
LEMMA SyncedEntry ==
  ASSUME NEW R \in SUBSET Reviews, NEW t \in Tools,
         NEW e \in Entry \cup {NoEntry}, Sound(t, e, R), NEW a \in Action
  PROVE  LET f == SyncEntry(e, a) IN
         /\ Sound(t, f, R) /\ WellFormed(f)
         /\ f.content = a.content /\ f.risk = a.risk
<1>1. CASE e = NoEntry
  BY <1>1 DEF SyncEntry, NewEntry, Sound, WellFormed, Entry, Action, Status
<1>2. CASE e # NoEntry
  <2> DEFINE f == Recontented(e, a)
             g == Rerisked(f, a)
             h == Regrouped(g, a)
  <2>1. WellFormed(e) /\ (e.attested => Reviewed(t, e, R))
    BY <1>2 DEF Sound
  <2>2. /\ WellFormed(f) /\ f.content = a.content /\ f.risk = e.risk
        /\ f.attested => e.attested /\ f.content = e.content
    BY <2>1, RecontentedEntry
  <2> HIDE DEF f
  <2>3. /\ WellFormed(g) /\ g.content = f.content /\ g.risk = a.risk
        /\ g.attested => f.attested /\ a.risk <= f.risk
    BY <2>2, ReriskedEntry
  <2> HIDE DEF g
  <2>4. /\ WellFormed(h) /\ h.content = g.content /\ h.risk = g.risk
        /\ h.attested => g.attested
    BY <2>3, RegroupedEntry
  <2>5. SyncEntry(e, a) = h
    BY <1>2 DEF SyncEntry, f, g
  <2> HIDE DEF h
  <2>6. ASSUME h.attested PROVE Reviewed(t, h, R)
    <3>1. /\ Reviewed(t, e, R) /\ h.content = e.content /\ h.risk <= e.risk
      BY <2>1, <2>2, <2>3, <2>4, <2>6
    <3>2. PICK r \in R : r.tool = t /\ r.content = e.content /\ r.risk >= e.risk
      BY <3>1 DEF Reviewed
    <3>3. r.risk \in Nat /\ h.risk \in Nat /\ e.risk \in Nat
      BY <2>1, <2>4 DEF WellFormed, Entry, Reviews
    <3>4. r.risk >= h.risk
      BY <3>1, <3>2, <3>3
    <3> QED
      BY <3>1, <3>2, <3>4 DEF Reviewed
  <2> QED
    BY <2>2, <2>3, <2>4, <2>5, <2>6 DEF Sound
<1> QED
  BY <1>1, <1>2

----------------------------------------------------------------------------
(* Copies of the lockfile.                                                 *)

SoundFile(F, R) == F \in File /\ \A t \in Tools : Sound(t, F.tools[t], R)

\* What a copy says of a tool is what the manifest of its digest says.
InStep(F) ==
  F.digest # NoDigest =>
    \A t \in Tools : F.tools[t] # NoEntry =>
      /\ F.tools[t].content = F.digest[t].content
      /\ F.tools[t].risk = F.digest[t].risk

\* The server has loaded the lockfile.
HasFile == server \in Filtered \cup Server

Copies ==
  /\ SoundFile(file, reviewed)
  /\ \A p \in Procs : work[p] # Nothing => SoundFile(work[p].file, reviewed)
  /\ review # NoReview => SoundFile(review, reviewed)
  /\ HasFile => SoundFile(server.file, reviewed)

\* While the lock is held by one command at most, what it read is current.
Current ==
  ~stolen =>
    /\ InStep(file)
    /\ review # NoReview => InStep(review)
    /\ HasFile => InStep(server.file)
    /\ \A p \in Procs : work[p] # Nothing =>
         /\ InStep(work[p].file) /\ work[p].manifest = manifest
         /\ work[p].file = file \/ work[p].overtaken

IInv == TypeOK /\ LockInv /\ Copies /\ Current

LEMMA RunningServer ==
  ASSUME TypeOK, Running
  PROVE  server \in Server
BY DEF TypeOK, Running, Off, Begun, Filtered

LEMMA MoreReviews ==
  ASSUME NEW R, NEW S, R \subseteq S, NEW F, SoundFile(F, R)
  PROVE  SoundFile(F, S)
BY DEF SoundFile, Sound, Reviewed

\* Entries that change but for content and risk leave a copy in step.
LEMMA RewrittenFile ==
  ASSUME NEW R, NEW S, R \subseteq S, NEW F, SoundFile(F, R),
         NEW T \in [Tools -> Entry \cup {NoEntry}],
         \A t \in Tools :
           /\ Sound(t, T[t], S)
           /\ T[t] # NoEntry => /\ F.tools[t] # NoEntry
                                /\ T[t].content = F.tools[t].content
                                /\ T[t].risk = F.tools[t].risk
  PROVE  LET N == [F EXCEPT !.tools = T] IN
         /\ SoundFile(N, S)
         /\ InStep(F) => InStep(N)
         /\ N.digest = F.digest
<1> DEFINE N == [F EXCEPT !.tools = T]
<1>1. N \in File /\ N.tools = T /\ N.digest = F.digest
  BY DEF SoundFile, File
<1> HIDE DEF N
<1>2. SoundFile(N, S)
  BY <1>1 DEF SoundFile
<1>3. InStep(F) => InStep(N)
  BY <1>1 DEF InStep
<1> QED
  BY <1>1, <1>2, <1>3 DEF N

LEMMA RewrittenEntry ==
  ASSUME NEW R, NEW S, R \subseteq S, NEW F, SoundFile(F, R), NEW t \in Tools,
         NEW e \in Entry \cup {NoEntry}, Sound(t, e, S),
         e # NoEntry => /\ F.tools[t] # NoEntry
                        /\ e.content = F.tools[t].content
                        /\ e.risk = F.tools[t].risk
  PROVE  LET N == [F EXCEPT !.tools[t] = e] IN
         /\ SoundFile(N, S)
         /\ InStep(F) => InStep(N)
         /\ N.digest = F.digest
<1> DEFINE T == [F.tools EXCEPT ![t] = e]
<1>1. /\ F.tools \in [Tools -> Entry \cup {NoEntry}] /\ SoundFile(F, S)
  BY MoreReviews DEF SoundFile, File
<1>2. /\ T \in [Tools -> Entry \cup {NoEntry}] /\ T[t] = e
      /\ \A u \in Tools : u # t => T[u] = F.tools[u]
  BY <1>1
<1>3. [F EXCEPT !.tools[t] = e] = [F EXCEPT !.tools = T]
  BY <1>1 DEF SoundFile, File
<1> HIDE DEF T
<1>4. \A u \in Tools :
        /\ Sound(u, T[u], S)
        /\ T[u] # NoEntry => /\ F.tools[u] # NoEntry
                             /\ T[u].content = F.tools[u].content
                             /\ T[u].risk = F.tools[u].risk
  BY <1>1, <1>2 DEF SoundFile
<1> QED
  BY <1>2, <1>3, <1>4, RewrittenFile

----------------------------------------------------------------------------
(* Steps.                                                                  *)

LEMMA InitInvariant == Init => IInv
<1> SUFFICES ASSUME Init PROVE IInv
  OBVIOUS
<1>1. LockInv
  BY LockInitInvariant DEF Init
<1>2. file \in File /\ \A t \in Tools : file.tools[t] = NoEntry
  BY DEF Init, File
<1>3. TypeOK
  BY <1>1, <1>2 DEF Init, TypeOK, LockInv
<1>6. ~HasFile
  BY DEF Init, HasFile, Off, Filtered, Server
<1>4. Copies
  BY <1>2, <1>6 DEF Init, Copies, SoundFile, Sound
<1>5. Current
  BY <1>6 DEF Init, Current, InStep
<1> QED
  BY <1>1, <1>3, <1>4, <1>5 DEF IInv

\* What holds of a command that has loaded, and of all others.
LEMMA LoadedFacts ==
  ASSUME IInv, NEW p \in Procs, Loaded(p)
  PROVE  /\ work[p] \in Work /\ SoundFile(work[p].file, reviewed)
         /\ ~stolen => /\ InStep(work[p].file) /\ work[p].manifest = manifest
                       /\ \A q \in Procs : work[q] # Nothing => q = p
<1>1. Exclusive
  BY OwnerIsAlone DEF IInv
<1> QED
  BY <1>1 DEF IInv, Loaded, TypeOK, Copies, Current, Exclusive, Inside

\* A command that saves a sound file, in step with its digest.
LEMMA SaveKeeps ==
  ASSUME IInv, NEW p \in Procs, Loaded(p), NEW new, SaveFile(p, new),
         reviewed \subseteq reviewed', reviewed' \in SUBSET Reviews,
         SoundFile(new, reviewed'), ~stolen => InStep(new)
  PROVE  IInv'
<1> USE DEF IInv
<1>1. /\ file' = new /\ mtime' = TRUE /\ work' = [work EXCEPT ![p] = Nothing]
      /\ UNCHANGED <<manifest, review, server, items, lock, pc, seen, unlock, stolen>>
  BY DEF SaveFile, lockVars
<1>2. LockInv'
  BY <1>1, LockRests DEF lockVars
<1>3. /\ work'[p] = Nothing
      /\ \A q \in Procs : q # p => work'[q] = work[q]
  BY <1>1 DEF TypeOK
<1>4. new \in File /\ \A t \in Tools : new.tools[t] = NoEntry \/
                                       new.tools[t].approved \subseteq new.tools[t].toolsets
  BY DEF SoundFile, Sound, WellFormed
<1>5. TypeOK'
  BY <1>1, <1>2, <1>3, <1>4 DEF TypeOK, LockInv, Reviews
<1>6. Copies'
  BY <1>1, <1>3, MoreReviews DEF Copies, HasFile
<1>7. Current'
  BY <1>1, <1>3, LoadedFacts DEF Current, HasFile
<1> QED
  BY <1>2, <1>5, <1>6, <1>7

\* The commands that are overtaken keep what they read.
LEMMA OvertakenWork ==
  ASSUME IInv, Overtake, NEW p \in Procs
  PROVE  /\ work' \in [Procs -> Work \cup {Nothing}]
         /\ work'[p] # Nothing =>
              /\ work[p] # Nothing /\ work'[p].overtaken
              /\ work'[p].file = work[p].file
              /\ work'[p].manifest = work[p].manifest
<1>1. ASSUME NEW q \in Procs
      PROVE  /\ work'[q] \in Work \cup {Nothing}
             /\ work'[q] # Nothing =>
                  /\ work[q] # Nothing /\ work'[q].overtaken
                  /\ work'[q].file = work[q].file
                  /\ work'[q].manifest = work[q].manifest
  <2>1. CASE work[q] = Nothing
    BY <2>1 DEF Overtake
  <2>2. CASE work[q] # Nothing
    <3>1. work[q] \in Work
      BY <2>2 DEF IInv, TypeOK
    <3>2. work'[q] = [work[q] EXCEPT !.overtaken = TRUE]
      BY <2>2 DEF Overtake
    <3> QED
      BY <2>2, <3>1, <3>2 DEF Work
  <2> QED
    BY <2>1, <2>2
<1>2. work' \in [Procs -> Work \cup {Nothing}]
  BY <1>1 DEF Overtake
<1> QED
  BY <1>1, <1>2

\* A save without the lock: a sound file, in step with its digest, while the
\* server's copy and the review's are sound and in step too.
LEMMA UnlockedSaveKeeps ==
  ASSUME IInv, NEW new, file' = new, mtime' = TRUE, Overtake,
         reviewed \subseteq reviewed', reviewed' \in SUBSET Reviews,
         SoundFile(new, reviewed'), ~stolen => InStep(new),
         items' \in [Tools -> {"none", "open", "approved", "denied"}],
         review' \in {review, NoReview},
         server' \in {Off} \cup Begun \cup Filtered \cup Server,
         HasFile' => \/ HasFile /\ server'.file = server.file
                     \/ server'.file = new,
         UNCHANGED <<manifest, lock, pc, seen, unlock, stolen>>
  PROVE  IInv'
<1> USE DEF IInv
<1>1. LockInv'
  BY LockRests DEF lockVars
<1>2. new \in File /\ \A t \in Tools : new.tools[t] = NoEntry \/
                                       new.tools[t].approved \subseteq new.tools[t].toolsets
  BY DEF SoundFile, Sound, WellFormed
<1>3. TypeOK'
  <2>1. work' \in [Procs -> Work \cup {Nothing}]
    <3>1. CASE Procs = {}
      BY <3>1 DEF Overtake
    <3>2. CASE Procs # {}
      BY <3>2, OvertakenWork
    <3> QED
      BY <3>1, <3>2
  <2> QED
    BY <1>1, <1>2, <2>1, OvertakenWork DEF TypeOK, LockInv, Reviews
<1>4. Copies'
  BY OvertakenWork, MoreReviews DEF Copies
<1>5. Current'
  BY OvertakenWork DEF Current
<1> QED
  BY <1>1, <1>3, <1>4, <1>5

\* A console request that writes a sound entry without another content or risk.
LEMMA ConsoleKeeps ==
  ASSUME IInv, Running, NEW t \in Tools, NEW e \in Entry \cup {NoEntry},
         NEW status \in {"approved", "denied"}, ConsoleSave(t, e, status),
         reviewed \subseteq reviewed', reviewed' \in SUBSET Reviews,
         Sound(t, e, reviewed'),
         e # NoEntry => /\ server.file.tools[t] # NoEntry
                        /\ e.content = server.file.tools[t].content
                        /\ e.risk = server.file.tools[t].risk
  PROVE  IInv'
<1> DEFINE new == [server.file EXCEPT !.tools[t] = e]
<1>1. server \in Server /\ HasFile
  BY RunningServer DEF IInv, HasFile
<1>2. /\ SoundFile(new, reviewed')
      /\ InStep(server.file) => InStep(new)
  BY <1>1, RewrittenEntry DEF IInv, Copies
<1>3. /\ server' = [server EXCEPT !.file = new]
      /\ UNCHANGED <<manifest, review, lock, pc, seen, unlock, stolen>>
      /\ \/ /\ file' = new /\ mtime' = TRUE /\ Overtake
            /\ items' = [items EXCEPT ![t] = status]
         \/ UNCHANGED <<file, mtime, work, items>>
  BY DEF ConsoleSave, lockVars
<1> HIDE DEF new
<1>4. new \in File /\ \A u \in Tools : new.tools[u] = NoEntry \/
                                       new.tools[u].approved \subseteq new.tools[u].toolsets
  BY <1>2 DEF SoundFile, Sound, WellFormed
<1>5. server' \in Server /\ server'.file = new
  BY <1>1, <1>3, <1>4 DEF Server
<1>6. ~stolen => InStep(new)
  BY <1>1, <1>2 DEF IInv, Current
<1>7. CASE UNCHANGED <<file, mtime, work, items>>
  <2>1. LockInv'
    BY <1>3, LockRests DEF IInv, lockVars
  <2>2. TypeOK'
    BY <1>3, <1>5, <1>7, <2>1 DEF IInv, TypeOK, LockInv, Reviews
  <2>3. Copies'
    BY <1>2, <1>3, <1>5, <1>7, MoreReviews DEF IInv, Copies
  <2>4. Current'
    BY <1>3, <1>5, <1>6, <1>7 DEF IInv, Current
  <2> QED
    BY <2>1, <2>2, <2>3, <2>4 DEF IInv
<1>8. CASE /\ file' = new /\ mtime' = TRUE /\ Overtake
           /\ items' = [items EXCEPT ![t] = status]
  <2>1. items' \in [Tools -> {"none", "open", "approved", "denied"}]
    BY <1>8 DEF IInv, TypeOK
  <2> QED
    BY <1>2, <1>3, <1>5, <1>6, <1>8, <2>1, UnlockedSaveKeeps
<1> QED
  BY <1>3, <1>7, <1>8

\* Saves of commands.
LEMMA SyncKeeps ==
  ASSUME IInv, NEW p \in Procs, Sync(p)
  PROVE  IInv'
<1> DEFINE T == [t \in Tools |-> SyncEntry(work[p].file.tools[t], work[p].manifest[t])]
           new == [tools |-> T, digest |-> manifest]
<1>1. /\ Loaded(p) /\ SaveFile(p, new) /\ reviewed' = reviewed
  BY DEF Sync
<1>2. /\ work[p] \in Work /\ SoundFile(work[p].file, reviewed)
      /\ reviewed \in SUBSET Reviews /\ manifest \in Manifests
      /\ ~stolen => work[p].manifest = manifest
  BY <1>1, LoadedFacts DEF IInv, TypeOK, Reviews
<1>3. ASSUME NEW t \in Tools
      PROVE  /\ Sound(t, T[t], reviewed) /\ WellFormed(T[t])
             /\ T[t].content = work[p].manifest[t].content
             /\ T[t].risk = work[p].manifest[t].risk
  <2>1. work[p].manifest[t] \in Action
    BY <1>2, LockfileCommandsAssumption DEF Work
  <2>2. /\ work[p].file.tools[t] \in Entry \cup {NoEntry}
        /\ Sound(t, work[p].file.tools[t], reviewed)
    BY <1>2 DEF SoundFile, File
  <2> QED
    BY <1>2, <2>1, <2>2, SyncedEntry
<1>4. T \in [Tools -> Entry \cup {NoEntry}]
  BY <1>3 DEF WellFormed
<1> HIDE DEF T
<1>5. SoundFile(new, reviewed)
  BY <1>2, <1>3, <1>4 DEF SoundFile, File
<1>6. ~stolen => InStep(new)
  BY <1>2, <1>3 DEF InStep
<1> QED
  BY <1>1, <1>2, <1>5, <1>6, SaveKeeps

LEMMA AllowKeeps ==
  ASSUME IInv, NEW p \in Procs, NEW t \in Tools, NEW scope \in Scopes, Allow(p, t, scope)
  PROVE  IInv'
<1> DEFINE F == work[p].file
           e == F.tools[t]
           f == Approve(e, scope)
<1>1. /\ Loaded(p) /\ e # NoEntry /\ scope \in SUBSET e.toolsets
      /\ SaveFile(p, [F EXCEPT !.tools[t] = f])
      /\ reviewed' = reviewed \cup {[tool |-> t, content |-> e.content, risk |-> e.risk]}
  BY DEF Allow, CanApprove, Review
<1>2. /\ SoundFile(F, reviewed) /\ (~stolen => InStep(F))
      /\ reviewed \in SUBSET Reviews
  BY <1>1, LoadedFacts DEF IInv, TypeOK, Reviews
<1>3. WellFormed(e)
  BY <1>1, <1>2 DEF SoundFile, Sound
<1>4. WellFormed(f) /\ f.content = e.content /\ f.risk = e.risk
  BY <1>1, <1>3, ApprovedEntry
<1> HIDE DEF f
<1>5. e.content \in Contents /\ e.risk \in Nat
  BY <1>3 DEF WellFormed, Entry
<1>6. reviewed' \in SUBSET Reviews /\ reviewed \subseteq reviewed'
  BY <1>1, <1>2, <1>5 DEF Reviews
<1> HIDE DEF e, F
<1>7. Sound(t, f, reviewed')
  <2> DEFINE r == [tool |-> t, content |-> e.content, risk |-> e.risk]
  <2>1. r \in reviewed' /\ r.tool = t /\ r.content = f.content /\ r.risk >= f.risk
    BY <1>1, <1>4, <1>5
  <2> QED
    BY <1>4, <2>1 DEF Sound, Reviewed
<1>8. f \in Entry
  BY <1>4 DEF WellFormed
<1>9. /\ SoundFile([F EXCEPT !.tools[t] = f], reviewed')
      /\ InStep(F) => InStep([F EXCEPT !.tools[t] = f])
  BY <1>1, <1>2, <1>4, <1>6, <1>7, <1>8, RewrittenEntry DEF e
<1> QED
  BY <1>1, <1>2, <1>6, <1>9, SaveKeeps

\* Approving several entries at once, as commands and reviews do.
LEMMA ApprovedFile ==
  ASSUME IInv, NEW F, SoundFile(F, reviewed), NEW scope, NEW chosen \in SUBSET Tools,
         \A t \in chosen : F.tools[t] # NoEntry /\ scope \subseteq F.tools[t].toolsets,
         reviewed' = ReviewAll(F.tools, chosen)
  PROVE  LET N == [F EXCEPT !.tools = ApproveAll(F.tools, chosen, scope)] IN
         /\ reviewed' \in SUBSET Reviews /\ reviewed \subseteq reviewed'
         /\ SoundFile(N, reviewed')
         /\ InStep(F) => InStep(N)
<1> DEFINE T == ApproveAll(F.tools, chosen, scope)
           more == {[tool |-> t, content |-> F.tools[t].content,
                     risk |-> F.tools[t].risk] : t \in chosen}
<1>1. reviewed' = reviewed \cup more /\ reviewed \in SUBSET Reviews
  BY DEF ReviewAll, IInv, TypeOK, Reviews
<1>2. ASSUME NEW t \in chosen
      PROVE  /\ F.tools[t] # NoEntry /\ WellFormed(F.tools[t])
             /\ scope \in SUBSET F.tools[t].toolsets
  BY <1>2 DEF SoundFile, Sound
<1>3. more \subseteq Reviews
  BY <1>2 DEF WellFormed, Entry, Reviews
<1>4. reviewed' \in SUBSET Reviews /\ reviewed \subseteq reviewed'
  BY <1>1, <1>3
<1>5. ASSUME NEW t \in Tools
      PROVE  /\ T[t] \in Entry \cup {NoEntry} /\ Sound(t, T[t], reviewed')
             /\ T[t] # NoEntry => /\ F.tools[t] # NoEntry
                                  /\ T[t].content = F.tools[t].content
                                  /\ T[t].risk = F.tools[t].risk
  <2>1. CASE t \in chosen
    <3>1. /\ WellFormed(T[t]) /\ F.tools[t] # NoEntry
          /\ T[t].content = F.tools[t].content /\ T[t].risk = F.tools[t].risk
      BY <1>2, <2>1, ApprovedEntry DEF ApproveAll
    <3>2. [tool |-> t, content |-> F.tools[t].content, risk |-> F.tools[t].risk] \in reviewed'
      BY <1>1, <2>1
    <3>3. F.tools[t].risk \in Nat
      BY <1>2, <2>1 DEF WellFormed, Entry
    <3> HIDE DEF T
    <3> QED
      BY <3>1, <3>2, <3>3 DEF Sound, Reviewed, WellFormed
  <2>2. CASE t \notin chosen
    <3>1. T[t] = F.tools[t] /\ SoundFile(F, reviewed')
      BY <1>4, <2>2, MoreReviews DEF ApproveAll
    <3> QED
      BY <3>1 DEF SoundFile, File
  <2> QED
    BY <2>1, <2>2
<1>6. T \in [Tools -> Entry \cup {NoEntry}]
  BY <1>5 DEF ApproveAll
<1> HIDE DEF T
<1>7. /\ SoundFile([F EXCEPT !.tools = T], reviewed')
      /\ InStep(F) => InStep([F EXCEPT !.tools = T])
  BY <1>4, <1>5, <1>6, RewrittenFile
<1> QED
  BY <1>4, <1>7 DEF T

LEMMA AllowAllKeeps ==
  ASSUME IInv, NEW p \in Procs, NEW scope \in Scopes, AllowAll(p, scope)
  PROVE  IInv'
<1> DEFINE F == work[p].file
           chosen == {t \in Tools : Pending(F.tools[t], scope)}
           new == [F EXCEPT !.tools = ApproveAll(F.tools, chosen, scope)]
<1>1. /\ Loaded(p) /\ SaveFile(p, new) /\ reviewed' = ReviewAll(F.tools, chosen)
  BY DEF AllowAll
<1>2. SoundFile(F, reviewed) /\ (~stolen => InStep(F))
  BY <1>1, LoadedFacts
<1>3. \A t \in chosen : F.tools[t] # NoEntry /\ scope \subseteq F.tools[t].toolsets
  BY DEF Pending
<1>4. /\ reviewed' \in SUBSET Reviews /\ reviewed \subseteq reviewed'
      /\ SoundFile(new, reviewed')
      /\ InStep(F) => InStep(new)
  <2>1. chosen \in SUBSET Tools
    OBVIOUS
  <2> HIDE DEF chosen, F
  <2> QED
    BY <1>1, <1>2, <1>3, <2>1, ApprovedFile
<1> HIDE DEF new
<1> QED
  BY <1>1, <1>2, <1>4, SaveKeeps

LEMMA BlockKeeps ==
  ASSUME IInv, NEW p \in Procs, NEW t \in Tools, Block(p, t)
  PROVE  IInv'
<1> DEFINE F == work[p].file
           e == F.tools[t]
           f == Reject(e)
<1>1. /\ Loaded(p) /\ e # NoEntry /\ reviewed' = reviewed
      /\ SaveFile(p, [F EXCEPT !.tools[t] = f])
  BY DEF Block
<1>2. /\ SoundFile(F, reviewed) /\ (~stolen => InStep(F))
      /\ reviewed \in SUBSET Reviews
  BY <1>1, LoadedFacts DEF IInv, TypeOK, Reviews
<1>3. WellFormed(e)
  BY <1>1, <1>2 DEF SoundFile, Sound
<1>4. WellFormed(f) /\ ~f.attested /\ f.content = e.content /\ f.risk = e.risk
  BY <1>3, RejectedEntry
<1> HIDE DEF f
<1>5. f \in Entry /\ Sound(t, f, reviewed)
  BY <1>4 DEF Sound, WellFormed
<1> HIDE DEF F, e
<1>6. /\ SoundFile([F EXCEPT !.tools[t] = f], reviewed)
      /\ InStep(F) => InStep([F EXCEPT !.tools[t] = f])
  BY <1>1, <1>2, <1>4, <1>5, RewrittenEntry DEF e
<1> QED
  BY <1>1, <1>2, <1>6, SaveKeeps

LEMMA ResignAllKeeps ==
  ASSUME IInv, NEW p \in Procs, NEW scope \in Scopes, ResignAll(p, scope)
  PROVE  IInv'
<1> DEFINE F == work[p].file
           T == [t \in Tools |-> IF F.tools[t] = NoEntry THEN NoEntry
                                ELSE Resign(F.tools[t], scope)]
<1>1. /\ Loaded(p) /\ SaveFile(p, [F EXCEPT !.tools = T]) /\ reviewed' = reviewed
  BY DEF ResignAll
<1>2. /\ SoundFile(F, reviewed) /\ (~stolen => InStep(F))
      /\ reviewed \in SUBSET Reviews
  BY <1>1, LoadedFacts DEF IInv, TypeOK, Reviews
<1>3. ASSUME NEW t \in Tools
      PROVE  /\ T[t] \in Entry \cup {NoEntry} /\ Sound(t, T[t], reviewed)
             /\ T[t] # NoEntry => /\ F.tools[t] # NoEntry
                                  /\ T[t].content = F.tools[t].content
                                  /\ T[t].risk = F.tools[t].risk
  <2>1. CASE F.tools[t] = NoEntry
    BY <2>1 DEF Sound
  <2>2. CASE F.tools[t] # NoEntry
    <3>1. /\ WellFormed(F.tools[t])
          /\ F.tools[t].attested => Reviewed(t, F.tools[t], reviewed)
      BY <1>2, <2>2 DEF SoundFile, Sound
    <3>2. /\ WellFormed(T[t]) /\ T[t].content = F.tools[t].content
          /\ T[t].risk = F.tools[t].risk
          /\ T[t].attested => F.tools[t].attested
      BY <2>2, <3>1, ResignedEntry
    <3> HIDE DEF T
    <3> QED
      BY <2>2, <3>1, <3>2 DEF Sound, Reviewed, WellFormed
  <2> QED
    BY <2>1, <2>2
<1>4. T \in [Tools -> Entry \cup {NoEntry}]
  BY <1>3
<1> HIDE DEF T, F
<1>5. /\ SoundFile([F EXCEPT !.tools = T], reviewed)
      /\ InStep(F) => InStep([F EXCEPT !.tools = T])
  BY <1>2, <1>3, <1>4, RewrittenFile
<1> QED
  BY <1>1, <1>2, <1>5, SaveKeeps

\* Steps of commands that save nothing.
LEMMA CompileKeeps ==
  ASSUME IInv, NEW p \in Procs, NEW m \in Manifests, Compile(p, m)
  PROVE  IInv'
<1>1. /\ pc[p] = "holding" /\ work[p] = Nothing /\ manifest' = m
      /\ UNCHANGED <<file, work, review, server, mtime, items, reviewed, lock, pc, seen, unlock, stolen>>
  BY DEF Compile, lockVars
<1>2. LockInv'
  BY <1>1, LockRests DEF IInv, lockVars
<1>3. TypeOK' /\ Copies'
  BY <1>1, <1>2 DEF IInv, TypeOK, Copies, LockInv, HasFile
<1>4. ~stolen => \A q \in Procs : work[q] = Nothing
  BY <1>1, OwnerIsAlone DEF IInv, TypeOK, Exclusive, Inside
<1>5. Current'
  BY <1>1, <1>4 DEF IInv, Current, HasFile
<1> QED
  BY <1>2, <1>3, <1>5 DEF IInv

LEMMA LoadKeeps ==
  ASSUME IInv, NEW p \in Procs, Load(p)
  PROVE  IInv'
<1> DEFINE o == [manifest |-> manifest, file |-> file, overtaken |-> FALSE]
<1>1. /\ pc[p] = "holding" /\ work[p] = Nothing /\ work' = [work EXCEPT ![p] = o]
      /\ UNCHANGED <<manifest, file, review, server, mtime, items, reviewed, lock, pc, seen, unlock, stolen>>
  BY DEF Load, lockVars
<1>2. o \in Work /\ o.file = file /\ o.manifest = manifest
  BY DEF IInv, TypeOK, Work
<1> HIDE DEF o
<1>3. LockInv'
  BY <1>1, LockRests DEF IInv, lockVars
<1>4. work'[p] = o /\ \A q \in Procs : q # p => work'[q] = work[q]
  BY <1>1 DEF IInv, TypeOK
<1>5. TypeOK'
  BY <1>1, <1>2, <1>3, <1>4 DEF IInv, TypeOK, LockInv
<1>6. Copies'
  BY <1>1, <1>2, <1>4 DEF IInv, Copies, HasFile
<1>7. Current'
  BY <1>1, <1>2, <1>4 DEF IInv, Current, HasFile
<1> QED
  BY <1>3, <1>5, <1>6, <1>7 DEF IInv

LEMMA LockStepsKeep ==
  ASSUME IInv, NEW p \in Procs, LockSteps(p)
  PROVE  IInv'
<1>1. /\ LockStep(p) /\ work' = [work EXCEPT ![p] = Nothing]
      /\ UNCHANGED <<manifest, file, review, server, mtime, items, reviewed>>
  BY DEF LockSteps
<1>2. LockInv'
  BY <1>1, LockStepInvariant DEF IInv
<1>3. /\ stolen => stolen'
      /\ \A q \in Procs : q # p => pc'[q] = pc[q]
  BY <1>1, StolenStays
     DEF IInv, LockInv, LockTypeOK, LockNext, LockStep, Create, Look, Judge, ClearStale,
         Retry, WriteInfo, Release, Crash, Goto
<1>4. work'[p] = Nothing /\ \A q \in Procs : q # p => work'[q] = work[q]
  BY <1>1 DEF IInv, TypeOK
<1>5. TypeOK'
  BY <1>1, <1>2, <1>3, <1>4 DEF IInv, TypeOK, LockInv
<1>6. Copies'
  BY <1>1, <1>4 DEF IInv, Copies, HasFile
<1>7. Current'
  BY <1>1, <1>3, <1>4 DEF IInv, Current, HasFile
<1> QED
  BY <1>2, <1>5, <1>6, <1>7 DEF IInv

LEMMA UnlocksKeep ==
  ASSUME IInv, Unlocks
  PROVE  IInv'
<1>1. /\ BeginUnlock \/ EndUnlock
      /\ UNCHANGED <<manifest, file, work, review, server, mtime, items, reviewed>>
  BY DEF Unlocks, fileVars
<1>2. LockInv'
  BY <1>1, UnlockInvariant DEF IInv
<1>3. (stolen => stolen') /\ pc' = pc
  BY <1>1, StolenStays DEF IInv, LockNext, BeginUnlock, EndUnlock
<1> QED
  BY <1>1, <1>2, <1>3 DEF IInv, TypeOK, LockInv, Copies, Current, HasFile

\* Interactive reviews.
LEMMA ReviewLoadKeeps ==
  ASSUME IInv, ReviewLoad
  PROVE  IInv'
<1>1. /\ review' = file
      /\ UNCHANGED <<manifest, file, work, server, mtime, items, reviewed, lock, pc, seen,
                     unlock, stolen>>
  BY DEF ReviewLoad, lockVars
<1>2. LockInv'
  BY <1>1, LockRests DEF IInv, lockVars
<1>3. TypeOK' /\ Copies' /\ Current'
  BY <1>1, <1>2 DEF IInv, TypeOK, LockInv, Copies, Current, HasFile
<1> QED
  BY <1>2, <1>3 DEF IInv

LEMMA ReviewSaveKeeps ==
  ASSUME IInv, NEW new, ReviewSave(new),
         reviewed \subseteq reviewed', reviewed' \in SUBSET Reviews,
         SoundFile(new, reviewed'), ~stolen => InStep(new)
  PROVE  IInv'
<1>1. /\ file' = new /\ mtime' = TRUE /\ review' = NoReview /\ Overtake
      /\ UNCHANGED <<manifest, server, items, lock, pc, seen, unlock, stolen>>
  BY DEF ReviewSave, lockVars
<1>2. /\ items' \in [Tools -> {"none", "open", "approved", "denied"}]
      /\ server' \in {Off} \cup Begun \cup Filtered \cup Server
      /\ HasFile' => HasFile /\ server'.file = server.file
  BY <1>1 DEF IInv, TypeOK, HasFile
<1> QED
  BY <1>1, <1>2, UnlockedSaveKeeps

LEMMA ReviewAllowKeeps ==
  ASSUME IInv, NEW chosen \in SUBSET Tools, ReviewAllow(chosen)
  PROVE  IInv'
<1> DEFINE new == [review EXCEPT !.tools = ApproveAll(review.tools, chosen, {})]
<1>1. /\ review # NoReview /\ ReviewSave(new)
      /\ reviewed' = ReviewAll(review.tools, chosen)
      /\ SoundFile(review, reviewed) /\ (~stolen => InStep(review))
  BY DEF ReviewAllow, IInv, Copies, Current
<1>2. \A t \in chosen : review.tools[t] # NoEntry
  BY DEF ReviewAllow, NoEntry
<1>3. /\ reviewed' \in SUBSET Reviews /\ reviewed \subseteq reviewed'
      /\ SoundFile(new, reviewed')
      /\ InStep(review) => InStep(new)
  BY <1>1, <1>2, ApprovedFile
<1> HIDE DEF new
<1> QED
  BY <1>1, <1>3, ReviewSaveKeeps

LEMMA ReviewBlockKeeps ==
  ASSUME IInv, NEW t \in Tools, ReviewBlock(t)
  PROVE  IInv'
<1> DEFINE e == review.tools[t]
           f == Reject(e)
<1>1. /\ review # NoReview /\ e # NoEntry /\ reviewed' = reviewed
      /\ ReviewSave([review EXCEPT !.tools[t] = f])
      /\ SoundFile(review, reviewed) /\ (~stolen => InStep(review))
      /\ reviewed \in SUBSET Reviews
  BY DEF ReviewBlock, IInv, Copies, Current, TypeOK, Reviews
<1>2. WellFormed(e)
  BY <1>1 DEF SoundFile, Sound
<1>3. WellFormed(f) /\ ~f.attested /\ f.content = e.content /\ f.risk = e.risk
  BY <1>2, RejectedEntry
<1> HIDE DEF f
<1>4. f \in Entry /\ Sound(t, f, reviewed)
  BY <1>3 DEF Sound, WellFormed
<1>5. /\ SoundFile([review EXCEPT !.tools[t] = f], reviewed)
      /\ InStep(review) => InStep([review EXCEPT !.tools[t] = f])
  BY <1>1, <1>3, <1>4, RewrittenEntry
<1> QED
  BY <1>1, <1>5, ReviewSaveKeeps

\* Steps of the server and of its console.
LEMMA StartManifestKeeps ==
  ASSUME IInv, NEW scope \in Scopes, StartManifest(scope)
  PROVE  IInv'
<1>1. /\ server' = [phase |-> "begun", scope |-> scope, manifest |-> manifest]
      /\ UNCHANGED <<manifest, file, work, review, mtime, items, reviewed, lock, pc, seen,
                     unlock, stolen>>
  BY DEF StartManifest, lockVars
<1>2. server' \in Begun /\ server' \notin Filtered \cup Server
  BY <1>1 DEF IInv, TypeOK, Begun, Filtered, Server
<1>3. LockInv'
  BY <1>1, LockRests DEF IInv, lockVars
<1>4. TypeOK' /\ Copies' /\ Current'
  BY <1>1, <1>2, <1>3 DEF IInv, TypeOK, LockInv, Copies, Current, HasFile
<1> QED
  BY <1>3, <1>4 DEF IInv

LEMMA StartLockfileKeeps ==
  ASSUME IInv, StartLockfile
  PROVE  IInv'
<1>1. PICK listed \in SUBSET Tools :
        /\ server.phase = "begun"
        /\ server' = [phase |-> "filtered", scope |-> server.scope,
                      manifest |-> server.manifest, file |-> file, exposed |-> listed]
        /\ mtime' = FALSE
        /\ UNCHANGED <<manifest, file, work, review, items, reviewed, lock, pc, seen,
                       unlock, stolen>>
  <2> DEFINE listed == {t \in {u \in Tools : server.scope \subseteq server.manifest[u].toolsets} :
                          Exposed(file.tools[t], server.scope)}
  <2>1. listed \in SUBSET Tools
    OBVIOUS
  <2> QED
    BY <2>1 DEF StartLockfile, lockVars
<1>2. server \in Begun
  BY <1>1 DEF IInv, TypeOK, Off, Filtered, Server
<1>3. server' \in Filtered /\ server'.file = file
  BY <1>1, <1>2 DEF IInv, TypeOK, Begun, Filtered
<1>4. LockInv'
  BY <1>1, LockRests DEF IInv, lockVars
<1>5. TypeOK' /\ Copies' /\ Current'
  BY <1>1, <1>3, <1>4 DEF IInv, TypeOK, LockInv, Copies, Current
<1> QED
  BY <1>4, <1>5 DEF IInv

LEMMA StartDigestKeeps ==
  ASSUME IInv, StartDigest
  PROVE  IInv'
<1>1. /\ server.phase = "filtered"
      /\ server' = [phase |-> "running", scope |-> server.scope,
                    manifest |-> server.manifest, file |-> server.file,
                    exposed |-> server.exposed, digest |-> manifest]
      /\ mtime' \in {mtime, FALSE}
      /\ items' = [t \in Tools |-> IF server.file.tools[t].status = "pending" THEN "open"
                                   ELSE items[t]]
      /\ UNCHANGED <<manifest, file, work, review, reviewed, lock, pc, seen, unlock, stolen>>
  BY DEF StartDigest, lockVars
<1>2. server \in Filtered
  BY <1>1 DEF IInv, TypeOK, Off, Begun, Server
<1>3. server' \in Server /\ server'.file = server.file
  BY <1>1, <1>2 DEF IInv, TypeOK, Filtered, Server
<1>4. LockInv'
  BY <1>1, LockRests DEF IInv, lockVars
<1>5. TypeOK'
  BY <1>1, <1>3, <1>4 DEF IInv, TypeOK, LockInv
<1>6. Copies' /\ Current'
  BY <1>1, <1>2, <1>3 DEF IInv, Copies, Current, HasFile
<1> QED
  BY <1>4, <1>5, <1>6 DEF IInv

LEMMA StopKeeps ==
  ASSUME IInv, Stop
  PROVE  IInv'
<1>1. /\ server' = Off
      /\ UNCHANGED <<manifest, file, work, review, mtime, items, reviewed, lock, pc, seen,
                     unlock, stolen>>
  BY DEF Stop, lockVars
<1>2. server' \notin Filtered \cup Server
  BY <1>1 DEF Off, Filtered, Server
<1>3. LockInv'
  BY <1>1, LockRests DEF IInv, lockVars
<1> QED
  BY <1>1, <1>2, <1>3 DEF IInv, LockInv, TypeOK, Copies, Current, HasFile

LEMMA ReloadKeeps ==
  ASSUME IInv, Reload
  PROVE  IInv'
<1>1. /\ server' = [server EXCEPT !.file = file] /\ mtime' = FALSE
      /\ UNCHANGED <<manifest, file, work, review, items, reviewed, lock, pc, seen, unlock,
                     stolen>>
  BY DEF Reload, lockVars
<1>2. server \in Server
  BY RunningServer DEF IInv, Reload
<1>3. server' \in Server /\ server'.file = file
  BY <1>1, <1>2 DEF IInv, TypeOK, Server
<1>4. LockInv'
  BY <1>1, LockRests DEF IInv, lockVars
<1> QED
  BY <1>1, <1>3, <1>4 DEF IInv, LockInv, TypeOK, Copies, Current

LEMMA ConsoleAllowKeeps ==
  ASSUME IInv, NEW t \in Tools, ConsoleAllow(t)
  PROVE  IInv'
<1> DEFINE e == server.file.tools[t]
           f == Approve(e, {})
<1>1. /\ Running /\ reviewed \in SUBSET Reviews
      /\ SoundFile(server.file, reviewed)
  BY RunningServer DEF ConsoleAllow, IInv, TypeOK, Copies, Reviews, HasFile
<1>2. CASE e = NoEntry
  BY <1>1, <1>2, ConsoleKeeps DEF ConsoleAllow, Sound
<1>3. CASE e # NoEntry
  <2>1. WellFormed(e)
    BY <1>1, <1>3 DEF SoundFile, Sound
  <2>2. /\ ConsoleSave(t, f, "approved")
        /\ reviewed' = reviewed \cup {[tool |-> t, content |-> e.content, risk |-> e.risk]}
    BY <1>3 DEF ConsoleAllow, Review
  <2>3. WellFormed(f) /\ f.content = e.content /\ f.risk = e.risk
    BY <2>1, ApprovedEntry
  <2>4. e.content \in Contents /\ e.risk \in Nat /\ f \in Entry
    BY <2>1, <2>3 DEF WellFormed, Entry
  <2>5. reviewed' \in SUBSET Reviews /\ reviewed \subseteq reviewed'
    BY <1>1, <2>2, <2>4 DEF Reviews
  <2> HIDE DEF f, e
  <2>6. Sound(t, f, reviewed')
    <3> DEFINE r == [tool |-> t, content |-> e.content, risk |-> e.risk]
    <3>1. r \in reviewed' /\ r.tool = t /\ r.content = f.content /\ r.risk >= f.risk
      BY <2>2, <2>3, <2>4
    <3> QED
      BY <2>3, <3>1 DEF Sound, Reviewed
  <2> QED
    BY <1>1, <1>3, <2>2, <2>3, <2>4, <2>5, <2>6, ConsoleKeeps DEF e
<1> QED
  BY <1>2, <1>3

LEMMA ConsoleBlockKeeps ==
  ASSUME IInv, NEW t \in Tools, ConsoleBlock(t)
  PROVE  IInv'
<1> DEFINE e == server.file.tools[t]
           f == IF e = NoEntry THEN e ELSE Reject(e)
<1>1. /\ Running /\ reviewed' = reviewed /\ ConsoleSave(t, f, "denied")
      /\ SoundFile(server.file, reviewed) /\ reviewed \in SUBSET Reviews
  BY RunningServer DEF ConsoleBlock, IInv, TypeOK, Copies, Reviews, HasFile
<1>2. /\ f \in Entry \cup {NoEntry} /\ Sound(t, f, reviewed)
      /\ f # NoEntry => e # NoEntry /\ f.content = e.content /\ f.risk = e.risk
  <2>1. CASE e = NoEntry
    BY <2>1 DEF Sound
  <2>2. CASE e # NoEntry
    BY <1>1, <2>2, RejectedEntry DEF SoundFile, Sound, WellFormed
  <2> QED
    BY <2>1, <2>2
<1> HIDE DEF f
<1> QED
  BY <1>1, <1>2, ConsoleKeeps

\* Every step keeps the invariant.
LEMMA NextInvariant == IInv /\ [Next]_vars => IInv'
<1> SUFFICES ASSUME IInv, [Next]_vars PROVE IInv'
  OBVIOUS
<1>1. ASSUME NEW p \in Procs, Command(p) PROVE IInv'
  BY <1>1, CompileKeeps, LoadKeeps, SyncKeeps, AllowKeeps, AllowAllKeeps,
     BlockKeeps, ResignAllKeeps, LockStepsKeep DEF Command
<1>2. CASE UNCHANGED vars
  <2>1. LockInv'
    BY <1>2, LockRests DEF vars, IInv
  <2> QED
    BY <1>2, <2>1
       DEF vars, fileVars, lockVars, IInv, LockInv, TypeOK, Copies, Current, HasFile
<1> QED
  BY <1>1, <1>2, UnlocksKeep, ReviewLoadKeeps, ReviewAllowKeeps, ReviewBlockKeeps,
     StartManifestKeeps, StartLockfileKeeps, StartDigestKeeps, StopKeeps, ReloadKeeps,
     ConsoleAllowKeeps, ConsoleBlockKeeps DEF Next

LEMMA InvariantHolds == Spec => []IInv
BY InitInvariant, NextInvariant, PTL DEF Spec

----------------------------------------------------------------------------
(* Theorems.                                                               *)

\* The commands under the lock use it as RootLock has it, and nobody else touches
\* it: what holds of the lock by itself holds here.
THEOREM UsesTheLock == Spec => LockSpec
<1>1. Init => LockInit
  BY DEF Init
<1>2. [Next]_vars => [LockNext]_lockVars
  <2>1. ASSUME NEW p \in Procs, Command(p) PROVE [LockNext]_lockVars
    BY <2>1 DEF Command, Compile, Load, Sync, Allow, AllowAll, ResignAll, Block, SaveFile,
                LockSteps, LockNext
  <2>2. ASSUME NEW t \in Tools, ConsoleAllow(t) \/ ConsoleBlock(t) PROVE UNCHANGED lockVars
    BY <2>2 DEF ConsoleAllow, ConsoleBlock, ConsoleSave
  <2>3. ASSUME NEW scope \in Scopes, StartManifest(scope) PROVE UNCHANGED lockVars
    BY <2>3 DEF StartManifest
  <2>4. CASE StartLockfile \/ StartDigest \/ Stop \/ Reload \/ ReviewLoad
    BY <2>4 DEF StartLockfile, StartDigest, Stop, Reload, ReviewLoad
  <2>7. ASSUME NEW t \in Tools, ReviewBlock(t) PROVE UNCHANGED lockVars
    BY <2>7 DEF ReviewBlock, ReviewSave
  <2>8. ASSUME NEW chosen \in SUBSET Tools, ReviewAllow(chosen) PROVE UNCHANGED lockVars
    BY <2>8 DEF ReviewAllow, ReviewSave
  <2>5. CASE Unlocks
    BY <2>5 DEF Unlocks, LockNext
  <2>6. CASE UNCHANGED vars
    BY <2>6 DEF vars
  <2> QED
    BY <2>1, <2>2, <2>3, <2>4, <2>5, <2>6, <2>7, <2>8 DEF Next
<1> QED
  BY <1>1, <1>2, PTL DEF Spec, LockSpec

\* The variables keep their types, and no entry of the file is approved for a
\* toolset it does not have.
THEOREM TypeCorrect == Spec => []TypeOK
<1>1. IInv => TypeOK
  BY DEF IInv
<1> QED
  BY <1>1, InvariantHolds, PTL

\* Two commands are never inside the root lock at once, unless the lock of a live
\* one was removed.  (The interactive review and the console take no lock.)
THEOREM CommandsAreExclusive == Spec => []Exclusive
<1>1. IInv => Exclusive
  BY OwnerIsAlone DEF IInv
<1> QED
  BY <1>1, InvariantHolds, PTL

\* docs/confidence-kit/INVARIANTS.md:7 and :11: what a server executes for a
\* tool is what some approval was given for, at a risk no lower, unless the
\* artifacts were compiled while it started or a lock was stolen.
THEOREM ServedIsReviewed == Spec => []ServedAsReviewed
<1>1. IInv => ServedAsReviewed
  <2> SUFFICES ASSUME IInv, ~stolen, ~StartedTorn, NEW t \in Tools, Serves(t)
               PROVE  Reviewed(t, server.manifest[t], reviewed)
    BY DEF ServedAsReviewed, Reviewed
  <2> DEFINE e == server.file.tools[t]
  <2>1. /\ server \in Server /\ HasFile /\ server.file.digest = server.manifest
        /\ e # NoEntry /\ e.attested
    BY RunningServer DEF Serves, StartedTorn, ApprovedFor, Verified, IInv, HasFile
  <2>2. Reviewed(t, e, reviewed)
    BY <2>1 DEF IInv, Copies, SoundFile, Sound
  <2>3. server.file.digest # NoDigest
    BY <2>1, LockfileCommandsAssumption DEF Server
  <2>4. e.content = server.manifest[t].content /\ e.risk = server.manifest[t].risk
    BY <2>1, <2>3 DEF IInv, Current, InStep
  <2> QED
    BY <2>2, <2>4 DEF Reviewed
<1> QED
  BY <1>1, InvariantHolds, PTL

\* docs/confidence-kit/INVARIANTS.md:21: what `gate check` passes as a whole,
\* a server that starts exposes and executes, for each of its toolsets.
THEOREM CheckedToolsAreServed == Spec => []CheckedIsServed
<1>1. IInv => CheckedIsServed
  <2> SUFFICES ASSUME IInv, NEW t \in Tools, file.tools[t] # NoEntry,
                      GatePasses(file.tools[t], {}),
                      NEW scope \in {{}} \cup {{s} : s \in file.tools[t].toolsets}
               PROVE  ApprovedFor(file.tools[t], scope) /\ Exposed(file.tools[t], scope)
    BY DEF CheckedIsServed
  <2> DEFINE e == file.tools[t]
  <2>1. WellFormed(e)
    BY DEF IInv, Copies, SoundFile, Sound
  <2>2. e.status = "approved" /\ Verified(e)
    BY <2>1 DEF GatePasses, ApprovalsPass, SignaturesPass, Pending, WellFormed, Entry,
                Status
  <2>3. e.approved = e.toolsets
    BY <2>1, <2>2 DEF WellFormed
  <2> QED
    BY <2>2, <2>3 DEF ApprovedFor, Exposed
<1> QED
  BY <1>1, InvariantHolds, PTL

\* A command under the lock never replaces what another one has saved since it
\* read, unless the console or an interactive review saved in between or a lock was
\* stolen.
THEOREM UpdatesAreKept == Spec => CommandsKeepUpdates
<1>1. IInv /\ [Next]_vars =>
        [\A p \in Procs :
           work[p] # Nothing /\ work'[p] = Nothing /\ file' # file =>
             file = work[p].file \/ work[p].overtaken \/ stolen]_vars
  BY DEF IInv, Current
<1> QED
  BY <1>1, InvariantHolds, PTL DEF Spec, CommandsKeepUpdates

----------------------------------------------------------------------------
\* A sync brings an entry to the manifest in one go (sync_from_manifest): a second
\* sync with the same manifest neither reopens the entry nor drops anything from
\* it, so that commands may sync as often as they like.
THEOREM SyncTwiceIsOnce ==
  ASSUME NEW a \in Action, NEW e, e = NoEntry \/ WellFormed(e)
  PROVE  SyncEntry(SyncEntry(e, a), a) = SyncEntry(e, a)
<1> DEFINE f == SyncEntry(e, a)
<1>1. /\ f \in Entry /\ f.content = a.content /\ f.risk = a.risk
      /\ f.toolsets = a.toolsets /\ f.approved \subseteq f.toolsets
  <2>1. CASE e = NoEntry
    BY <2>1 DEF SyncEntry, NewEntry, Entry, Action, Status
  <2>2. CASE e # NoEntry
    <3> DEFINE g == Rerisked(Recontented(e, a), a)
               kept == [g EXCEPT !.approved = @ \cap a.toolsets, !.toolsets = a.toolsets]
    <3>1. WellFormed(Recontented(e, a)) /\ Recontented(e, a).content = a.content
      BY <2>2, RecontentedEntry
    <3>2. WellFormed(g) /\ g.content = a.content /\ g.risk = a.risk
      BY <3>1, ReriskedEntry
    <3>3. f = Regrouped(g, a)
      BY <2>2 DEF SyncEntry
    <3> HIDE DEF f, g
    <3>4. /\ kept \in Entry /\ kept.approved = g.approved \cap a.toolsets
          /\ kept.toolsets = a.toolsets /\ kept.content = g.content
          /\ kept.risk = g.risk
      BY <3>2 DEF WellFormed, Entry, Action
    <3>5. f \in {kept, Reopened(kept)}
      BY <3>3 DEF Regrouped
    <3> HIDE DEF kept
    <3> QED
      BY <3>2, <3>4, <3>5 DEF Reopened, Entry, Status
  <2> QED
    BY <2>1, <2>2
<1> HIDE DEF f
<1>2. f # NoEntry
  BY <1>1, EntryIsThere
<1>3. Recontented(f, a) = f /\ Rerisked(f, a) = f
  BY <1>1 DEF Recontented, Rerisked, Entry, Action
<1>4. [f EXCEPT !.approved = @ \cap a.toolsets, !.toolsets = a.toolsets] = f
  BY <1>1 DEF Entry
<1>5. Regrouped(f, a) = f
  BY <1>1, <1>4 DEF Regrouped
<1> QED
  BY <1>2, <1>3, <1>5 DEF SyncEntry, f
=============================================================================

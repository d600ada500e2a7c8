-------------------------- MODULE AtomicWriteProofs --------------------------
(***************************************************************************)
(* The safety properties of AtomicWrite, for any number of processes,      *)
(* texts of any length and any number of files, and that it implements     *)
(* SavedFile.                                                              *)
(*                                                                         *)
(* The argument: a save that is alone is the only one that has not been    *)
(* renamed yet, the file it writes is the temporary one, and that one is   *)
(* neither the file nor what a power loss may make of it.                  *)
(***************************************************************************)
EXTENDS AtomicWrite, TLAPS

Good(f) == Whole(content[f]) /\ synced[f] = content[f]

Alone(w) == writer[w] # Idle /\ writer[w].alone

\* What n - 1 writes of a text leave in an empty file.
Prefix(t, n) == [k \in Positions |-> IF k < n THEN <<t, k>> ELSE None]

Solo ==
  clean \/ (\E w \in Writers : Alone(w)) =>
    \A v \in Active : Alone(v) /\ \A u \in Active : u = v

InLength == \A w \in Writers : writer[w].pc = "write" => writer[w].at <= Length[writer[w].text]

AloneProgress ==
  \A w \in Writers : Alone(w) =>
    /\ writer[w].pc \in {"write", "fsync"} => writer[w].file = tmp
    /\ writer[w].pc = "write" => content[tmp] = Prefix(writer[w].text, writer[w].at)
    /\ writer[w].pc = "fsync" => content[tmp] = ContentOf(writer[w].text)
    /\ writer[w].pc = "replace" => tmp # None /\ Good(tmp)
    /\ writer[w].pc = "sync_directory" => path # None /\ Good(path)

ReadsOne ==
  \A r \in Readers : reader[r] # Idle =>
    /\ clean /\ reader[r].file # tmp
    /\ reader[r].text \in Texts /\ content[reader[r].file] = ContentOf(reader[r].text)
    /\ \A k \in Positions : k < reader[r].at => reader[r].got[k] = content[reader[r].file][k]

IInv == TypeOK /\ InLength /\ Solo /\ AloneProgress /\ WholeUnlessShared /\ ReadsOne

----------------------------------------------------------------------------
(* Texts and files.                                                        *)

LEMMA ContentTyped ==
  /\ Blank \in Content
  /\ \A t \in Texts : ContentOf(t) \in Content
  /\ \A t \in Texts : \A n \in Nat : Prefix(t, n) \in Content
BY AtomicWriteAssumption DEF Blank, ContentOf, Prefix, Content, Positions

\* Two texts differ in what their first write puts there.
LEMMA TextsDiffer ==
  ASSUME NEW t \in Texts, NEW u \in Texts, ContentOf(t) = ContentOf(u)
  PROVE  t = u
<1>1. 1 \in Positions /\ 1 <= Length[t] /\ 1 <= Length[u]
  BY AtomicWriteAssumption DEF Positions
<1>2. ContentOf(t)[1] = <<t, 1>> /\ ContentOf(u)[1] = <<u, 1>>
  BY <1>1 DEF ContentOf
<1> QED
  BY <1>2

LEMMA PrefixSteps ==
  ASSUME NEW t \in Texts, NEW n \in 1..Length[t]
  PROVE  /\ Prefix(t, 1) = Blank
         /\ [Prefix(t, n) EXCEPT ![n] = <<t, n>>] = Prefix(t, n + 1)
         /\ Prefix(t, Length[t] + 1) = ContentOf(t)
<1>1. Length[t] \in Nat /\ Length[t] <= MaxLength /\ MaxLength \in Nat
  BY AtomicWriteAssumption DEF Positions
<1>2. Prefix(t, 1) = Blank
  BY DEF Prefix, Blank, Positions
<1>3. [Prefix(t, n) EXCEPT ![n] = <<t, n>>] = Prefix(t, n + 1)
  <2>1. \A k \in Positions :
          (IF k = n THEN <<t, n>> ELSE IF k < n THEN <<t, k>> ELSE None)
            = IF k < n + 1 THEN <<t, k>> ELSE None
    BY <1>1 DEF Positions
  <2>2. [Prefix(t, n) EXCEPT ![n] = <<t, n>>]
          = [k \in Positions |->
               IF k = n THEN <<t, n>> ELSE IF k < n THEN <<t, k>> ELSE None]
    BY DEF Prefix
  <2> HIDE DEF Positions
  <2> QED
    BY <2>1, <2>2 DEF Prefix
<1>4. Prefix(t, Length[t] + 1) = ContentOf(t)
  BY <1>1 DEF Prefix, ContentOf, Positions
<1> QED
  BY <1>2, <1>3, <1>4

LEMMA WholeText ==
  ASSUME NEW f \in Files, NEW t \in Texts, content[f] = ContentOf(t)
  PROVE  Whole(content[f]) /\ TextOf(f) = t
<1>1. Whole(content[f])
  BY DEF Whole
<1>2. f # None
  BY AtomicWriteAssumption
<1>3. (CHOOSE u \in Texts : content[f] = ContentOf(u)) = t
  BY TextsDiffer
<1> QED
  BY <1>1, <1>2, <1>3 DEF TextOf

LEMMA WholeIsText ==
  ASSUME NEW f \in Files, Whole(content[f])
  PROVE  TextOf(f) \in Texts /\ content[f] = ContentOf(TextOf(f))
<1>1. PICK t \in Texts : content[f] = ContentOf(t)
  BY DEF Whole
<1> QED
  BY <1>1, WholeText

LEMMA WriterKinds ==
  ASSUME TypeOK, NEW w \in Writers
  PROVE  /\ writer[w].pc \in {"write", "fsync"} => writer[w] \in Writing /\ writer[w] # Idle
         /\ writer[w].pc \in {"replace", "sync_directory"} =>
              writer[w] \in Renaming /\ writer[w] # Idle
         /\ writer[w] = Idle \/ writer[w].pc \in {"write", "fsync", "replace", "sync_directory"}
         /\ writer[w] = Idle <=> writer[w].pc = "idle"
BY DEF TypeOK, Writing, Renaming, Idle

\* Nothing is alone and no file clean while a save that is not alone goes on.
LEMMA OthersSpoil ==
  ASSUME Solo, NEW w \in Active, ~Alone(w)
  PROVE  ~clean /\ \A v \in Writers : ~Alone(v)
BY DEF Solo

LEMMA InitInvariant == Init => IInv
<1> SUFFICES ASSUME Init PROVE IInv
  OBVIOUS
<1>1. content \in [Files -> Content]
  BY ContentTyped DEF Init
<1>2. TypeOK
  BY <1>1 DEF Init, TypeOK
<1>3. InLength /\ Solo /\ AloneProgress /\ ReadsOne
  BY DEF Init, InLength, Solo, AloneProgress, ReadsOne, Alone, Active, Idle
<1>4. WholeUnlessShared
  BY DEF Init, WholeUnlessShared, Whole
<1> QED
  BY <1>2, <1>3, <1>4 DEF IInv

----------------------------------------------------------------------------
(* Steps.                                                                  *)

\* A spoilt file nobody has to himself: nothing else is claimed of it.
LEMMA NobodyAlone ==
  ASSUME TypeOK', InLength', ~clean', \A w \in Writers : ~Alone(w)',
         \A r \in Readers : reader'[r] = Idle
  PROVE  IInv'
BY DEF IInv, Solo, AloneProgress, WholeUnlessShared, ReadsOne

LEMMA StillSolo ==
  ASSUME Solo, Active' \subseteq Active,
         clean' => clean \/ \E w \in Writers : Alone(w),
         \A w \in Writers : Alone(w)' => Alone(w),
         \A w \in Active' : Alone(w) => Alone(w)'
  PROVE  Solo'
<1> SUFFICES ASSUME clean' \/ \E w \in Writers : Alone(w)'
             PROVE  \A v \in Active' : Alone(v)' /\ \A u \in Active' : u = v
  BY DEF Solo
<1>1. clean \/ \E w \in Writers : Alone(w)
  OBVIOUS
<1>2. \A v \in Active : Alone(v) /\ \A u \in Active : u = v
  BY <1>1 DEF Solo
<1> QED
  BY <1>2

LEMMA OpenKeeps ==
  ASSUME IInv, NEW w \in Writers, NEW t \in Texts, Open(w, t)
  PROVE  IInv'
<1> USE DEF IInv
<1>1. PICK f \in Files :
        /\ IF tmp # None THEN f = tmp ELSE f \notin InUse
        /\ tmp' = f
        /\ content' = [Used(content) EXCEPT ![f] = Blank]
        /\ synced' = Used(synced)
        /\ writer' = Begun(w, t, f)
  BY DEF Open
<1>2. writer[w] = Idle /\ path' = path /\ paths' = paths
  BY DEF Open
<1>3. f \notin paths /\ path \in paths
  BY <1>1, AtomicWriteAssumption DEF TypeOK, InUse
<1>4. \A g \in Files : g \in InUse /\ g # f => content'[g] = content[g] /\ synced'[g] = synced[g]
  BY <1>1 DEF Used
<1>5. content'[f] = Blank
  BY <1>1 DEF Used
<1>6. /\ content' \in [Files -> Content] /\ synced' \in [Files -> Content]
  BY <1>1, ContentTyped DEF TypeOK, Used
<1>7. \A v \in Writers : writer'[v] =
        IF v = w THEN [pc |-> "write", text |-> t, file |-> f, at |-> 1, alone |-> Active = {}]
        ELSE IF Active # {} /\ writer[v] # Idle THEN [writer[v] EXCEPT !.alone = FALSE]
        ELSE writer[v]
  BY <1>1 DEF Begun
<1>8. 1 \in 1..MaxLength + 1 /\ 1 <= Length[t]
  BY AtomicWriteAssumption DEF Positions
<1>9. /\ writer'[w] \in Writing /\ writer'[w].pc = "write" /\ writer'[w].text = t
      /\ writer'[w].file = f /\ writer'[w].at = 1 /\ writer'[w].alone = (Active = {})
      /\ writer'[w] # Idle
  <2> DEFINE o == [pc |-> "write", text |-> t, file |-> f, at |-> 1, alone |-> Active = {}]
  <2>1. writer'[w] = o
    BY <1>7
  <2>2. o \in Writing /\ o # Idle
    BY <1>8 DEF Writing, Idle
  <2> QED
    BY <2>1, <2>2
<1>10. ASSUME NEW v \in Writers, v # w
       PROVE  /\ writer'[v] \in Writing \cup Renaming \cup {Idle}
              /\ writer'[v] = Idle <=> writer[v] = Idle
              /\ writer'[v].pc = writer[v].pc
              /\ writer[v].pc = "write" =>
                   writer'[v].at = writer[v].at /\ writer'[v].text = writer[v].text
              /\ Active # {} => ~Alone(v)'
  <2>1. CASE Active # {} /\ writer[v] # Idle
    <3>1. writer'[v] = [writer[v] EXCEPT !.alone = FALSE]
      BY <1>7, <1>10, <2>1
    <3>2. CASE writer[v] \in Writing
      BY <2>1, <3>1, <3>2 DEF Writing, Idle, Alone
    <3>3. CASE writer[v] \in Renaming
      BY <2>1, <3>1, <3>3 DEF Renaming, Idle, Alone
    <3> QED
      BY <2>1, <3>2, <3>3 DEF TypeOK
  <2>2. CASE ~(Active # {} /\ writer[v] # Idle)
    BY <1>7, <1>10, <2>2 DEF TypeOK, Alone
  <2> QED
    BY <2>1, <2>2
<1>11. InLength'
  BY <1>8, <1>9, <1>10 DEF InLength
<1>12. writer' \in [Writers -> Writing \cup Renaming \cup {Idle}]
  <2>1. writer' = [v \in Writers |-> writer'[v]]
    BY <1>1 DEF Begun
  <2> QED
    BY <1>9, <1>10, <2>1
<1>13. CASE Active = {}
  <2>1. clean' = clean /\ reader' = reader
    BY <1>13 DEF Open, Overlap
  <2>2. \A v \in Writers : v # w => writer'[v] = writer[v] /\ v \notin Active
    BY <1>7, <1>13
  <2>3. TypeOK'
    BY <1>1, <1>2, <1>3, <1>6, <1>12, <2>1 DEF TypeOK
  <2>4. Solo'
    <3>1. \A v \in Writers : v \in Active' => v = w
      BY <2>2 DEF Active
    <3>2. Alone(w)'
      BY <1>9, <1>13 DEF Alone
    <3> QED
      BY <3>1, <3>2 DEF Solo, Active
  <2>5. Good(path)' \/ path = None \/ ~Good(path)
    <3>1. path \in InUse
      BY DEF InUse
    <3>2. CASE path # None
      BY <1>2, <1>3, <1>4, <3>1, <3>2 DEF Good, TypeOK
    <3> QED
      BY <3>2
  <2>6. AloneProgress'
    <3> SUFFICES ASSUME NEW v \in Writers, Alone(v)'
                 PROVE  /\ writer'[v].pc \in {"write", "fsync"} => writer'[v].file = tmp'
                        /\ writer'[v].pc = "write" =>
                             content'[tmp'] = Prefix(writer'[v].text, writer'[v].at)
                        /\ writer'[v].pc = "fsync" =>
                             content'[tmp'] = ContentOf(writer'[v].text)
                        /\ writer'[v].pc = "replace" => tmp' # None /\ Good(tmp)'
                        /\ writer'[v].pc = "sync_directory" => path' # None /\ Good(path)'
      BY DEF AloneProgress
    <3>1. CASE v = w
      <4>1. 1 \in 1..Length[t]
        BY <1>8, AtomicWriteAssumption DEF Positions
      <4>2. Prefix(t, 1) = Blank
        BY <4>1, PrefixSteps
      <4> QED
        BY <1>1, <1>5, <1>9, <3>1, <4>2
    <3>2. CASE v # w
      <4>1. writer'[v] = writer[v] /\ Alone(v) /\ writer[v].pc \notin {"write", "fsync", "replace"}
        BY <2>2, <3>2 DEF Alone, Active
      <4> QED
        BY <1>2, <2>5, <4>1 DEF AloneProgress
    <3> QED
      BY <3>1, <3>2
  <2>7. WholeUnlessShared'
    <3>1. \A g \in paths \ {None} : g \in Files /\ g \in InUse /\ g # f
      BY <1>3 DEF InUse, TypeOK
    <3> QED
      BY <1>2, <1>4, <2>1, <3>1 DEF WholeUnlessShared
  <2>8. ReadsOne'
    <3> SUFFICES ASSUME NEW r \in Readers, reader[r] # Idle
                 PROVE  /\ reader[r].file # f
                        /\ content'[reader[r].file] = content[reader[r].file]
      BY <1>1, <2>1 DEF ReadsOne
    <3>1. reader[r].file \in Files /\ reader[r].file \in InUse /\ reader[r].file # tmp
      BY DEF TypeOK, Reading, InUse, ReadsOne
    <3> QED
      BY <1>1, <1>4, <3>1
  <2> QED
    BY <1>11, <2>3, <2>4, <2>6, <2>7, <2>8
<1>14. CASE Active # {}
  <2>1. clean' = FALSE /\ reader' = [r \in Readers |-> Idle]
    BY <1>14 DEF Open, Overlap
  <2>2. TypeOK'
    BY <1>1, <1>2, <1>3, <1>6, <1>12, <2>1 DEF TypeOK
  <2>3. \A v \in Writers : ~Alone(v)'
    BY <1>9, <1>10, <1>14 DEF Alone
  <2> QED
    BY <1>11, <2>1, <2>2, <2>3, NobodyAlone
<1> QED
  BY <1>13, <1>14

LEMMA WriteKeeps ==
  ASSUME IInv, NEW w \in Writers, Write(w)
  PROVE  IInv'
<1> USE DEF IInv
<1> DEFINE f == writer[w].file
           n == writer[w].at
           t == writer[w].text
<1>1. /\ writer[w] \in Writing /\ writer[w] # Idle /\ writer[w].pc = "write"
      /\ f \in Files /\ t \in Texts /\ n \in 1..Length[t] /\ w \in Active
  <2>1. writer[w].pc = "write" /\ writer[w] \in Writing /\ writer[w] # Idle
    BY WriterKinds DEF Write
  <2>2. n \in 1..MaxLength + 1 /\ n <= Length[t] /\ f \in Files /\ t \in Texts
    BY <2>1 DEF Writing, InLength
  <2> QED
    BY <2>1, <2>2, AtomicWriteAssumption DEF Active, Positions
<1>2. n \in Positions /\ n + 1 \in 1..MaxLength + 1 /\ Length[t] \in Positions
  BY <1>1, AtomicWriteAssumption DEF Positions
<1>3. /\ content' = [content EXCEPT ![f] = [content[f] EXCEPT ![n] = <<t, n>>]]
      /\ path' = path /\ tmp' = tmp /\ synced' = synced /\ paths' = paths
      /\ reader' = reader /\ clean' = clean
  BY DEF Write
<1>4. writer' = [writer EXCEPT ![w] =
        [writer[w] EXCEPT !.at = n + 1, !.pc = IF n = Length[t] THEN "fsync" ELSE "write"]]
  <2>1. writer' = [writer EXCEPT ![w].at = @ + 1,
                                 ![w].pc = IF n = Length[t] THEN "fsync" ELSE @]
    BY DEF Write
  <2> QED
    BY <1>1, <2>1 DEF Writing, TypeOK
<1>5. /\ writer'[w] \in Writing /\ writer'[w] # Idle
      /\ writer'[w].pc = (IF n = Length[t] THEN "fsync" ELSE "write")
      /\ writer'[w].at = n + 1 /\ writer'[w].text = t /\ writer'[w].file = f
      /\ writer'[w].alone = writer[w].alone
  <2> DEFINE o == [writer[w] EXCEPT !.at = n + 1,
                                    !.pc = IF n = Length[t] THEN "fsync" ELSE "write"]
  <2>1. writer'[w] = o
    BY <1>4 DEF TypeOK
  <2>2. /\ o \in Writing /\ o.pc = (IF n = Length[t] THEN "fsync" ELSE "write")
        /\ o.at = n + 1 /\ o.text = t /\ o.file = f /\ o.alone = writer[w].alone
    BY <1>1, <1>2 DEF Writing
  <2>3. o # Idle
    BY <2>2 DEF Idle
  <2> QED
    BY <2>1, <2>2, <2>3
<1>6. \A v \in Writers : v # w => writer'[v] = writer[v]
  BY <1>4 DEF TypeOK
<1>7. content' \in [Files -> Content]
  <2>1. content[f] \in Content /\ <<t, n>> \in Texts \X Positions
    BY <1>1, <1>2 DEF TypeOK
  <2>2. [content[f] EXCEPT ![n] = <<t, n>>] \in Content
    BY <1>2, <2>1 DEF Content
  <2> QED
    BY <1>3, <2>2 DEF TypeOK
<1>8. TypeOK'
  BY <1>3, <1>4, <1>5, <1>7 DEF TypeOK
<1>9. InLength'
  BY <1>1, <1>2, <1>5, <1>6 DEF InLength, Positions
<1>10. CASE ~Alone(w)
  <2>1. ~clean /\ \A v \in Writers : ~Alone(v)
    BY <1>1, <1>10, OthersSpoil
  <2>2. \A v \in Writers : ~Alone(v)'
    BY <1>1, <1>5, <1>6, <1>10, <2>1 DEF Alone
  <2>3. \A r \in Readers : reader'[r] = Idle
    BY <1>3, <2>1 DEF ReadsOne
  <2> QED
    BY <1>3, <1>8, <1>9, <2>1, <2>2, <2>3, NobodyAlone
<1>11. CASE Alone(w)
  <2>1. f = tmp /\ tmp \in Files /\ tmp # None /\ tmp \notin paths /\ path # tmp
        /\ content[tmp] = Prefix(t, n)
    BY <1>1, <1>11, AtomicWriteAssumption DEF AloneProgress, TypeOK
  <2>2. \A g \in Files : g # tmp => content'[g] = content[g]
    BY <1>3, <2>1 DEF TypeOK
  <2>3. content'[tmp] = Prefix(t, n + 1)
    <3>1. content'[tmp] = [content[tmp] EXCEPT ![n] = <<t, n>>]
      BY <1>3, <2>1 DEF TypeOK
    <3>2. [Prefix(t, n) EXCEPT ![n] = <<t, n>>] = Prefix(t, n + 1)
      BY <1>1, PrefixSteps
    <3> QED
      BY <2>1, <3>1, <3>2
  <2>4. n = Length[t] => content'[tmp] = ContentOf(t)
    <3>1. Prefix(t, Length[t] + 1) = ContentOf(t)
      BY <1>1, PrefixSteps
    <3> QED
      BY <2>3, <3>1
  <2>5. Solo'
    <3>1. \A v \in Writers : Alone(v)' <=> Alone(v)
      BY <1>1, <1>5, <1>6, <1>11 DEF Alone
    <3>2. Active' = Active
      BY <1>1, <1>5, <1>6 DEF Active
    <3> QED
      BY <1>3, <3>1, <3>2, StillSolo DEF Active
  <2>6. AloneProgress'
    <3> SUFFICES ASSUME NEW v \in Writers, Alone(v)'
                 PROVE  /\ writer'[v].pc \in {"write", "fsync"} => writer'[v].file = tmp'
                        /\ writer'[v].pc = "write" =>
                             content'[tmp'] = Prefix(writer'[v].text, writer'[v].at)
                        /\ writer'[v].pc = "fsync" =>
                             content'[tmp'] = ContentOf(writer'[v].text)
                        /\ writer'[v].pc = "replace" => tmp' # None /\ Good(tmp)'
                        /\ writer'[v].pc = "sync_directory" => path' # None /\ Good(path)'
      BY DEF AloneProgress
    <3>1. CASE v = w
      BY <1>3, <1>5, <2>1, <2>3, <2>4, <3>1
    <3>2. CASE v # w
      <4>1. writer'[v] = writer[v] /\ Alone(v) /\ v \notin Active
        BY <1>1, <1>6, <1>11, <3>2 DEF Alone, Solo
      <4>2. path # None => content'[path] = content[path]
        BY <2>1, <2>2 DEF TypeOK
      <4> QED
        BY <1>3, <4>1, <4>2 DEF AloneProgress, Active, Good
    <3> QED
      BY <3>1, <3>2
  <2>7. WholeUnlessShared'
    <3>1. \A g \in paths \ {None} : g \in Files /\ g # tmp
      BY <2>1 DEF TypeOK
    <3> QED
      BY <1>3, <2>2, <3>1 DEF WholeUnlessShared
  <2>8. ReadsOne'
    <3>1. \A r \in Readers : reader[r] # Idle =>
             reader[r].file \in Files /\ reader[r].file # tmp
      BY DEF TypeOK, Reading, ReadsOne
    <3> QED
      BY <1>3, <2>2, <3>1 DEF ReadsOne
  <2> QED
    BY <1>8, <1>9, <2>5, <2>6, <2>7, <2>8
<1> QED
  BY <1>10, <1>11

LEMMA FsyncKeeps ==
  ASSUME IInv, NEW w \in Writers, Fsync(w)
  PROVE  IInv'
<1> USE DEF IInv
<1> DEFINE f == writer[w].file
<1>1. /\ writer[w] \in Writing /\ writer[w] # Idle /\ writer[w].pc = "fsync"
      /\ f \in Files /\ writer[w].text \in Texts /\ w \in Active
  <2>1. writer[w].pc = "fsync" /\ writer[w] \in Writing /\ writer[w] # Idle
    BY WriterKinds DEF Fsync
  <2> QED
    BY <2>1 DEF Active, Writing
<1>2. /\ synced' = [synced EXCEPT ![f] = content[f]] /\ content' = content
      /\ path' = path /\ tmp' = tmp /\ paths' = paths /\ reader' = reader /\ clean' = clean
  BY DEF Fsync
<1>3. /\ writer'[w] \in Renaming /\ writer'[w] # Idle /\ writer'[w].pc = "replace"
      /\ writer'[w].alone = writer[w].alone
      /\ \A v \in Writers : v # w => writer'[v] = writer[v]
  <2> DEFINE o == [pc |-> "replace", alone |-> writer[w].alone]
  <2>1. writer' = [writer EXCEPT ![w] = o]
    BY DEF Fsync
  <2>2. o \in Renaming /\ o # Idle /\ o.pc = "replace" /\ o.alone = writer[w].alone
    BY <1>1 DEF Writing, Renaming, Idle
  <2> QED
    BY <2>1, <2>2 DEF TypeOK
<1>4. TypeOK'
  <2>1. writer' = [writer EXCEPT ![w] = writer'[w]]
    BY DEF Fsync, TypeOK
  <2>2. synced' \in [Files -> Content]
    BY <1>1, <1>2 DEF TypeOK
  <2> QED
    BY <1>2, <1>3, <2>1, <2>2 DEF TypeOK
<1>5. InLength'
  BY <1>3 DEF InLength
<1>6. Active' = Active
  BY <1>1, <1>3 DEF Active
<1>7. \A v \in Writers : Alone(v)' <=> Alone(v)
  BY <1>1, <1>3 DEF Alone
<1>8. CASE ~Alone(w)
  <2>1. ~clean /\ \A v \in Writers : ~Alone(v)
    BY <1>1, <1>8, OthersSpoil
  <2>2. \A r \in Readers : reader'[r] = Idle
    BY <1>2, <2>1 DEF ReadsOne
  <2> QED
    BY <1>2, <1>4, <1>5, <1>7, <2>1, <2>2, NobodyAlone
<1>9. CASE Alone(w)
  <2>1. f = tmp /\ tmp \in Files /\ tmp # None /\ tmp \notin paths /\ path # tmp
        /\ content[tmp] = ContentOf(writer[w].text)
    BY <1>1, <1>9, AtomicWriteAssumption DEF AloneProgress, TypeOK
  <2>2. Good(tmp)'
    BY <1>1, <1>2, <2>1 DEF Good, Whole, TypeOK
  <2>3. \A g \in Files : g # tmp => synced'[g] = synced[g]
    BY <1>2, <2>1 DEF TypeOK
  <2>4. AloneProgress'
    <3> SUFFICES ASSUME NEW v \in Writers, Alone(v)'
                 PROVE  /\ writer'[v].pc \in {"write", "fsync"} => writer'[v].file = tmp'
                        /\ writer'[v].pc = "write" =>
                             content'[tmp'] = Prefix(writer'[v].text, writer'[v].at)
                        /\ writer'[v].pc = "fsync" =>
                             content'[tmp'] = ContentOf(writer'[v].text)
                        /\ writer'[v].pc = "replace" => tmp' # None /\ Good(tmp)'
                        /\ writer'[v].pc = "sync_directory" => path' # None /\ Good(path)'
      BY DEF AloneProgress
    <3>1. CASE v = w
      BY <1>2, <1>3, <2>1, <2>2, <3>1
    <3>2. CASE v # w
      <4>1. writer'[v] = writer[v] /\ Alone(v) /\ v \notin Active
        BY <1>1, <1>3, <1>7, <1>9, <3>2 DEF Solo
      <4>2. path # None => synced'[path] = synced[path]
        BY <2>1, <2>3 DEF TypeOK
      <4> QED
        BY <1>2, <4>1, <4>2 DEF AloneProgress, Active, Good
    <3> QED
      BY <3>1, <3>2
  <2>5. WholeUnlessShared'
    <3>1. \A g \in paths \ {None} : g \in Files /\ g # tmp
      BY <2>1 DEF TypeOK
    <3> QED
      BY <1>2, <2>3, <3>1 DEF WholeUnlessShared
  <2>6. Solo' /\ ReadsOne'
    BY <1>2, <1>6, <1>7, StillSolo DEF ReadsOne, Active
  <2> QED
    BY <1>4, <1>5, <2>4, <2>5, <2>6
<1> QED
  BY <1>8, <1>9

LEMMA ReplaceKeeps ==
  ASSUME IInv, NEW w \in Writers, Replace(w)
  PROVE  IInv'
<1> USE DEF IInv
<1>1. writer[w] \in Renaming /\ writer[w] # Idle /\ writer[w].pc = "replace" /\ w \in Active
  <2>1. writer[w].pc = "replace"
    BY DEF Replace
  <2> QED
    BY <2>1, WriterKinds DEF Active
<1>2. content' = content /\ synced' = synced /\ reader' = reader /\ clean' = clean
  BY DEF Replace
<1>3. /\ \A v \in Writers : v # w => writer'[v] = writer[v]
      /\ writer'[w] \in Renaming \cup {Idle} /\ writer'[w].pc \in {"idle", "sync_directory"}
      /\ Alone(w)' => Alone(w)
      /\ writer' \in [Writers -> Writing \cup Renaming \cup {Idle}]
  <2>1. CASE tmp = None
    <3>1. writer' = [writer EXCEPT ![w] = Idle]
      BY <2>1 DEF Replace
    <3>2. writer'[w] = Idle
      BY <3>1 DEF TypeOK
    <3> QED
      BY <3>1, <3>2 DEF TypeOK, Alone, Idle
  <2>2. CASE tmp # None
    <3> DEFINE o == [writer[w] EXCEPT !.pc = "sync_directory"]
    <3>1. writer' = [writer EXCEPT ![w] = o]
      BY <2>2 DEF Replace
    <3>2. o \in Renaming /\ o.pc = "sync_directory" /\ o.alone = writer[w].alone
      BY <1>1 DEF Renaming
    <3>3. writer'[w] = o
      BY <3>1 DEF TypeOK
    <3> QED
      BY <1>1, <3>1, <3>2, <3>3 DEF TypeOK, Alone
  <2> QED
    BY <2>1, <2>2
<1>4. TypeOK'
  <2>1. CASE tmp = None
    BY <1>2, <1>3, <2>1 DEF TypeOK, Replace
  <2>2. CASE tmp # None
    <3>1. path' = tmp /\ tmp' = None /\ paths' = paths \cup {tmp}
      BY <2>2 DEF Replace
    <3> QED
      BY <1>2, <1>3, <3>1 DEF TypeOK
  <2> QED
    BY <2>1, <2>2
<1>5. InLength'
  BY <1>3 DEF InLength
<1>6. Active' = Active \ {w}
  BY <1>1, <1>3 DEF Active
<1>7. CASE ~Alone(w)
  <2>1. ~clean /\ \A v \in Writers : ~Alone(v)
    BY <1>1, <1>7, OthersSpoil
  <2>2. \A v \in Writers : ~Alone(v)'
    BY <1>3, <2>1 DEF Alone
  <2>3. \A r \in Readers : reader'[r] = Idle
    BY <1>2, <2>1 DEF ReadsOne
  <2> QED
    BY <1>2, <1>4, <1>5, <2>1, <2>2, <2>3, NobodyAlone
<1>8. CASE Alone(w)
  <2>1. tmp # None /\ Good(tmp)
    BY <1>1, <1>8 DEF AloneProgress
  <2>2. path' = tmp /\ tmp' = None /\ paths' = paths \cup {tmp}
    BY <2>1 DEF Replace
  <2>3. Good(path)' /\ path' # None
    BY <1>2, <2>1, <2>2 DEF Good
  <2>4. Active' = {}
    BY <1>1, <1>6, <1>8 DEF Solo
  <2>5. Solo'
    BY <2>4 DEF Solo
  <2>6. AloneProgress'
    <3>1. \A v \in Writers : writer'[v].pc \notin {"write", "fsync", "replace"}
      BY <2>4 DEF Active
    <3> QED
      BY <2>3, <3>1 DEF AloneProgress
  <2>7. WholeUnlessShared'
    BY <1>2, <2>1, <2>2 DEF WholeUnlessShared, Good
  <2>8. ReadsOne'
    <3>1. \A r \in Readers : reader[r] # Idle => reader[r].file # None
      BY AtomicWriteAssumption DEF TypeOK, Reading
    <3> QED
      BY <1>2, <2>2, <3>1 DEF ReadsOne
  <2> QED
    BY <1>4, <1>5, <2>5, <2>6, <2>7, <2>8
<1> QED
  BY <1>7, <1>8

LEMMA SyncDirectoryKeeps ==
  ASSUME IInv, NEW w \in Writers, SyncDirectory(w)
  PROVE  IInv'
<1> USE DEF IInv
<1>1. writer[w] \in Renaming /\ writer[w] # Idle /\ writer[w].pc = "sync_directory"
  <2>1. writer[w].pc = "sync_directory"
    BY DEF SyncDirectory
  <2> QED
    BY <2>1, WriterKinds
<1>2. /\ path' = path /\ tmp' = tmp /\ content' = content /\ synced' = synced
      /\ reader' = reader /\ paths' = {path} /\ clean' = (clean \/ writer[w].alone)
  BY DEF SyncDirectory
<1>3. /\ \A v \in Writers : v # w => writer'[v] = writer[v]
      /\ writer'[w] = Idle
  BY DEF SyncDirectory, TypeOK
<1>4. TypeOK'
  <2>1. writer' \in [Writers -> Writing \cup Renaming \cup {Idle}]
    BY DEF SyncDirectory, TypeOK
  <2>2. clean' \in BOOLEAN
    BY <1>1, <1>2 DEF TypeOK, Renaming
  <2> QED
    BY <1>2, <2>1, <2>2 DEF TypeOK
<1>5. InLength'
  BY <1>3 DEF InLength, Idle
<1>6. Active' = Active /\ w \notin Active
  BY <1>1, <1>3 DEF Active, Idle
<1>7. \A v \in Writers : v # w => (Alone(v)' <=> Alone(v))
  BY <1>3 DEF Alone
<1>8. ~Alone(w)' /\ (writer[w].alone => Alone(w))
  BY <1>1, <1>3 DEF Alone
<1>9. Solo'
  BY <1>2, <1>6, <1>7, <1>8, StillSolo DEF Active
<1>10. AloneProgress'
  BY <1>2, <1>3, <1>7, <1>8 DEF AloneProgress, Good
<1>11. WholeUnlessShared'
  <2>1. CASE clean
    BY <1>2, <2>1 DEF WholeUnlessShared, TypeOK
  <2>2. CASE ~clean /\ writer[w].alone
    <3>1. Good(path)
      BY <1>1, <1>8, <2>2 DEF AloneProgress
    <3> QED
      BY <1>2, <3>1 DEF WholeUnlessShared, Good
  <2>3. CASE ~clean /\ ~writer[w].alone
    BY <1>2, <2>3 DEF WholeUnlessShared
  <2> QED
    BY <2>1, <2>2, <2>3
<1>12. ReadsOne'
  BY <1>2 DEF ReadsOne
<1> QED
  BY <1>4, <1>5, <1>9, <1>10, <1>11, <1>12

LEMMA LeaveKeeps ==
  ASSUME IInv, NEW w \in Writers, Leave(w)
  PROVE  IInv'
<1> USE DEF IInv
<1>1. /\ path' = path /\ tmp' = tmp /\ content' = content /\ synced' = synced
      /\ reader' = reader /\ paths' = paths /\ clean' = clean
      /\ writer'[w] = Idle
      /\ \A v \in Writers : v # w => writer'[v] = writer[v]
  BY DEF Leave, TypeOK
<1>2. TypeOK'
  <2>1. writer' \in [Writers -> Writing \cup Renaming \cup {Idle}]
    BY DEF Leave, TypeOK
  <2> QED
    BY <1>1, <2>1 DEF TypeOK
<1>3. InLength'
  BY <1>1 DEF InLength, Idle
<1>4. Active' = Active \ {w}
  BY <1>1 DEF Active, Idle
<1>5. ~Alone(w)' /\ \A v \in Writers : v # w => (Alone(v)' <=> Alone(v))
  BY <1>1 DEF Alone
<1>6. Solo'
  BY <1>1, <1>4, <1>5, StillSolo DEF Active
<1>7. AloneProgress'
  BY <1>1, <1>5 DEF AloneProgress, Good
<1>8. WholeUnlessShared' /\ ReadsOne'
  BY <1>1 DEF WholeUnlessShared, ReadsOne
<1> QED
  BY <1>2, <1>3, <1>6, <1>7, <1>8

LEMMA BeginLoadKeeps ==
  ASSUME IInv, NEW r \in Readers, BeginLoad(r)
  PROVE  IInv'
<1> USE DEF IInv
<1> DEFINE o == [pc |-> "read", text |-> TextOf(path), file |-> path, got |-> Blank, at |-> 1]
<1>1. clean /\ path \in Files /\ path # None /\ path # tmp
  BY AtomicWriteAssumption DEF BeginLoad, TypeOK
<1>2. TextOf(path) \in Texts /\ content[path] = ContentOf(TextOf(path))
  BY <1>1, WholeIsText DEF WholeUnlessShared, TypeOK
<1>3. o \in Reading
  BY <1>1, <1>2, ContentTyped, AtomicWriteAssumption DEF Reading, Positions
<1>4. UNCHANGED <<path, tmp, content, synced, paths, writer, clean>>
  BY DEF BeginLoad
<1>5. reader' = [reader EXCEPT ![r] = o]
  BY DEF BeginLoad
<1>6. TypeOK'
  BY <1>3, <1>4, <1>5 DEF TypeOK
<1>7. InLength' /\ Solo' /\ AloneProgress' /\ WholeUnlessShared'
  BY <1>4 DEF InLength, Solo, AloneProgress, WholeUnlessShared, Alone, Active, Good
<1>8. ReadsOne'
  <2> SUFFICES ASSUME NEW q \in Readers, reader'[q] # Idle
               PROVE  /\ clean /\ reader'[q].file # tmp /\ reader'[q].text \in Texts
                      /\ content[reader'[q].file] = ContentOf(reader'[q].text)
                      /\ \A k \in Positions : k < reader'[q].at =>
                           reader'[q].got[k] = content[reader'[q].file][k]
    BY <1>4 DEF ReadsOne
  <2>1. CASE q = r
    <3>1. reader'[q] = o
      BY <1>5, <2>1 DEF TypeOK
    <3>2. \A k \in Positions : ~(k < 1)
      BY DEF Positions
    <3> QED
      BY <1>1, <1>2, <3>1, <3>2
  <2>2. CASE q # r
    <3>1. reader'[q] = reader[q]
      BY <1>5, <2>2 DEF TypeOK
    <3> QED
      BY <3>1 DEF ReadsOne
  <2> QED
    BY <2>1, <2>2
<1> QED
  BY <1>6, <1>7, <1>8

LEMMA ReadKeeps ==
  ASSUME IInv, NEW r \in Readers, Read(r)
  PROVE  IInv'
<1> USE DEF IInv
<1> DEFINE o == [reader[r] EXCEPT !.got = Got(r), !.at = reader[r].at + 1]
<1>1. reader[r] # Idle /\ reader[r] \in Reading
  BY DEF Read, TypeOK
<1>2. UNCHANGED <<path, tmp, content, synced, paths, writer, clean>>
  BY DEF Read
<1>3. reader' = [reader EXCEPT ![r] = IF reader[r].at = MaxLength THEN Idle ELSE o]
  BY DEF Read
<1>4. \A q \in Readers :
        reader'[q] = IF q # r THEN reader[q] ELSE IF reader[r].at = MaxLength THEN Idle ELSE o
  BY <1>3 DEF TypeOK
<1>5. /\ reader[r].at \in Positions /\ reader[r].file \in Files
      /\ reader[r].got \in Content /\ content[reader[r].file] \in Content
  BY <1>1 DEF Reading, TypeOK
<1>6. Got(r) \in Content
  <2>1. content[reader[r].file][reader[r].at] \in (Texts \X Positions) \cup {None}
    BY <1>5 DEF Content
  <2> QED
    BY <1>5, <2>1 DEF Got, Content
<1>7. reader[r].at # MaxLength => o \in Reading
  <2>1. reader[r].at # MaxLength => reader[r].at + 1 \in Positions
    BY <1>5, AtomicWriteAssumption DEF Positions
  <2> QED
    BY <1>1, <1>6, <2>1 DEF Reading
<1>8. TypeOK'
  BY <1>2, <1>3, <1>7 DEF TypeOK
<1>9. InLength' /\ Solo' /\ AloneProgress' /\ WholeUnlessShared'
  BY <1>2 DEF InLength, Solo, AloneProgress, WholeUnlessShared, Alone, Active, Good
<1>10. ReadsOne'
  <2> SUFFICES ASSUME NEW q \in Readers, reader'[q] # Idle
               PROVE  /\ clean /\ reader'[q].file # tmp /\ reader'[q].text \in Texts
                      /\ content[reader'[q].file] = ContentOf(reader'[q].text)
                      /\ \A k \in Positions : k < reader'[q].at =>
                           reader'[q].got[k] = content[reader'[q].file][k]
    BY <1>2 DEF ReadsOne
  <2>1. CASE q = r
    <3>1. reader'[q] = o
      BY <1>4, <2>1
    <3>2. /\ o.file = reader[r].file /\ o.text = reader[r].text
          /\ o.at = reader[r].at + 1 /\ o.got = Got(r)
      BY <1>1 DEF Reading
    <3>3. ASSUME NEW k \in Positions, k < reader[r].at + 1
          PROVE  Got(r)[k] = content[reader[r].file][k]
      <4>1. CASE k = reader[r].at
        BY <1>5, <4>1 DEF Got, Content
      <4>2. CASE k # reader[r].at
        <5>1. k < reader[r].at
          BY <1>5, <3>3, <4>2 DEF Positions
        <5> QED
          BY <1>1, <1>5, <4>2, <5>1 DEF Got, Content, ReadsOne
      <4> QED
        BY <4>1, <4>2
    <3> HIDE DEF o
    <3> QED
      BY <1>1, <3>1, <3>2, <3>3 DEF ReadsOne
  <2>2. CASE q # r
    BY <1>4, <2>2 DEF ReadsOne
  <2> QED
    BY <2>1, <2>2
<1> QED
  BY <1>8, <1>9, <1>10

\* What a power loss leaves, and that it takes nothing from a clean file.
LEMMA PowerLossLeaves ==
  ASSUME IInv, PowerLoss
  PROVE  \E p \in paths :
           /\ path' = p /\ paths' = {p} /\ tmp' = None
           /\ content' \in [Files -> Content] /\ synced' = content'
           /\ writer' = [w \in Writers |-> Idle] /\ reader' = [r \in Readers |-> Idle]
           /\ clean' = clean
           /\ clean /\ p # None => content'[p] = content[p]
<1> USE DEF IInv
<1>0. PICK p \in paths :
        \E lost \in SUBSET {k \in Positions : p # None /\ synced[p][k] # content[p][k]} :
          /\ path' = p /\ paths' = {p} /\ tmp' = None
          /\ content' = [f \in Files |-> [k \in Positions |->
                           IF f # p THEN None
                           ELSE IF k \in lost THEN synced[f][k] ELSE content[f][k]]]
          /\ synced' = content'
          /\ writer' = [w \in Writers |-> Idle]
          /\ reader' = [r \in Readers |-> Idle]
          /\ clean' = clean
  BY DEF PowerLoss
<1>1. PICK lost \in SUBSET {k \in Positions : p # None /\ synced[p][k] # content[p][k]} :
        /\ path' = p /\ paths' = {p} /\ tmp' = None
        /\ content' = [f \in Files |-> [k \in Positions |->
                         IF f # p THEN None
                         ELSE IF k \in lost THEN synced[f][k] ELSE content[f][k]]]
        /\ synced' = content'
        /\ writer' = [w \in Writers |-> Idle]
        /\ reader' = [r \in Readers |-> Idle]
        /\ clean' = clean
  BY <1>0
<1>2. content' \in [Files -> Content]
  <2>1. \A f \in Files : \A k \in Positions :
          content[f][k] \in (Texts \X Positions) \cup {None}
          /\ synced[f][k] \in (Texts \X Positions) \cup {None}
    BY DEF TypeOK, Content
  <2> HIDE DEF Positions
  <2> QED
    BY <1>1, <2>1 DEF Content
<1>3. ASSUME clean, p # None PROVE content'[p] = content[p]
  <2>1. p \in Files /\ synced[p] = content[p]
    BY <1>3 DEF WholeUnlessShared, TypeOK
  <2>2. lost = {}
    BY <2>1
  <2>3. content'[p] = [k \in Positions |-> content[p][k]]
    BY <1>1, <2>1, <2>2
  <2>4. content[p] \in Content
    BY <2>1 DEF TypeOK
  <2> QED
    BY <2>3, <2>4 DEF Content
<1> QED
  BY <1>1, <1>2, <1>3

LEMMA PowerLossKeeps ==
  ASSUME IInv, PowerLoss
  PROVE  IInv'
<1> USE DEF IInv
<1>1. PICK p \in paths :
        /\ path' = p /\ paths' = {p} /\ tmp' = None
        /\ content' \in [Files -> Content] /\ synced' = content'
        /\ writer' = [w \in Writers |-> Idle] /\ reader' = [r \in Readers |-> Idle]
        /\ clean' = clean
        /\ clean /\ p # None => content'[p] = content[p]
  BY PowerLossLeaves
<1>2. TypeOK'
  BY <1>1 DEF TypeOK
<1>3. \A w \in Writers : writer'[w] = Idle
  BY <1>1
<1>4. InLength' /\ Solo' /\ AloneProgress' /\ ReadsOne'
  BY <1>1, <1>3 DEF InLength, Solo, AloneProgress, ReadsOne, Alone, Active, Idle
<1>5. WholeUnlessShared'
  BY <1>1 DEF WholeUnlessShared
<1> QED
  BY <1>2, <1>4, <1>5

LEMMA NextInvariant == IInv /\ [Next]_vars => IInv'
<1> SUFFICES ASSUME IInv, [Next]_vars PROVE IInv'
  OBVIOUS
<1>1. ASSUME NEW w \in Writers, \/ \E t \in Texts : Open(w, t)
                                \/ Write(w) \/ Fsync(w) \/ Replace(w)
                                \/ SyncDirectory(w) \/ Leave(w)
      PROVE  IInv'
  BY <1>1, OpenKeeps, WriteKeeps, FsyncKeeps, ReplaceKeeps, SyncDirectoryKeeps, LeaveKeeps
<1>2. ASSUME NEW r \in Readers, BeginLoad(r) \/ Read(r) PROVE IInv'
  BY <1>2, BeginLoadKeeps, ReadKeeps
<1>3. CASE UNCHANGED vars
  BY <1>3 DEF vars, IInv, TypeOK, InLength, Solo, AloneProgress, WholeUnlessShared, ReadsOne,
              Alone, Active, Good
<1> QED
  BY <1>1, <1>2, <1>3, PowerLossKeeps DEF Next

THEOREM InvariantHolds == Spec => []IInv
<1> QED
  BY InitInvariant, NextInvariant, PTL DEF Spec

----------------------------------------------------------------------------
(* What follows.                                                           *)

\* atomic_write_text never opens a file under the temporary name that is, or
\* that a power loss may make, the file itself; and every variable has its type.
THEOREM TypeCorrect == Spec => []TypeOK
<1>1. IInv => TypeOK
  BY DEF IInv
<1> QED
  BY <1>1, InvariantHolds, PTL

\* Whatever a process, an error or a power loss interrupts, the file that
\* atomic_write_text saves holds one whole text, and so does any a power loss
\* may leave: for any texts, while saves do not overlap.
THEOREM FileIsWhole == Spec => []WholeUnlessShared
<1>1. IInv => WholeUnlessShared
  BY DEF IInv
<1> QED
  BY <1>1, InvariantHolds, PTL

LEMMA LoadsOne == IInv => LoadsWhatWasSaved
<1> SUFFICES ASSUME IInv, NEW r \in Readers, reader[r] # Idle, reader[r].at = MaxLength
             PROVE  Parsed(Got(r)) = reader[r].text
  BY DEF LoadsWhatWasSaved
<1> DEFINE c == content[reader[r].file]
<1>1. /\ reader[r] \in Reading /\ reader[r].text \in Texts /\ c = ContentOf(reader[r].text)
      /\ \A k \in Positions : k < MaxLength => reader[r].got[k] = c[k]
  BY DEF IInv, TypeOK, ReadsOne
<1>2. reader[r].got \in Content /\ c \in Content /\ MaxLength \in Positions
  BY <1>1, ContentTyped, AtomicWriteAssumption DEF Reading, Positions
<1>3. Got(r) \in Content
  BY <1>2 DEF Got, Content
<1>4. \A k \in Positions : Got(r)[k] = c[k]
  <2> SUFFICES ASSUME NEW k \in Positions PROVE Got(r)[k] = c[k]
    OBVIOUS
  <2>1. k = MaxLength \/ k < MaxLength
    BY AtomicWriteAssumption DEF Positions
  <2> QED
    BY <1>1, <1>2, <2>1 DEF Got, Content
<1>5. Got(r) = c
  <2> HIDE DEF Positions, c
  <2> QED
    BY <1>2, <1>3, <1>4 DEF Content
<1>6. Whole(Got(r))
  BY <1>1, <1>5 DEF Whole
<1>7. (CHOOSE t \in Texts : Got(r) = ContentOf(t)) = reader[r].text
  BY <1>1, <1>5, TextsDiffer
<1> QED
  BY <1>6, <1>7 DEF Parsed

\* CircuitBreakerRegistry._load, which takes what does not parse for an empty
\* registry, gives what the file was when the load began, however many saves
\* rename theirs over it meanwhile, while saves do not overlap.
THEOREM LoadsAreSaved == Spec => []LoadsWhatWasSaved
BY InvariantHolds, LoadsOne, PTL

----------------------------------------------------------------------------
(* AtomicWrite implements SavedFile.                                       *)

LEMMA PathIsText ==
  ASSUME TypeOK, WholeUnlessShared, clean, NEW p \in paths
  PROVE  TextOf(p) \in Texts \cup {None}
<1>1. CASE p = None
  BY <1>1 DEF TextOf
<1>2. CASE p # None
  BY <1>2, WholeIsText DEF WholeUnlessShared, TypeOK
<1> QED
  BY <1>1, <1>2

\* A file whose content stays is the same text.
LEMMA SameText ==
  ASSUME NEW p, p # None => content'[p] = content[p]
  PROVE  (TextOf(p))' = TextOf(p)
BY DEF TextOf, Whole

LEMMA Stutters ==
  ASSUME path' = path, paths' = paths, clean' = clean, path \in paths,
         clean => \A p \in paths \ {None} : content'[p] = content[p]
  PROVE  UNCHANGED SF!vars
<1>1. CASE clean
  <2>1. \A p \in paths : (TextOf(p))' = TextOf(p)
    BY <1>1, SameText
  <2> QED
    BY <1>1, <2>1 DEF SF!vars
<1>2. CASE ~clean
  BY <1>2 DEF SF!vars
<1> QED
  BY <1>1, <1>2

\* Saves that overlap spoil the file; the file and what a power loss may make
\* of it stay as they are otherwise.
LEMMA OpenRefines ==
  ASSUME IInv, NEW w \in Writers, NEW t \in Texts, Open(w, t)
  PROVE  [SF!Next]_SF!vars
<1> USE DEF IInv
<1>1. path' = path /\ paths' = paths /\ path \in paths
  BY DEF Open, TypeOK
<1>2. CASE Active = {}
  <2>1. clean' = clean
    BY <1>2 DEF Open, Overlap
  <2>2. PICK f \in Files : /\ IF tmp # None THEN f = tmp ELSE f \notin InUse
                           /\ content' = [Used(content) EXCEPT ![f] = Blank]
    BY DEF Open
  <2>3. \A p \in paths \ {None} : p \in Files /\ p \in InUse /\ p # f
    BY <2>2 DEF TypeOK, InUse
  <2>4. \A p \in paths \ {None} : content'[p] = content[p]
    BY <2>2, <2>3 DEF Used
  <2> QED
    BY <1>1, <2>1, <2>4, Stutters
<1>3. CASE Active # {} /\ clean
  <2>1. clean' = FALSE
    BY <1>3 DEF Open, Overlap
  <2> QED
    BY <1>3, <2>1 DEF SF!Next, SF!Spoil
<1>4. CASE Active # {} /\ ~clean
  <2>1. clean' = FALSE
    BY <1>4 DEF Open, Overlap
  <2> QED
    BY <1>4, <2>1 DEF SF!vars
<1> QED
  BY <1>2, <1>3, <1>4

LEMMA WriteRefines ==
  ASSUME IInv, NEW w \in Writers, Write(w)
  PROVE  UNCHANGED SF!vars
<1> USE DEF IInv
<1>1. path' = path /\ paths' = paths /\ clean' = clean /\ path \in paths
  BY DEF Write, TypeOK
<1>2. writer[w].pc = "write" /\ writer[w] # Idle /\ w \in Active
  BY WriterKinds DEF Write, Active
<1>3. ASSUME clean, NEW p \in paths \ {None} PROVE content'[p] = content[p]
  <2>1. Alone(w)
    BY <1>2, <1>3 DEF Solo
  <2>2. writer[w].file = tmp /\ p \in Files /\ p # tmp
    BY <1>2, <2>1 DEF AloneProgress, TypeOK
  <2>3. content' = [content EXCEPT ![tmp] =
                      [content[tmp] EXCEPT ![writer[w].at] = <<writer[w].text, writer[w].at>>]]
    BY <2>2 DEF Write
  <2> QED
    BY <2>2, <2>3 DEF TypeOK
<1> QED
  BY <1>1, <1>3, Stutters

LEMMA ReplaceRefines ==
  ASSUME IInv, NEW w \in Writers, Replace(w)
  PROVE  [SF!Next]_SF!vars
<1> USE DEF IInv
<1>1. content' = content /\ clean' = clean /\ path \in paths
  BY DEF Replace, TypeOK
<1>2. writer[w].pc = "replace" /\ writer[w] # Idle /\ w \in Active
  BY WriterKinds DEF Replace, Active
<1>3. CASE clean
  <2>1. tmp # None /\ Good(tmp) /\ tmp \in Files
    BY <1>2, <1>3 DEF Solo, AloneProgress, TypeOK
  <2>2. path' = tmp /\ paths' = paths \cup {tmp}
    BY <2>1 DEF Replace
  <2>3. TextOf(tmp) \in Texts
    BY <2>1, WholeIsText DEF Good
  <2>4. \A p : (TextOf(p))' = TextOf(p)
    BY <1>1, SameText
  <2>5. SF!Change(TextOf(tmp))
    BY <1>1, <1>3, <2>2, <2>4 DEF SF!Change, TextOf
  <2> QED
    BY <2>3, <2>5 DEF SF!Next
<1>4. CASE ~clean
  BY <1>1, <1>4 DEF SF!vars
<1> QED
  BY <1>3, <1>4

LEMMA SyncDirectoryRefines ==
  ASSUME IInv, NEW w \in Writers, SyncDirectory(w)
  PROVE  [SF!Next]_SF!vars
<1> USE DEF IInv
<1>1. /\ path' = path /\ content' = content /\ paths' = {path}
      /\ clean' = (clean \/ writer[w].alone) /\ path \in paths
  BY DEF SyncDirectory, TypeOK
<1>2. writer[w].pc = "sync_directory" /\ writer[w] # Idle
  BY WriterKinds DEF SyncDirectory
<1>3. \A p : (TextOf(p))' = TextOf(p)
  BY <1>1, SameText
<1>4. CASE clean
  <2>1. (TextOf(path))' = TextOf(path)
    BY <1>1 DEF TextOf, Whole
  <2>2. ({TextOf(f) : f \in paths})' = {TextOf(path)}
    <3>1. ({TextOf(f) : f \in paths})' = {(TextOf(f))' : f \in {path}}
      BY <1>1
    <3> QED
      BY <2>1, <3>1, <1>3
  <2>3. SF!Keep
    BY <1>1, <1>4, <2>1, <2>2 DEF SF!Keep
  <2> QED
    BY <2>3 DEF SF!Next
<1>5. CASE ~clean /\ writer[w].alone
  <2>1. path # None /\ Good(path) /\ path \in Files
    BY <1>2, <1>5 DEF AloneProgress, Alone, TypeOK
  <2>2. TextOf(path) \in Texts
    BY <2>1, WholeIsText DEF Good
  <2>3. SF!Mend(TextOf(path))
    BY <1>1, <1>3, <1>5 DEF SF!Mend, TextOf
  <2> QED
    BY <2>2, <2>3 DEF SF!Next
<1>6. CASE ~clean /\ ~writer[w].alone
  BY <1>1, <1>6 DEF SF!vars
<1> QED
  BY <1>4, <1>5, <1>6

LEMMA PowerLossRefines ==
  ASSUME IInv, PowerLoss
  PROVE  [SF!Next]_SF!vars
<1> USE DEF IInv
<1>1. PICK p \in paths :
        /\ path' = p /\ paths' = {p} /\ clean' = clean
        /\ clean /\ p # None => content'[p] = content[p]
  BY PowerLossLeaves
<1>2. CASE clean
  <2>1. (TextOf(p))' = TextOf(p)
    BY <1>1, <1>2, SameText
  <2>2. TextOf(path)' = TextOf(p)
    BY <1>1, <2>1 DEF TextOf
  <2>3. SF!FallBack
    BY <1>1, <1>2, <2>1, <2>2 DEF SF!FallBack
  <2> QED
    BY <2>3 DEF SF!Next
<1>3. CASE ~clean
  BY <1>1, <1>3 DEF SF!vars
<1> QED
  BY <1>2, <1>3

LEMMA StepRefines == IInv /\ [Next]_vars => [SF!Next]_SF!vars
<1> SUFFICES ASSUME IInv, [Next]_vars PROVE [SF!Next]_SF!vars
  OBVIOUS
<1>1. path \in paths
  BY DEF IInv, TypeOK
<1>2. ASSUME path' = path, paths' = paths, clean' = clean, content' = content
      PROVE  UNCHANGED SF!vars
  BY <1>1, <1>2, Stutters
<1>3. ASSUME NEW w \in Writers, \/ \E t \in Texts : Open(w, t)
                                \/ Write(w) \/ Fsync(w) \/ Replace(w)
                                \/ SyncDirectory(w) \/ Leave(w)
      PROVE  [SF!Next]_SF!vars
  <2>1. Fsync(w) \/ Leave(w) => UNCHANGED SF!vars
    BY <1>2 DEF Fsync, Leave
  <2> QED
    BY <1>3, <2>1, OpenRefines, WriteRefines, ReplaceRefines, SyncDirectoryRefines
<1>4. ASSUME NEW r \in Readers, BeginLoad(r) \/ Read(r) PROVE UNCHANGED SF!vars
  BY <1>2, <1>4 DEF BeginLoad, Read
<1>5. UNCHANGED vars => UNCHANGED SF!vars
  BY <1>2 DEF vars
<1> QED
  BY <1>3, <1>4, <1>5, PowerLossRefines DEF Next

\* To whoever reads the file, a save of atomic_write_text is one step, and a
\* power loss leaves the text that was kept or one that came after it, until
\* saves overlap; a save that is alone mends what they spoilt.
THEOREM Implementation == Spec => ImplementsSavedFile
<1>1. Init => SF!Init
  <2> SUFFICES ASSUME Init PROVE SF!Init
    OBVIOUS
  <2>1. IInv
    BY InitInvariant
  <2>2. TextOf(path) \in Texts \cup {None}
    BY <2>1, PathIsText DEF IInv, TypeOK, Init
  <2> QED
    BY <2>2 DEF Init, SF!Init
<1>2. IInv /\ [Next]_vars => [SF!Next]_SF!vars
  BY StepRefines
<1> QED
  BY <1>1, <1>2, InvariantHolds, PTL DEF Spec, ImplementsSavedFile, SF!Spec
=============================================================================

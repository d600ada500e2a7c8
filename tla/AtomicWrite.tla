----------------------------- MODULE AtomicWrite -----------------------------
(***************************************************************************)
(* atomic_write_text, by which registries, lockfiles and digests are       *)
(* saved, and the load of a file it saved.                                 *)
(*                                                                         *)
(* A save opens PATH.tmp, which empties it if it is there, writes and      *)
(* syncs it, renames it to PATH and syncs the directory.  The name of the  *)
(* temporary file is the same for all who save PATH: a server and commands *)
(* beside it, for the registry of breakers and the lockfile.  Who opens it *)
(* second gets the file the first one has open, each with an offset of its *)
(* own; who renames first takes it away from the other, and the other goes *)
(* on writing into what is PATH by now.                                    *)
(*                                                                         *)
(* A power loss takes back any part of what was not synced: positions of   *)
(* files, and the renames of PATH since its directory was synced.  Whether *)
(* it leaves a temporary file makes no difference, as the next save        *)
(* empties it.  A process that stops, or an error of any call, leaves      *)
(* everything as it is.                                                    *)
(***************************************************************************)
EXTENDS Naturals

CONSTANTS
  Writers, Readers,
  Texts,      \* what is saved
  Length,     \* Length[t]: the writes it takes, at most MaxLength
  MaxLength,
  Fresh,      \* the text of a registry without entries
  Files,      \* inodes
  None

Positions == 1..MaxLength

ASSUME AtomicWriteAssumption ==
  /\ MaxLength \in Nat \ {0} /\ Length \in [Texts -> Positions]
  /\ Fresh \in Texts /\ None \notin Files /\ None \notin Texts
  /\ None \notin Texts \X Positions

VARIABLES
  path, tmp,  \* the files of these names
  content,    \* content[f]: what is read and written
  synced,     \* synced[f]: what is on the disk of it
  paths,      \* the files a power loss may leave as PATH
  writer,     \* writer[w]
  reader,     \* reader[r]
  clean       \* history: no save since the last that was alone overlapped

vars == <<path, tmp, content, synced, paths, writer, reader, clean>>

Content == [Positions -> (Texts \X Positions) \cup {None}]

Blank == [k \in Positions |-> None]

ContentOf(t) == [k \in Positions |-> IF k <= Length[t] THEN <<t, k>> ELSE None]

\* alone: since its save began no two saves overlapped.
Writing ==
  [pc : {"write", "fsync"}, text : Texts, file : Files, at : 1..MaxLength + 1,
   alone : BOOLEAN]

Renaming == [pc : {"replace", "sync_directory"}, alone : BOOLEAN]

\* text is what the file was when the load began.  Loads of a file that is or
\* gets spoilt are not followed: they may give anything.
Reading == [pc : {"read"}, text : Texts, file : Files, got : Content, at : Positions]

Idle == [pc |-> "idle"]

Whole(c) == \E t \in Texts : c = ContentOf(t)

TextOf(f) ==
  IF f # None /\ Whole(content[f])
    THEN CHOOSE t \in Texts : content[f] = ContentOf(t) ELSE None

Init ==
  /\ \/ path = None /\ content = [g \in Files |-> Blank]
     \/ \E f \in Files, t \in Texts :
          /\ path = f
          /\ content = [g \in Files |-> IF g = f THEN ContentOf(t) ELSE Blank]
  /\ tmp = None
  /\ synced = content
  /\ paths = {path}
  /\ writer = [w \in Writers |-> Idle]
  /\ reader = [r \in Readers |-> Idle]
  /\ clean = TRUE

----------------------------------------------------------------------------
(* atomic_write_text.                                                      *)

InUse ==
  {path, tmp} \cup paths
  \cup {writer[w].file : w \in {v \in Writers : writer[v].pc \in {"write", "fsync"}}}
  \cup {reader[r].file : r \in {q \in Readers : reader[q] # Idle}}

\* Not yet renamed.
Active == {w \in Writers : writer[w].pc \in {"write", "fsync", "replace"}}

Overlap ==
  IF Active = {} THEN UNCHANGED <<clean, reader>>
                 ELSE clean' = FALSE /\ reader' = [r \in Readers |-> Idle]

Begun(w, t, f) ==
  [v \in Writers |->
     IF v = w THEN [pc |-> "write", text |-> t, file |-> f, at |-> 1,
                    alone |-> Active = {}]
     ELSE IF Active # {} /\ writer[v] # Idle THEN [writer[v] EXCEPT !.alone = FALSE]
     ELSE writer[v]]

Used(c) == [f \in Files |-> IF f \in InUse THEN c[f] ELSE Blank]

\* A mistake: the file itself is written.
OpenInPlace(w, t) ==
  /\ writer[w] = Idle /\ path # None
  /\ tmp' = path
  /\ content' = [Used(content) EXCEPT ![path] = Blank]
  /\ synced' = Used(synced)
  /\ writer' = Begun(w, t, path)
  /\ Overlap
  /\ UNCHANGED <<path, paths>>

\* Files no longer in use are free for new ones.
Open(w, t) ==
  /\ writer[w] = Idle
  /\ \E f \in Files :
       /\ IF tmp # None THEN f = tmp ELSE f \notin InUse
       /\ tmp' = f
       /\ content' = [Used(content) EXCEPT ![f] = Blank]
       /\ synced' = Used(synced)
       /\ writer' = Begun(w, t, f)
  /\ Overlap
  /\ UNCHANGED <<path, paths>>

Write(w) ==
  LET o == writer[w] IN
  /\ o.pc = "write"
  /\ content' = [content EXCEPT ![o.file][o.at] = <<o.text, o.at>>]
  /\ writer' = [writer EXCEPT ![w].at = @ + 1,
                              ![w].pc = IF o.at = Length[o.text] THEN "fsync" ELSE @]
  /\ UNCHANGED <<path, tmp, synced, paths, reader, clean>>

\* A mistake: what was written is not synced.
FsyncNothing(w) ==
  /\ writer[w].pc = "fsync"
  /\ writer' = [writer EXCEPT ![w] = [pc |-> "replace", alone |-> @.alone]]
  /\ UNCHANGED <<path, tmp, content, synced, paths, reader, clean>>

Fsync(w) ==
  LET f == writer[w].file IN
  /\ writer[w].pc = "fsync"
  /\ synced' = [synced EXCEPT ![f] = content[f]]
  /\ writer' = [writer EXCEPT ![w] = [pc |-> "replace", alone |-> @.alone]]
  /\ UNCHANGED <<path, tmp, content, paths, reader, clean>>

\* A mistake: the temporary file stays, as another name of the file.
ReplaceLinking(w) ==
  /\ writer[w].pc = "replace" /\ tmp # None
  /\ writer' = [writer EXCEPT ![w].pc = "sync_directory"]
  /\ path' = tmp /\ paths' = paths \cup {tmp}
  /\ UNCHANGED <<tmp, content, synced, reader, clean>>

\* os.replace finds a temporary file, its own or not, or raises.
Replace(w) ==
  /\ writer[w].pc = "replace"
  /\ IF tmp = None
       THEN writer' = [writer EXCEPT ![w] = Idle] /\ UNCHANGED <<path, tmp, paths>>
       ELSE /\ writer' = [writer EXCEPT ![w].pc = "sync_directory"]
            /\ path' = tmp /\ tmp' = None
            /\ paths' = paths \cup {tmp}
  /\ UNCHANGED <<content, synced, reader, clean>>

\* _fsync_directory.
SyncDirectory(w) ==
  /\ writer[w].pc = "sync_directory"
  /\ paths' = {path}
  /\ clean' = (clean \/ writer[w].alone)
  /\ writer' = [writer EXCEPT ![w] = Idle]
  /\ UNCHANGED <<path, tmp, content, synced, reader>>

\* An error, or the end of the process.  A directory that cannot be opened is
\* not synced, and the save returns all the same.
Leave(w) ==
  /\ writer[w] # Idle
  /\ writer' = [writer EXCEPT ![w] = Idle]
  /\ UNCHANGED <<path, tmp, content, synced, paths, reader, clean>>

----------------------------------------------------------------------------
(* CircuitBreakerRegistry._load: a file that does not parse is taken for   *)
(* an empty registry, as one is that is not there.                         *)

Parsed(c) == IF Whole(c) THEN CHOOSE t \in Texts : c = ContentOf(t) ELSE Fresh

BeginLoad(r) ==
  /\ reader[r] = Idle /\ clean /\ path # None
  /\ reader' = [reader EXCEPT ![r] =
       [pc |-> "read", text |-> TextOf(path), file |-> path, got |-> Blank, at |-> 1]]
  /\ UNCHANGED <<path, tmp, content, synced, paths, writer, clean>>

Got(r) == [reader[r].got EXCEPT ![reader[r].at] = content[reader[r].file][reader[r].at]]

Read(r) ==
  LET o == reader[r] IN
  /\ o # Idle
  /\ reader' = [reader EXCEPT ![r] =
       IF o.at = MaxLength THEN Idle ELSE [o EXCEPT !.got = Got(r), !.at = o.at + 1]]
  /\ UNCHANGED <<path, tmp, content, synced, paths, writer, clean>>

----------------------------------------------------------------------------
PowerLoss ==
  \E p \in paths :
  \E lost \in SUBSET {k \in Positions : p # None /\ synced[p][k] # content[p][k]} :
    /\ path' = p /\ paths' = {p} /\ tmp' = None
    /\ content' = [f \in Files |-> [k \in Positions |->
                     IF f # p THEN None
                     ELSE IF k \in lost THEN synced[f][k] ELSE content[f][k]]]
    /\ synced' = content'
    /\ writer' = [w \in Writers |-> Idle]
    /\ reader' = [r \in Readers |-> Idle]
    /\ UNCHANGED clean

Next ==
  \/ \E w \in Writers : \/ \E t \in Texts : Open(w, t)
                        \/ Write(w) \/ Fsync(w) \/ Replace(w)
                        \/ SyncDirectory(w) \/ Leave(w)
  \/ \E r \in Readers : BeginLoad(r) \/ Read(r)
  \/ PowerLoss

Spec == Init /\ [][Next]_vars

----------------------------------------------------------------------------
\* The temporary file is not the file, or what a power loss may make of it.
TypeOK ==
  /\ path \in Files \cup {None} /\ tmp \in Files \cup {None}
  /\ paths \subseteq Files \cup {None} /\ path \in paths
  /\ tmp \in paths => tmp = None
  /\ content \in [Files -> Content] /\ synced \in [Files -> Content]
  /\ writer \in [Writers -> Writing \cup Renaming \cup {Idle}]
  /\ reader \in [Readers -> Reading \cup {Idle}]
  /\ clean \in BOOLEAN

\* Whatever a process, an error or a power loss interrupts, the file holds the
\* whole text of one save, and so does any a power loss would leave: unless
\* saves overlapped and none has been completed alone since.
WholeUnlessShared ==
  clean => \A f \in paths \ {None} : Whole(content[f]) /\ synced[f] = content[f]

\* A load gives what the file was when it began, however many saves rename
\* theirs over it meanwhile: no kill is lost by it, but for overlapping saves.
LoadsWhatWasSaved ==
  \A r \in Readers :
    reader[r] # Idle /\ reader[r].at = MaxLength => Parsed(Got(r)) = reader[r].text

\* Saves are single steps to whoever reads the file.
SF == INSTANCE SavedFile
        WITH Absent <- None,
             value <- IF clean THEN TextOf(path) ELSE None,
             possible <- IF clean THEN {TextOf(f) : f \in paths} ELSE {},
             spoilt <- ~clean
ImplementsSavedFile == SF!Spec
=============================================================================

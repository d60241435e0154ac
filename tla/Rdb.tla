-------------------------------- MODULE Rdb --------------------------------
(***************************************************************************)
(* RDB persistence.  The timer thread runs RdbTimer::Exec over and over:   *)
(* MainLoop::DatabaseSave encodes every database in memory while the       *)
(* command thread goes on, RDBSave then truncates the dump file and writes *)
(* the magic word and one image per database.  The process may be killed   *)
(* between any two steps; the next start reads the file, truncates it and  *)
(* rebuilds the databases.                                                 *)
(*                                                                         *)
(* Every SET writes a new version number, so a value names the command     *)
(* that wrote it and later versions are greater.                           *)
(***************************************************************************)
EXTENDS Naturals, Sequences, FiniteSets, Subsequences

CONSTANTS
    Keys,        \* key names
    MaxDbs,      \* the limit of CreateDB, 16 in the code
    MaxSets,     \* bound: SET commands of one behaviour
    MaxCrashes,  \* bound: kills of the process
    None         \* an absent key

ASSUME RdbAssumption ==
    /\ IsFiniteSet(Keys)
    /\ {MaxDbs, MaxSets, MaxCrashes} \subseteq Nat
    /\ None \notin Nat

VARIABLES
    up,       \* the process runs
    dbs,      \* databases_: key -> version, Fresh or None, per database
    exec,     \* command thread: the entry it has inserted and not yet set
    saver,    \* timer thread inside RdbTimer::Exec
    file,     \* the dump file: what was written to it, piece by piece
    nset,     \* SET commands so far
    crashes,  \* kills so far
    base,     \* history: dbs and nset when the save in progress began
    attempt,  \* history: the images of the last save that truncated the file
    complete, \* history: the file holds a whole save
    kept      \* history: versions that were in a whole save and that no
              \* command has overwritten or deleted since, unless the process
              \* ended without a whole save in the file

vars == <<up, dbs, exec, saver, file, nset, crashes, base, attempt, complete,
          kept>>

Fresh == 0
Versions == 1..MaxSets
EmptyDb == [k \in Keys |-> None]
Present(db) == {k \in Keys : db[k] # None}

\* What Db::Save returns: the size of the map, then its entries; an empty
\* database is encoded as the empty string.
EmptyImage == [count |-> 0, entries |-> EmptyDb]

\* What the file is made of.
Piece(kind, image) == [kind |-> kind, image |-> image]
Magic == Piece("RDB", EmptyImage)
Torn == Piece("torn", EmptyImage)

Idle == [pc |-> "idle", db |-> 0, key |-> None]
Sleeping == [pc |-> "sleep", at |-> 0, todo |-> {}, image |-> EmptyImage,
             images |-> <<>>]

\* Version v is in the file, in memory.
InFile(v) ==
    \E i \in DOMAIN file, k \in Keys : file[i].image.entries[k] = v
Current(v) == \E d \in DOMAIN dbs, k \in Keys : dbs[d][k] = v

\* The images that add something to the file, and the pieces of a whole save.
NonEmpty(images) == Pick(images, {i \in DOMAIN images : images[i].count > 0})
Whole(images) ==
    <<Magic>> \o [i \in 1..Len(NonEmpty(images)) |-> Piece("image", NonEmpty(images)[i])]

Init ==
    /\ up = TRUE
    /\ dbs = <<EmptyDb>>
    /\ exec = Idle
    /\ saver = Sleeping
    /\ file = <<>>
    /\ nset = 0
    /\ crashes = 0
    /\ base = [dbs |-> <<>>, nset |-> 0]
    /\ attempt = <<>>
    /\ complete = FALSE
    /\ kept = {}

history == <<base, attempt, complete, kept>>

(***************************************************************************)
(* Command thread.  NewStr and Del take the write latch of the database,   *)
(* CREATE that of the list of databases; DatabaseSave holds the read side  *)
(* of the latter throughout and of each database while it is encoded.      *)
(***************************************************************************)
Latched(d) == saver.pc = "entries" /\ saver.at = d
ListLatched == saver.pc \in {"dbs", "entries"}

\* Mutation: the key may be there already.
NewStrReplaces(d, k) ==
    /\ up /\ exec.pc = "idle" /\ nset < MaxSets
    /\ ~Latched(d)
    /\ dbs' = [dbs EXCEPT ![d][k] = Fresh]
    /\ exec' = [pc |-> "set", db |-> d, key |-> k]
    /\ UNCHANGED <<up, saver, file, nset, crashes, history>>

\* SET of a missing key, first part: Db::NewStr puts an empty Str in the map.
NewStr(d, k) ==
    /\ up /\ exec.pc = "idle" /\ nset < MaxSets
    /\ dbs[d][k] = None
    /\ ~Latched(d)
    /\ dbs' = [dbs EXCEPT ![d][k] = Fresh]
    /\ exec' = [pc |-> "set", db |-> d, key |-> k]
    /\ UNCHANGED <<up, saver, file, nset, crashes, history>>

\* Str::Set through the reference, under the latch of the Str only.
SetStr(d, k) ==
    /\ up /\ nset < MaxSets
    /\ \/ exec = [pc |-> "set", db |-> d, key |-> k]
       \/ exec.pc = "idle" /\ dbs[d][k] # None
    /\ dbs' = [dbs EXCEPT ![d][k] = nset + 1]
    /\ nset' = nset + 1
    /\ exec' = Idle
    /\ kept' = kept \ {dbs[d][k]}
    /\ UNCHANGED <<up, saver, file, crashes, base, attempt, complete>>

\* Mutation: Db::Del without the write latch.
DelUnlatched(d, k) ==
    /\ up /\ exec.pc = "idle"
    /\ dbs[d][k] # None
    /\ dbs' = [dbs EXCEPT ![d][k] = None]
    /\ kept' = kept \ {dbs[d][k]}
    /\ UNCHANGED <<up, exec, saver, file, nset, crashes, base, attempt, complete>>

\* Db::Del.
Del(d, k) ==
    /\ up /\ exec.pc = "idle"
    /\ dbs[d][k] # None
    /\ ~Latched(d)
    /\ dbs' = [dbs EXCEPT ![d][k] = None]
    /\ kept' = kept \ {dbs[d][k]}
    /\ UNCHANGED <<up, exec, saver, file, nset, crashes, base, attempt, complete>>

\* MainLoop::CreateDB; at the limit it changes nothing.
CreateDB ==
    /\ up /\ exec.pc = "idle" /\ ~ListLatched
    /\ Len(dbs) < MaxDbs
    /\ dbs' = Append(dbs, EmptyDb)
    /\ UNCHANGED <<up, exec, saver, file, nset, crashes, history>>

(***************************************************************************)
(* Timer thread: RdbTimer::Exec.                                           *)
(***************************************************************************)
\* What a dead process leaves behind: the file and nothing else.
Die ==
    /\ kept' = IF complete THEN kept ELSE {}
    /\ up' = FALSE
    /\ dbs' = <<>>
    /\ exec' = Idle
    /\ saver' = Sleeping

\* Mutation: the images of the previous save are not cleared.
SaveBeginKeeps ==
    /\ up /\ saver.pc = "sleep"
    /\ saver' = [Sleeping EXCEPT !.pc = "dbs", !.at = 1, !.images = attempt]
    /\ base' = [dbs |-> dbs, nset |-> nset]
    /\ UNCHANGED <<up, dbs, exec, file, nset, crashes, attempt, complete, kept>>

\* The timer fires and DatabaseSave takes the read latch of the list.
SaveBegin ==
    /\ up /\ saver.pc = "sleep"
    /\ saver' = [Sleeping EXCEPT !.pc = "dbs", !.at = 1]
    /\ base' = [dbs |-> dbs, nset |-> nset]
    /\ UNCHANGED <<up, dbs, exec, file, nset, crashes, attempt, complete, kept>>

\* Db::Save of the next database: latch it and write the header.
SaveDb ==
    /\ saver.pc = "dbs" /\ saver.at <= Len(dbs)
    /\ LET here == Present(dbs[saver.at])
       IN saver' = IF here = {}
                   THEN [saver EXCEPT !.at = @ + 1,
                                      !.images = Append(@, EmptyImage)]
                   ELSE [saver EXCEPT !.pc = "entries", !.todo = here,
                           !.image = [EmptyImage EXCEPT
                                        !.count = Cardinality(here)]]
    /\ UNCHANGED <<up, dbs, exec, file, nset, crashes, history>>

\* KeyValue::Encode of one entry, in the order of the hash map.  A Str that
\* was never set is marked INT and empty: std::stoi throws, nothing catches
\* it and the process ends.
EncodeEntry(k) ==
    /\ saver.pc = "entries" /\ k \in saver.todo
    /\ IF dbs[saver.at][k] = Fresh
       THEN Die
       ELSE /\ saver' = [saver EXCEPT !.todo = @ \ {k},
                           !.image.entries[k] = dbs[saver.at][k]]
            /\ UNCHANGED <<up, dbs, exec, kept>>
    /\ UNCHANGED <<file, nset, crashes, base, attempt, complete>>

\* Db::Save returns and its latch is released.
SavedDb ==
    /\ saver.pc = "entries" /\ saver.todo = {}
    /\ saver' = [saver EXCEPT !.pc = "dbs", !.at = @ + 1,
                   !.image = EmptyImage, !.images = Append(@, saver.image)]
    /\ UNCHANGED <<up, dbs, exec, file, nset, crashes, history>>

\* DatabaseSave returns; RDBSave has the images by value.
Generated ==
    /\ saver.pc = "dbs" /\ saver.at > Len(dbs)
    /\ saver' = [saver EXCEPT !.pc = "truncate", !.at = 1]
    /\ UNCHANGED <<up, dbs, exec, file, nset, crashes, history>>

\* Mutation: the file is appended to.
TruncateNot ==
    /\ saver.pc = "truncate"
    /\ saver' = [saver EXCEPT !.pc = "magic"]
    /\ attempt' = saver.images
    /\ complete' = FALSE
    /\ UNCHANGED <<up, dbs, exec, file, nset, crashes, base, kept>>

\* RDBSave: FileManager::Truncate.
Truncate ==
    /\ saver.pc = "truncate"
    /\ file' = <<>>
    /\ saver' = [saver EXCEPT !.pc = "magic"]
    /\ attempt' = saver.images
    /\ complete' = FALSE
    /\ UNCHANGED <<up, dbs, exec, nset, crashes, base, kept>>

\* RDBSave: Write("RDB").
WriteMagic ==
    /\ saver.pc = "magic"
    /\ file' = Append(file, Magic)
    /\ saver' = [saver EXCEPT !.pc = "write"]
    /\ UNCHANGED <<up, dbs, exec, nset, crashes, history>>

\* RDBSave: Write of the next image; an empty one adds nothing.
WriteDb ==
    /\ saver.pc = "write" /\ saver.at <= Len(saver.images)
    /\ LET image == saver.images[saver.at]
       IN file' = IF image.count = 0 THEN file
                  ELSE Append(file, Piece("image", image))
    /\ saver' = [saver EXCEPT !.at = @ + 1]
    /\ UNCHANGED <<up, dbs, exec, nset, crashes, history>>

\* Mutation: the next save writes the images of this one again.
SaveDoneStale ==
    /\ saver.pc = "write" /\ saver.at > Len(saver.images)
    /\ saver' = [saver EXCEPT !.pc = "truncate", !.at = 1]
    /\ complete' = TRUE
    /\ kept' = {v \in Versions : InFile(v) /\ Current(v)}
    /\ UNCHANGED <<up, dbs, exec, file, nset, crashes, base, attempt>>

\* RdbTimer::Exec queues a copy of itself.
SaveDone ==
    /\ saver.pc = "write" /\ saver.at > Len(saver.images)
    /\ saver' = Sleeping
    /\ complete' = TRUE
    /\ kept' = {v \in Versions : InFile(v) /\ Current(v)}
    /\ UNCHANGED <<up, dbs, exec, file, nset, crashes, base, attempt>>

(***************************************************************************)
(* Kill and restart.                                                       *)
(***************************************************************************)
\* The process is killed; a write in progress may leave part of an image.
Crash ==
    /\ up /\ crashes < MaxCrashes
    /\ Die
    /\ file' \in {file} \cup {Append(file, Torn) :
                   i \in {j \in DOMAIN saver.images :
                            /\ saver.pc = "write" /\ saver.at = j
                            /\ saver.images[j].count > 0}}
    /\ crashes' = crashes + 1
    /\ UNCHANGED <<nset, base, attempt, complete>>

\* Mutation: every database is put in front of those already loaded.
RDBLoadReversed(source) ==
    [i \in 1..Len(source) - 1 |-> source[Len(source) + 1 - i].image.entries]

\* RDBLoad: Db::Load of every image up to the end of the file.
RDBLoad(source) ==
    [i \in 1..Len(source) - 1 |-> source[i + 1].image.entries]

\* RDBLoad comes to a place where no image starts or one ends too early.
Corrupt(source) ==
    \E i \in 2..Len(source) :
        \/ source[i] \in {Torn, Magic}
        \/ source[i].image.count # Cardinality(Present(source[i].image.entries))

\* MainLoop::MainLoop: LoadAndExport, Truncate, RDBLoad, and a default
\* database when there is none.  A file that does not start with the magic
\* word counts as empty; a corrupt one ends the process after the Truncate.
Start ==
    /\ ~up
    /\ file' = <<>>
    /\ complete' = FALSE
    /\ IF file # <<>> /\ Corrupt(file)
       THEN UNCHANGED <<up, dbs>>
       ELSE LET loaded == IF file = <<>> THEN <<>> ELSE RDBLoad(file)
            IN /\ up' = TRUE
               /\ dbs' = IF loaded = <<>> THEN <<EmptyDb>> ELSE loaded
    /\ UNCHANGED <<exec, saver, nset, crashes, base, attempt, kept>>

Command ==
    \/ \E d \in DOMAIN dbs, k \in Keys : NewStr(d, k) \/ SetStr(d, k) \/ Del(d, k)
    \/ CreateDB

Save ==
    \/ SaveBegin \/ SaveDb \/ SavedDb \/ Generated
    \/ \E k \in Keys : EncodeEntry(k)
    \/ Truncate \/ WriteMagic \/ WriteDb \/ SaveDone

Next == Command \/ Save \/ Crash \/ Start

Spec == Init /\ [][Next]_vars

\* The timer thread keeps running: once due, the timer is popped and every
\* step of RdbTimer::Exec is taken.
FairSpec == Spec /\ WF_vars(Save)

(***************************************************************************)
(* Properties.                                                             *)
(***************************************************************************)
\* The size Db::Save writes ahead of the entries is their number in every
\* finished image, although commands run while it is being encoded: Db::Load
\* trusts it to find the next database.
HeaderMatches ==
    \A i \in DOMAIN saver.images :
        saver.images[i].count = Cardinality(Present(saver.images[i].entries))

\* A save is not a point in time, but every value in it was the value of its
\* key at some moment of that save: the one it had when the save began or one
\* written since.
ValuesOfThisSave ==
    \A i \in DOMAIN saver.images, k \in Keys :
        LET v == saver.images[i].entries[k]
        IN v # None =>
             \/ v > base.nset
             \/ i \in DOMAIN base.dbs /\ base.dbs[i][k] = v

\* The file never mixes two saves: whatever was killed and when, it is a
\* beginning of the pieces of one save, with at most a torn piece after it.
OneSavePerFile ==
    \E n \in 0..Len(Whole(attempt)) :
        LET pieces == SubSeq(Whole(attempt), 1, n)
        IN file = pieces \/ file = Append(pieces, Torn)

\* A start on a file whose save was complete brings back every database
\* that held something, with exactly the saved contents.
RestartRestores ==
    [][~up /\ up' /\ complete /\ NonEmpty(attempt) # <<>> =>
         dbs' = [i \in DOMAIN NonEmpty(attempt) |-> NonEmpty(attempt)[i].entries]]_vars

\* The save repeats for ever: a value that stays in memory gets into the
\* dump file.
EventuallySaved == \A v \in Versions : Current(v) ~> (InFile(v) \/ ~Current(v))

\* "RDB/AOF Persistence": a running process holds every value that has been
\* in a whole save and that no command has overwritten or deleted since,
\* however often the process ended, as long as it never did so between the
\* truncation of the file (by a save or a start) and the end of a save.
SavedSurvives == up => \A v \in kept : Current(v)
=============================================================================

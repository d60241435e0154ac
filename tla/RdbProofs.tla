----------------------------- MODULE RdbProofs ------------------------------
(***************************************************************************)
(* Proofs, for all keys and bounds, of what Rdb says about the dump file.  *)
(***************************************************************************)
EXTENDS Rdb, SubsequencesProofs, SequenceTheorems, FiniteSetTheorems

Value == Nat \cup {None}
Db == [Keys -> Value]
Image == [count : Nat, entries : Db]
Pieces == [kind : {"RDB", "torn", "image"}, image : Image]
Executor == [pc : {"idle", "set"}, db : Nat, key : Keys \cup {None}]
Saver == [pc : {"sleep", "dbs", "entries", "truncate", "magic", "write"},
          at : Nat, todo : SUBSET Keys, image : Image, images : Seq(Image)]
Base == [dbs : Seq(Db), nset : Nat]

TypeOK ==
    /\ up \in BOOLEAN /\ complete \in BOOLEAN
    /\ dbs \in Seq(Db)
    /\ exec \in Executor
    /\ saver \in Saver
    /\ file \in Seq(Pieces)
    /\ nset \in Nat /\ crashes \in Nat
    /\ base \in Base
    /\ attempt \in Seq(Image)
    /\ kept \in SUBSET Versions

\* A process that does not run does nothing, a sleeping timer holds nothing,
\* and an entry that is inserted and not yet set is in its database.
Locals ==
    /\ ~up => exec = Idle /\ saver = Sleeping
    /\ saver.pc = "sleep" => saver = Sleeping
    /\ saver.pc # "sleep" => saver.at > 0
    /\ exec.pc = "set" => /\ exec.db \in 1..Len(dbs) /\ exec.key \in Keys
                          /\ dbs[exec.db][exec.key] = Fresh

\* While a database is encoded, its keys are those that are still to do and
\* those that are in the image; the header has their number.
Encoding ==
    saver.pc = "entries" =>
      /\ saver.at \in 1..Len(dbs)
      /\ saver.todo \subseteq Present(dbs[saver.at])
      /\ saver.image.count = Cardinality(Present(dbs[saver.at]))
      /\ Present(saver.image.entries) = Present(dbs[saver.at]) \ saver.todo

\* The header of every image has the number of its entries.
Sound(images) ==
    \A i \in 1..Len(images) : images[i].count = Cardinality(Present(images[i].entries))

\* v was the value of key k of database i when the save began, or is newer.
OfSave(b, i, k, v) == \/ v \in Nat /\ v > b.nset
                      \/ i \in 1..Len(b.dbs) /\ b.dbs[i][k] = v

\* Since the save began the list of databases is the same, and whatever is in
\* a database, in the image in progress or in a finished one was there when
\* it began, or is newer, or is an entry that is not yet set.
SameDbs ==
    ListLatched =>
      /\ Len(dbs) = Len(base.dbs)
      /\ saver.at = Len(saver.images) + 1
      /\ \A d \in 1..Len(dbs), k \in Keys :
           dbs[d][k] \in {None, Fresh} \/ OfSave(base, d, k, dbs[d][k])
ImageOfSave(b, i, entries) ==
    \A k \in Keys : entries[k] = None \/ OfSave(b, i, k, entries[k])
Since ==
    /\ base.nset <= nset
    /\ SameDbs
    /\ saver.pc = "entries" => ImageOfSave(base, saver.at, saver.image.entries)
    /\ \A i \in 1..Len(saver.images) : ImageOfSave(base, i, saver.images[i].entries)

\* The positions of the images that add something to the file, and what the
\* first n images add to it after the magic word.
Filled(images) == {i \in DOMAIN images : images[i].count > 0}
AfterMagic(q) == <<Magic>> \o [i \in 1..Len(q) |-> Piece("image", q[i])]
Part(images, n) == AfterMagic(Picked(images, Filled(images))[n])

\* The file while it is written, and when it is complete.
Written ==
    /\ Sound(attempt)
    /\ saver.pc \in {"magic", "write"} => ~complete /\ attempt = saver.images
    /\ saver.pc \in {"truncate", "magic"} => saver.at = 1
    /\ saver.pc = "magic" => file = <<>>
    /\ saver.pc = "write" => /\ saver.at \in 1..Len(attempt) + 1
                             /\ file = Part(attempt, saver.at - 1)
    /\ complete => file = Whole(attempt)

\* A version that is kept is in memory while the process runs and in the file
\* while that is complete; one of the two is the case.
Durable ==
    /\ SavedSurvives
    /\ complete => \A v \in kept : InFile(v)
    /\ ~up => complete \/ kept = {}

IInv ==
    /\ TypeOK /\ Locals /\ Encoding /\ HeaderMatches /\ Since
    /\ Written /\ OneSavePerFile /\ Durable

(***************************************************************************)
(* Typing.                                                                 *)
(***************************************************************************)
\* The constants of the model have the types they should.
LEMMA Constants ==
    /\ EmptyDb \in Db /\ EmptyImage \in Image
    /\ Magic \in Pieces /\ Torn \in Pieces
    /\ Idle \in Executor /\ Sleeping \in Saver
<1>1. EmptyDb \in Db
  BY DEF EmptyDb, Db, Value
<1>2. EmptyImage \in Image
  BY <1>1 DEF EmptyImage, Image
<1>3. Magic \in Pieces /\ Torn \in Pieces
  BY <1>2 DEF Magic, Torn, Piece, Pieces
<1>4. Idle \in Executor
  BY DEF Idle, Executor
<1>5. Sleeping \in Saver
  BY <1>2 DEF Sleeping, Saver
<1> QED BY <1>1, <1>2, <1>3, <1>4, <1>5

\* A database has a finite number of keys.
LEMMA CountType ==
    ASSUME NEW db
    PROVE  IsFiniteSet(Present(db)) /\ Cardinality(Present(db)) \in Nat
<1>1. Present(db) \subseteq Keys
  BY DEF Present
<1> QED BY <1>1, RdbAssumption, FS_Subset, FS_CardinalityType

\* The databases with one value of one of them replaced.
Stored(d0, d, k, v) == [d0 EXCEPT ![d][k] = v]

\* What is stored is there, and the rest is as before.
LEMMA Store ==
    ASSUME NEW d0 \in Seq(Db), NEW d \in 1..Len(d0), NEW k \in Keys, NEW v \in Value
    PROVE  /\ Stored(d0, d, k, v) \in Seq(Db) /\ Len(Stored(d0, d, k, v)) = Len(d0)
           /\ Stored(d0, d, k, v)[d][k] = v
           /\ \A j \in Keys : j # k => Stored(d0, d, k, v)[d][j] = d0[d][j]
           /\ \A e \in 1..Len(d0) : e # d => Stored(d0, d, k, v)[e] = d0[e]
<1> DEFINE d1 == Stored(d0, d, k, v)
<1>1. d0[d] \in Db
  OBVIOUS
<1>2. [d0[d] EXCEPT ![k] = v] \in Db
  BY <1>1 DEF Db
<1>3. d1 = [d0 EXCEPT ![d] = [d0[d] EXCEPT ![k] = v]]
  BY DEF Stored
<1> HIDE DEF d1
<1>4. d1 \in Seq(Db) /\ Len(d1) = Len(d0)
  BY <1>2, <1>3
<1>5. d1[d] = [d0[d] EXCEPT ![k] = v] /\ \A e \in 1..Len(d0) : e # d => d1[e] = d0[e]
  BY <1>3
<1>6. d1[d][k] = v /\ \A j \in Keys : j # k => d1[d][j] = d0[d][j]
  BY <1>1, <1>5 DEF Db
<1> QED BY <1>4, <1>5, <1>6 DEF d1

\* The saver's state can be read.
LEMMA SaverFields ==
    ASSUME NEW r \in Saver
    PROVE  /\ r.at \in Nat /\ r.todo \in SUBSET Keys /\ r.image \in Image
           /\ r.images \in Seq(Image) /\ r.image.entries \in Db /\ r.image.count \in Nat
BY DEF Saver, Image

\* What can be read in an image, of a base and in a sequence of images.
LEMMA ImageFields ==
    ASSUME NEW r \in Image
    PROVE  r.count \in Nat /\ r.entries \in Db /\ \A k \in Keys : r.entries[k] \in Value
BY DEF Image, Db

\* The timer thread's steps on its own state.
LEMMA SaverSteps ==
    ASSUME NEW r \in Saver
    PROVE  /\ [r EXCEPT !.at = @ + 1, !.images = Append(@, EmptyImage)] \in Saver
           /\ [r EXCEPT !.pc = "dbs", !.at = @ + 1, !.image = EmptyImage,
                        !.images = Append(@, r.image)] \in Saver
           /\ [r EXCEPT !.at = @ + 1] \in Saver
<1>1. ASSUME NEW a \in Nat, NEW im \in Image, NEW ims \in Seq(Image)
      PROVE  /\ [r EXCEPT !.at = a, !.images = ims] \in Saver
             /\ [r EXCEPT !.pc = "dbs", !.at = a, !.image = im, !.images = ims] \in Saver
             /\ [r EXCEPT !.at = a] \in Saver
  BY DEF Saver
<1>2. /\ r.at + 1 \in Nat
      /\ Append(r.images, EmptyImage) \in Seq(Image)
      /\ Append(r.images, r.image) \in Seq(Image)
      /\ EmptyImage \in Image
  BY Constants DEF Saver
<1> QED BY <1>1, <1>2

\* The saver's state with the value of one key encoded.
Encoded(r, k, v) == [r EXCEPT !.todo = @ \ {k}, !.image.entries[k] = v]

\* An entry goes from those that are to do to the image.
LEMMA EncodeStep ==
    ASSUME NEW r \in Saver, NEW k \in Keys, NEW v \in Value
    PROVE  /\ Encoded(r, k, v) \in Saver
           /\ Encoded(r, k, v).pc = r.pc /\ Encoded(r, k, v).at = r.at
           /\ Encoded(r, k, v).images = r.images
           /\ Encoded(r, k, v).todo = r.todo \ {k}
           /\ Encoded(r, k, v).image.count = r.image.count
           /\ Encoded(r, k, v).image.entries = [r.image.entries EXCEPT ![k] = v]
<1> DEFINE r1 == Encoded(r, k, v)
<1>1. r.image \in Image /\ r.image.entries \in Db
  BY SaverFields
<1>2. [r.image.entries EXCEPT ![k] = v] \in Db
  BY <1>1 DEF Db
<1> DEFINE im == [r.image EXCEPT !.entries = [r.image.entries EXCEPT ![k] = v]]
<1>3. /\ im \in Image /\ im.count = r.image.count
      /\ im.entries = [r.image.entries EXCEPT ![k] = v]
  BY <1>1, <1>2 DEF Image
<1>4. r1 = [r EXCEPT !.todo = @ \ {k}, !.image = im]
  BY DEF Encoded
<1> HIDE DEF im, r1
<1>5. /\ r1 \in Saver /\ r1.pc = r.pc /\ r1.at = r.at /\ r1.images = r.images
      /\ r1.todo = r.todo \ {k} /\ r1.image = im
  BY <1>3, <1>4 DEF Saver
<1> QED BY <1>3, <1>5 DEF r1

\* What a start loads from a file are databases.
LEMMA LoadType ==
    ASSUME NEW source \in Seq(Pieces), source # <<>>
    PROVE  /\ RDBLoad(source) \in Seq(Db)
           /\ Len(RDBLoad(source)) = Len(source) - 1
           /\ \A i \in 1..Len(source) - 1 : RDBLoad(source)[i] = source[i + 1].image.entries
<1>1. Len(source) - 1 \in Nat
  OBVIOUS
<1>2. ASSUME NEW i \in 1..Len(source) - 1 PROVE source[i + 1].image.entries \in Db
  <2>1. source[i + 1] \in Pieces
    BY <1>1
  <2>2. source[i + 1].image \in Image
    BY <2>1 DEF Pieces
  <2> QED BY <2>2, ImageFields
<1> QED BY <1>1, <1>2 DEF RDBLoad

\* Every step keeps the types.
LEMMA TypeStep ==
    ASSUME TypeOK, Locals, Encoding, Written, [Next]_vars
    PROVE  TypeOK'
<1>0. /\ dbs \in Seq(Db) /\ saver \in Saver /\ file \in Seq(Pieces) /\ DOMAIN dbs = 1..Len(dbs)
      /\ nset + 1 \in Nat /\ crashes + 1 \in Nat /\ Fresh \in Value /\ None \in Value
      /\ nset + 1 \in Value /\ attempt \in Seq(Image) /\ base \in Base
      /\ saver.images \in Seq(Image)
  BY SaverFields DEF TypeOK, Fresh, Value
<1>1. ASSUME NEW d \in 1..Len(dbs), NEW k \in Keys, NewStr(d, k) PROVE TypeOK'
  <2>1. dbs' \in Seq(Db)
    BY <1>0, <1>1, Store DEF NewStr, Stored
  <2>2. exec' \in Executor
    BY <1>0, <1>1 DEF NewStr, Executor
  <2> QED BY <2>1, <2>2, <1>1 DEF NewStr, TypeOK, history
<1>2. ASSUME NEW d \in 1..Len(dbs), NEW k \in Keys, SetStr(d, k) PROVE TypeOK'
  <2>1. dbs' \in Seq(Db)
    BY <1>0, <1>2, Store DEF SetStr, Stored
  <2>2. exec' \in Executor
    BY <1>2, Constants DEF SetStr
  <2> QED BY <2>1, <2>2, <1>0, <1>2 DEF SetStr, TypeOK
<1>3. ASSUME NEW d \in 1..Len(dbs), NEW k \in Keys, Del(d, k) PROVE TypeOK'
  <2>1. dbs' \in Seq(Db)
    BY <1>0, <1>3, Store DEF Del, Stored
  <2> QED BY <2>1, <1>0, <1>3 DEF Del, TypeOK
<1>4. CASE CreateDB
  <2>1. dbs' \in Seq(Db)
    BY <1>0, <1>4, Constants DEF CreateDB
  <2> QED BY <2>1, <1>4 DEF CreateDB, TypeOK, history
<1>5. CASE SaveBegin
  <2>1. saver' \in Saver
    BY <1>0, <1>5, Constants DEF SaveBegin, Saver
  <2>2. base' \in Base
    BY <1>5 DEF SaveBegin, Base, TypeOK
  <2> QED BY <2>1, <2>2, <1>5 DEF SaveBegin, TypeOK
<1>6. CASE SaveDb
  <2>1. Present(dbs[saver.at]) \in SUBSET Keys /\ Cardinality(Present(dbs[saver.at])) \in Nat
    BY CountType DEF Present
  <2>2. [EmptyImage EXCEPT !.count = Cardinality(Present(dbs[saver.at]))] \in Image
    BY <2>1, Constants DEF Image
  <2>3. saver' \in Saver
    <3>1. CASE Present(dbs[saver.at]) = {}
      BY <3>1, <1>0, <1>6, SaverSteps DEF SaveDb
    <3>2. CASE Present(dbs[saver.at]) # {}
      <4> DEFINE here == Present(dbs[saver.at])
      <4> DEFINE image == [EmptyImage EXCEPT !.count = Cardinality(here)]
      <4>1. saver' = [saver EXCEPT !.pc = "entries", !.todo = here, !.image = image]
        BY <3>2, <1>6 DEF SaveDb
      <4>2. here \in SUBSET Keys /\ image \in Image
        BY <2>1, <2>2
      <4> HIDE DEF here, image
      <4> QED BY <4>1, <4>2, <1>0 DEF Saver
    <3> QED BY <3>1, <3>2
  <2> QED BY <2>3, <1>6 DEF SaveDb, TypeOK, history
<1>7. ASSUME NEW k \in Keys, EncodeEntry(k) PROVE TypeOK'
  <2>1. CASE dbs[saver.at][k] = Fresh
    <3>1. /\ up' = FALSE /\ dbs' = <<>> /\ exec' = Idle /\ saver' = Sleeping
          /\ kept' = (IF complete THEN kept ELSE {})
          /\ UNCHANGED <<file, nset, crashes, base, attempt, complete>>
      BY <2>1, <1>7 DEF EncodeEntry, Die
    <3>2. kept' \in SUBSET Versions /\ dbs' \in Seq(Db)
      BY <3>1 DEF TypeOK
    <3> QED BY <3>1, <3>2, Constants DEF TypeOK
  <2>2. CASE dbs[saver.at][k] # Fresh
    <3>1. dbs[saver.at][k] \in Value
      BY <1>0, <1>7 DEF EncodeEntry, Encoding, Db
    <3>2. saver' = Encoded(saver, k, dbs[saver.at][k])
      BY <2>2, <1>7 DEF EncodeEntry, Encoded
    <3>3. saver' \in Saver
      BY <3>1, <3>2, <1>0, EncodeStep
    <3> QED BY <3>3, <2>2, <1>7 DEF EncodeEntry, TypeOK
  <2> QED BY <2>1, <2>2
<1>8. CASE SavedDb
  <2>1. saver' \in Saver
    BY <1>0, <1>8, SaverSteps DEF SavedDb
  <2> QED BY <2>1, <1>8 DEF SavedDb, TypeOK, history
<1>9. CASE Generated
  <2>1. saver' \in Saver
    BY <1>0, <1>9 DEF Generated, Saver
  <2> QED BY <2>1, <1>9 DEF Generated, TypeOK, history
<1>10. CASE Truncate
  <2>1. saver' \in Saver
    BY <1>0, <1>10 DEF Truncate, Saver
  <2>2. file' \in Seq(Pieces) /\ attempt' \in Seq(Image) /\ complete' \in BOOLEAN
    <3>1. file' = <<>> /\ attempt' = saver.images /\ complete' = FALSE
      BY <1>10, Zenon DEF Truncate
    <3>2. <<>> \in Seq(Pieces) /\ FALSE \in BOOLEAN
      OBVIOUS
    <3> QED BY <3>1, <3>2, <1>0, Zenon
  <2> QED BY <2>1, <2>2, <1>10 DEF Truncate, TypeOK
<1>11. CASE WriteMagic
  <2>1. saver' \in Saver
    BY <1>0, <1>11 DEF WriteMagic, Saver
  <2>2. file' \in Seq(Pieces)
    BY <1>0, <1>11, Constants DEF WriteMagic
  <2> QED BY <2>1, <2>2, <1>11 DEF WriteMagic, TypeOK, history
<1>12. CASE WriteDb
  <2>1. saver' \in Saver
    BY <1>0, <1>12, SaverSteps DEF WriteDb
  <2>2. file' \in Seq(Pieces)
    <3>1. ASSUME NEW image \in Image PROVE Piece("image", image) \in Pieces
      BY DEF Piece, Pieces
    <3>2. CASE saver.images[saver.at].count = 0
      BY <3>2, <1>0, <1>12 DEF WriteDb
    <3>3. CASE saver.images[saver.at].count # 0
      <4>1. saver.at \in 1..Len(saver.images)
        BY <1>0, <1>12 DEF WriteDb, Written
      <4>2. Piece("image", saver.images[saver.at]) \in Pieces
        BY <3>1, <4>1, <1>0
      <4> QED BY <4>2, <3>3, <1>0, <1>12 DEF WriteDb
    <3> QED BY <3>2, <3>3
  <2> QED BY <2>1, <2>2, <1>12 DEF WriteDb, TypeOK, history
<1>13. CASE SaveDone
  BY <1>13, Constants DEF SaveDone, TypeOK
<1>14. CASE Crash
  <2>1. file' \in Seq(Pieces)
    <3>1. file' = file \/ file' = Append(file, Torn)
      BY <1>14, Zenon DEF Crash
    <3> QED BY <3>1, <1>0, Constants
  <2>2. /\ up' = FALSE /\ dbs' = <<>> /\ exec' = Idle /\ saver' = Sleeping
        /\ kept' = (IF complete THEN kept ELSE {})
        /\ crashes' = crashes + 1
        /\ UNCHANGED <<nset, base, attempt, complete>>
    BY <1>14 DEF Crash, Die
  <2>3. kept' \in SUBSET Versions /\ dbs' \in Seq(Db)
    BY <2>2 DEF TypeOK
  <2> QED BY <2>1, <2>2, <2>3, <1>0, Constants DEF TypeOK
<1>15. CASE Start
  <2>1. dbs' \in Seq(Db)
    <3>1. dbs' = dbs \/ dbs' = <<EmptyDb>> \/ (file # <<>> /\ dbs' = RDBLoad(file))
      BY <1>15, Zenon DEF Start
    <3>2. <<EmptyDb>> \in Seq(Db)
      BY Constants
    <3>3. file # <<>> => RDBLoad(file) \in Seq(Db)
      BY <1>0, LoadType
    <3> QED BY <3>1, <3>2, <3>3, <1>0, Zenon
  <2>2. up' \in BOOLEAN /\ complete' \in BOOLEAN /\ file' \in Seq(Pieces)
    <3>1. file' = <<>> /\ complete' = FALSE /\ (up' = up \/ up' = TRUE)
      BY <1>15, Zenon DEF Start
    <3>2. <<>> \in Seq(Pieces) /\ FALSE \in BOOLEAN /\ TRUE \in BOOLEAN
      OBVIOUS
    <3> QED BY <3>1, <3>2, Zenon DEF TypeOK
  <2> QED BY <2>1, <2>2, <1>15 DEF Start, TypeOK
<1>16. CASE UNCHANGED vars
  BY <1>16 DEF vars, TypeOK
<1> QED
  BY <1>0, <1>1, <1>2, <1>3, <1>4, <1>5, <1>6, <1>7, <1>8, <1>9, <1>10, <1>11, <1>12, <1>13,
     <1>14, <1>15, <1>16 DEF Next, Command, Save

(***************************************************************************)
(* The parts of the inductive invariant, one by one.                       *)
(***************************************************************************)
\* Every step of a dead process's end or of a start leaves the threads as new.
LEMMA DieFields ==
    ASSUME Die
    PROVE  /\ ~up' /\ dbs' = <<>> /\ exec' = Idle /\ saver' = Sleeping
           /\ exec'.pc = "idle" /\ saver'.pc = "sleep" /\ saver'.images = <<>>
BY DEF Die, Idle, Sleeping

\* The timer thread runs only in a process that does.
LEMMA Awake ==
    ASSUME Locals, saver.pc # "sleep"
    PROVE  up
BY DEF Locals, Sleeping

\* Every step keeps what the two threads know of their own.
LEMMA LocalsStep ==
    ASSUME TypeOK, Locals, Encoding, [Next]_vars
    PROVE  Locals'
<1>0. dbs \in Seq(Db) /\ saver \in Saver /\ exec \in Executor /\ DOMAIN dbs = 1..Len(dbs)
      /\ Idle.pc = "idle" /\ Sleeping.pc = "sleep" /\ Fresh \in Value /\ nset + 1 \in Value
      /\ None \in Value
  BY DEF TypeOK, Idle, Sleeping, Fresh, Value
<1>1. ASSUME NEW d \in 1..Len(dbs), NEW k \in Keys, NewStr(d, k) PROVE Locals'
  <2>1. Len(dbs') = Len(dbs) /\ dbs'[d][k] = Fresh
    <3>1. dbs' = Stored(dbs, d, k, Fresh)
      BY <1>1 DEF NewStr, Stored
    <3> QED BY <1>0, <3>1, Store
  <2>2. exec' = [pc |-> "set", db |-> d, key |-> k] /\ saver' = saver /\ up' = up /\ up
    BY <1>1 DEF NewStr
  <2> QED BY <2>1, <2>2 DEF Locals
<1>2. ASSUME NEW d \in 1..Len(dbs), NEW k \in Keys, SetStr(d, k) PROVE Locals'
  BY <1>0, <1>2 DEF SetStr, Locals
<1>3. ASSUME NEW d \in 1..Len(dbs), NEW k \in Keys, Del(d, k) PROVE Locals'
  BY <1>0, <1>3 DEF Del, Locals
<1>4. CASE CreateDB
  BY <1>0, <1>4 DEF CreateDB, Locals
<1>5. CASE SaveBegin
  <2>1. saver'.pc = "dbs" /\ saver'.at = 1 /\ up /\ up' = up /\ UNCHANGED <<dbs, exec>>
    BY <1>5 DEF SaveBegin, Sleeping
  <2> QED BY <2>1 DEF Locals
<1>6. ASSUME saver.pc # "sleep", saver' = Sleeping \/ (saver'.pc # "sleep" /\ saver'.at > 0),
             UNCHANGED <<up, dbs, exec>>
      PROVE  Locals'
  BY <1>0, <1>6, Awake DEF Locals
<1>7. ASSUME NEW k \in Keys, EncodeEntry(k) PROVE Locals'
  <2>1. CASE dbs[saver.at][k] = Fresh
    BY <2>1, <1>0, <1>7, DieFields DEF EncodeEntry, Locals
  <2>2. CASE dbs[saver.at][k] # Fresh
    <3>1. dbs[saver.at][k] \in Value
      BY <1>0, <1>7 DEF EncodeEntry, Encoding, Db
    <3> DEFINE v == dbs[saver.at][k]
    <3>2. saver' = Encoded(saver, k, v)
      BY <2>2, <1>7 DEF EncodeEntry, Encoded
    <3>3. saver'.pc = saver.pc /\ saver'.at = saver.at
      <4> HIDE DEF v
      <4>1. v \in Value
        BY <3>1 DEF v
      <4> QED BY <4>1, <3>2, <1>0, EncodeStep
    <3> QED BY <2>2, <3>3, <1>6, <1>7 DEF EncodeEntry, Locals
  <2> QED BY <2>1, <2>2
<1>8. CASE SaveDb
  <2>1. saver'.pc \in {"dbs", "entries"} /\ saver'.at > 0
    BY <1>0, <1>8 DEF SaveDb, Saver, Locals
  <2> QED BY <2>1, <1>6, <1>8 DEF SaveDb
<1>9. CASE SavedDb \/ Generated \/ Truncate \/ WriteMagic
  <2>1. saver'.pc # "sleep" /\ saver'.at > 0
    <3>1. saver.pc # "sleep" /\ saver.at > 0
      BY <1>9 DEF SavedDb, Generated, Truncate, WriteMagic, Locals
    <3>2. CASE SavedDb
      BY <1>0, <3>1, <3>2 DEF SavedDb, Saver
    <3>3. CASE Generated
      BY <1>0, <3>3 DEF Generated, Saver
    <3>4. CASE Truncate \/ WriteMagic
      BY <1>0, <3>1, <3>4 DEF Truncate, WriteMagic, Saver
    <3> QED BY <1>9, <3>2, <3>3, <3>4
  <2> QED BY <2>1, <1>6, <1>9 DEF SavedDb, Generated, Truncate, WriteMagic
<1>10. CASE WriteDb
  <2>1. saver'.pc # "sleep" /\ saver'.at > 0
    BY <1>0, <1>10 DEF WriteDb, Saver, Locals
  <2> QED BY <2>1, <1>6, <1>10 DEF WriteDb
<1>11. CASE SaveDone
  BY <1>6, <1>11 DEF SaveDone
<1>12. CASE Crash
  BY <1>0, <1>12, DieFields DEF Crash, Locals
<1>13. CASE Start
  BY <1>0, <1>13 DEF Start, Locals
<1>14. CASE UNCHANGED vars
  BY <1>14 DEF vars, Locals
<1> QED
  BY <1>0, <1>1, <1>2, <1>3, <1>4, <1>5, <1>7, <1>8, <1>9, <1>10, <1>11, <1>12, <1>13, <1>14
  DEF Next, Command, Save

\* While a database is encoded the number of its keys stands: NewStr and Del
\* are latched out, and Str::Set replaces the value of a key that is there.
LEMMA EncodingStep ==
    ASSUME TypeOK, Locals, Encoding, [Next]_vars
    PROVE  Encoding'
<1>0. dbs \in Seq(Db) /\ saver \in Saver /\ exec \in Executor /\ DOMAIN dbs = 1..Len(dbs)
      /\ Fresh \in Value /\ nset + 1 \in Value /\ None \in Value
      /\ Fresh # None /\ nset + 1 # None
  BY RdbAssumption DEF TypeOK, Fresh, Value
<1>1. ASSUME Len(dbs') = Len(dbs), saver' = saver,
             saver.pc = "entries" => Present(dbs'[saver.at]) = Present(dbs[saver.at])
      PROVE  Encoding'
  BY <1>1 DEF Encoding
<1>2. ASSUME NEW d \in 1..Len(dbs), NEW k \in Keys, NEW v \in Value,
             dbs' = Stored(dbs, d, k, v), saver' = saver,
             ~Latched(d) \/ (v # None /\ dbs[d][k] # None)
      PROVE  Encoding'
  <2>1. /\ Len(dbs') = Len(dbs) /\ dbs'[d][k] = v
        /\ \A j \in Keys : j # k => dbs'[d][j] = dbs[d][j]
        /\ \A e \in 1..Len(dbs) : e # d => dbs'[e] = dbs[e]
    <3>1. dbs \in Seq(Db)
      BY <1>0
    <3> DEFINE d1 == Stored(dbs, d, k, v)
    <3>2. /\ Len(d1) = Len(dbs) /\ d1[d][k] = v
          /\ \A j \in Keys : j # k => d1[d][j] = dbs[d][j]
          /\ \A e \in 1..Len(dbs) : e # d => d1[e] = dbs[e]
      BY <3>1, Store
    <3> QED BY <1>2, <3>2, Zenon
  <2>2. ASSUME saver.pc = "entries" PROVE Present(dbs'[saver.at]) = Present(dbs[saver.at])
    <3>1. saver.at \in 1..Len(dbs)
      BY <2>2 DEF Encoding
    <3>2. CASE saver.at # d
      BY <2>1, <3>1, <3>2
    <3>3. CASE saver.at = d
      BY <1>2, <2>1, <2>2, <3>3 DEF Latched, Present
    <3> QED BY <3>2, <3>3
  <2> QED BY <1>1, <1>2, <2>1, <2>2
<1>3. ASSUME NEW d \in 1..Len(dbs), NEW k \in Keys, NewStr(d, k) PROVE Encoding'
  BY <1>0, <1>2, <1>3 DEF NewStr, Stored
<1>4. ASSUME NEW d \in 1..Len(dbs), NEW k \in Keys, SetStr(d, k) PROVE Encoding'
  <2>1. dbs[d][k] # None
    BY <1>0, <1>4 DEF SetStr, Locals
  <2> QED BY <2>1, <1>0, <1>2, <1>4 DEF SetStr, Stored
<1>5. ASSUME NEW d \in 1..Len(dbs), NEW k \in Keys, Del(d, k) PROVE Encoding'
  BY <1>0, <1>2, <1>5 DEF Del, Stored
<1>6. CASE CreateDB
  BY <1>0, <1>6 DEF CreateDB, Encoding, ListLatched
<1>7. ASSUME saver'.pc # "entries" PROVE Encoding'
  BY <1>7 DEF Encoding
<1>8. CASE SaveBegin
  <2>1. saver'.pc = "dbs"
    BY <1>8 DEF SaveBegin, Sleeping
  <2> QED BY <1>7, <2>1
<1>9. CASE SaveDb
  <2> DEFINE here == Present(dbs[saver.at])
  <2> DEFINE image == [EmptyImage EXCEPT !.count = Cardinality(here)]
  <2>1. CASE here = {}
    <3>1. saver'.pc = "dbs"
      BY <1>0, <1>9, <2>1 DEF SaveDb, Saver
    <3> QED BY <1>7, <3>1
  <2>2. CASE here # {}
    <3>1. /\ saver' = [saver EXCEPT !.pc = "entries", !.todo = here, !.image = image]
          /\ dbs' = dbs
      BY <1>9, <2>2 DEF SaveDb
    <3>2. saver.at \in 1..Len(dbs)
      BY <1>0, <1>9 DEF SaveDb, Saver, Locals
    <3>3. image.count = Cardinality(here) /\ Present(image.entries) = {}
      BY DEF EmptyImage, EmptyDb, Present
    <3> HIDE DEF image
    <3>4. saver'.at = saver.at /\ saver'.todo = here /\ saver'.image = image
      BY <3>1, <1>0 DEF Saver
    <3> QED BY <3>1, <3>2, <3>3, <3>4 DEF Encoding
  <2> QED BY <2>1, <2>2
<1>10. ASSUME NEW k \in Keys, EncodeEntry(k) PROVE Encoding'
  <2>1. CASE dbs[saver.at][k] = Fresh
    BY <2>1, <1>7, <1>10, DieFields DEF EncodeEntry
  <2>2. CASE dbs[saver.at][k] # Fresh
    <3> DEFINE v == dbs[saver.at][k]
    <3>1. v \in Value /\ v # None /\ saver.pc = "entries" /\ k \in saver.todo
      BY <1>0, <1>10 DEF EncodeEntry, Encoding, Db, Present
    <3>2. /\ saver' = Encoded(saver, k, v)
          /\ dbs' = dbs
      BY <1>10, <2>2 DEF EncodeEntry, Encoded
    <3> HIDE DEF v
    <3>3. /\ saver'.at = saver.at
          /\ saver'.todo = saver.todo \ {k} /\ saver'.image.count = saver.image.count
          /\ saver'.image.entries = [saver.image.entries EXCEPT ![k] = v]
      BY <3>1, <3>2, <1>0, EncodeStep
    <3>4. Present(saver'.image.entries) = Present(saver.image.entries) \cup {k}
      BY <3>1, <3>3, <1>0, SaverFields DEF Present, Db
    <3> QED BY <3>1, <3>2, <3>3, <3>4 DEF Encoding
  <2> QED BY <2>1, <2>2
<1>11. CASE SavedDb \/ Generated \/ Truncate \/ WriteMagic \/ SaveDone \/ WriteDb
  <2>1. CASE SavedDb \/ Generated
    BY <2>1, <1>0, <1>7 DEF SavedDb, Generated, Saver
  <2>2. CASE Truncate \/ WriteMagic
    BY <2>2, <1>0, <1>7 DEF Truncate, WriteMagic, Saver
  <2>3. CASE SaveDone
    BY <2>3, <1>7 DEF SaveDone, Sleeping
  <2>4. CASE WriteDb
    <3>1. saver' = [saver EXCEPT !.at = @ + 1] /\ saver.pc = "write"
      BY <2>4 DEF WriteDb
    <3> QED BY <3>1, <1>0, <1>7 DEF Saver
  <2> QED BY <1>11, <2>1, <2>2, <2>3, <2>4
<1>12. CASE Crash
  BY <1>7, <1>12, DieFields DEF Crash
<1>13. CASE Start
  <2>1. saver' = Sleeping
    BY <1>13 DEF Start, Locals
  <2> QED BY <1>7, <2>1 DEF Sleeping
<1>14. CASE UNCHANGED vars
  BY <1>14 DEF vars, Encoding
<1> QED
  BY <1>0, <1>3, <1>4, <1>5, <1>6, <1>8, <1>9, <1>10, <1>11, <1>12, <1>13, <1>14
  DEF Next, Command, Save

\* How a step changes the finished images.
LEMMA ImagesStep ==
    ASSUME TypeOK, Locals, Encoding, [Next]_vars
    PROVE  \/ saver'.images = <<>>
           \/ saver'.images = saver.images
           \/ SaveDb /\ saver'.images = Append(saver.images, EmptyImage)
                     /\ Present(dbs[saver.at]) = {}
           \/ SavedDb /\ saver'.images = Append(saver.images, saver.image)
<1>0. saver \in Saver /\ dbs \in Seq(Db) /\ Sleeping.images = <<>>
  BY DEF TypeOK, Sleeping
<1>1. CASE UNCHANGED saver
  BY <1>1
<1>2. CASE SaveBegin
  BY <1>2 DEF SaveBegin, Sleeping
<1>3. CASE SaveDb
  <2>1. CASE Present(dbs[saver.at]) = {}
    BY <1>0, <1>3, <2>1 DEF SaveDb, Saver
  <2>2. CASE Present(dbs[saver.at]) # {}
    <3>1. PICK image : saver' = [saver EXCEPT !.pc = "entries",
                                   !.todo = Present(dbs[saver.at]), !.image = image]
      BY <1>3, <2>2 DEF SaveDb
    <3>2. saver'.images = saver.images
      BY <1>0, <3>1 DEF Saver
    <3> QED BY <3>2
  <2> QED BY <2>1, <2>2
<1>4. ASSUME NEW k \in Keys, EncodeEntry(k)
      PROVE  saver'.images = <<>> \/ saver'.images = saver.images
  <2>1. CASE dbs[saver.at][k] = Fresh
    BY <2>1, <1>4, DieFields DEF EncodeEntry
  <2>2. CASE dbs[saver.at][k] # Fresh
    <3> DEFINE v == dbs[saver.at][k]
    <3>1. v \in Value
      BY <1>0, <1>4 DEF EncodeEntry, Encoding, Db
    <3>2. saver' = Encoded(saver, k, v)
      BY <1>4, <2>2 DEF EncodeEntry, Encoded
    <3> HIDE DEF v
    <3> QED BY <3>1, <3>2, <1>0, EncodeStep
  <2> QED BY <2>1, <2>2
<1>5. CASE SavedDb
  BY <1>0, <1>5 DEF SavedDb, Saver
<1>6. CASE Generated
  BY <1>0, <1>6 DEF Generated, Saver
<1>7. CASE Truncate \/ WriteMagic
  BY <1>0, <1>7 DEF Truncate, WriteMagic, Saver
<1>8. CASE WriteDb
  <2>1. saver' = [saver EXCEPT !.at = @ + 1]
    BY <1>8 DEF WriteDb
  <2> QED BY <2>1, <1>0 DEF Saver
<1>9. CASE SaveDone \/ Crash
  BY <1>0, <1>9, DieFields DEF SaveDone, Crash
<1>10. ASSUME Command \/ Start \/ UNCHANGED vars PROVE UNCHANGED saver
  BY <1>10 DEF Command, NewStr, SetStr, Del, CreateDB, Start, vars
<1> QED
  BY <1>1, <1>2, <1>3, <1>4, <1>5, <1>6, <1>7, <1>8, <1>9, <1>10 DEF Next, Save

\* The header of every finished image stays right.
LEMMA HeaderStep ==
    ASSUME TypeOK, Locals, Encoding, HeaderMatches, [Next]_vars
    PROVE  HeaderMatches'
<1>0. /\ saver \in Saver /\ saver.images \in Seq(Image) /\ saver.image \in Image
      /\ EmptyImage \in Image
  BY SaverFields, Constants DEF TypeOK
<1>1. ASSUME NEW image \in Image, image.count = Cardinality(Present(image.entries)),
             saver'.images = Append(saver.images, image)
      PROVE  HeaderMatches'
  <2>1. ASSUME NEW i \in DOMAIN saver'.images
        PROVE  saver'.images[i].count = Cardinality(Present(saver'.images[i].entries))
    <3>1. CASE i \in DOMAIN saver.images
      <4>1. saver'.images[i] = saver.images[i]
        BY <1>0, <1>1, <3>1
      <4> QED BY <3>1, <4>1 DEF HeaderMatches
    <3>2. CASE i \notin DOMAIN saver.images
      <4>1. saver'.images[i] = image
        BY <1>0, <1>1, <2>1, <3>2
      <4> QED BY <1>1, <4>1
    <3> QED BY <3>1, <3>2
  <2> QED BY <2>1 DEF HeaderMatches
<1>2. CASE saver'.images = <<>>
  BY <1>2 DEF HeaderMatches
<1>3. CASE saver'.images = saver.images
  BY <1>3 DEF HeaderMatches
<1>4. CASE saver'.images = Append(saver.images, EmptyImage)
  <2>1. EmptyImage.count = 0 /\ Present(EmptyImage.entries) = {}
    BY DEF EmptyImage, EmptyDb, Present
  <2> QED BY <1>0, <1>1, <1>4, <2>1, FS_EmptySet
<1>5. CASE SavedDb /\ saver'.images = Append(saver.images, saver.image)
  <2>1. saver.image.count = Cardinality(Present(saver.image.entries))
    <3>1. saver.pc = "entries" /\ saver.todo = {}
      BY <1>5 DEF SavedDb
    <3>2. Present(saver.image.entries) = Present(dbs[saver.at])
      BY <3>1 DEF Encoding
    <3> QED BY <3>1, <3>2 DEF Encoding
  <2> QED BY <1>0, <1>1, <1>5, <2>1
<1> QED BY <1>2, <1>3, <1>4, <1>5, ImagesStep

\* A store by a command keeps what is known of the databases since the save
\* began.
LEMMA StoreSince ==
    ASSUME TypeOK, Since, NEW d \in 1..Len(dbs), NEW k \in Keys,
           NEW v \in {None, Fresh, nset + 1},
           dbs' = Stored(dbs, d, k, v), UNCHANGED <<saver, base>>, nset' \in {nset, nset + 1}
    PROVE  Since'
<1>0. dbs \in Seq(Db) /\ nset \in Nat /\ base.nset \in Nat /\ v \in Value /\ nset + 1 > base.nset
  BY DEF TypeOK, Base, Value, Fresh, Since
<1>1. /\ Len(dbs') = Len(dbs) /\ dbs'[d][k] = v
      /\ \A j \in Keys : j # k => dbs'[d][j] = dbs[d][j]
      /\ \A e \in 1..Len(dbs) : e # d => dbs'[e] = dbs[e]
  BY <1>0, Store
<1>2. base'.nset <= nset'
  BY <1>0 DEF Since
<1>3. SameDbs'
  <2> SUFFICES ASSUME ListLatched
               PROVE  /\ Len(dbs') = Len(base.dbs) /\ saver.at = Len(saver.images) + 1
                      /\ \A e \in 1..Len(dbs'), j \in Keys :
                           dbs'[e][j] \in {None, Fresh} \/ OfSave(base, e, j, dbs'[e][j])
    BY DEF SameDbs, ListLatched, OfSave
  <2>1. ASSUME NEW e \in 1..Len(dbs), NEW j \in Keys
        PROVE  dbs'[e][j] \in {None, Fresh} \/ OfSave(base, e, j, dbs'[e][j])
    <3>1. CASE e = d /\ j = k
      BY <1>0, <1>1, <3>1 DEF OfSave
    <3>2. CASE ~ (e = d /\ j = k)
      BY <1>1, <3>2 DEF Since, SameDbs
    <3> QED BY <3>1, <3>2
  <2> QED BY <1>1, <2>1 DEF Since, SameDbs
<1> QED BY <1>2, <1>3 DEF Since, ImageOfSave, OfSave

\* Every value in an image is of its save.
LEMMA SinceStep ==
    ASSUME TypeOK, Locals, Encoding, Since, [Next]_vars
    PROVE  Since'
<1>0. /\ dbs \in Seq(Db) /\ saver \in Saver /\ DOMAIN dbs = 1..Len(dbs)
      /\ saver.images \in Seq(Image) /\ nset \in Nat /\ base \in Base
      /\ saver.image \in Image
  BY SaverFields DEF TypeOK
<1>1. ASSUME NEW d \in 1..Len(dbs), NEW k \in Keys, NewStr(d, k) \/ SetStr(d, k) \/ Del(d, k)
      PROVE  Since'
  BY <1>1, StoreSince DEF NewStr, SetStr, Del, Stored, history
\* The timer thread finishes with the list, or does not hold its latch.
<1>2. ASSUME UNCHANGED <<nset, base>>, ~ListLatched',
             saver'.images = saver.images \/ saver'.images = <<>>
      PROVE  Since'
  BY <1>2 DEF Since, SameDbs, ListLatched, ImageOfSave, OfSave
<1>3. CASE CreateDB
  BY <1>2, <1>3 DEF CreateDB, ListLatched, history
<1>4. CASE SaveBegin
  <2>1. /\ saver'.pc = "dbs" /\ saver'.at = 1 /\ saver'.images = <<>>
        /\ base'.dbs = dbs /\ base'.nset = nset /\ dbs' = dbs /\ nset' = nset
    BY <1>4 DEF SaveBegin, Sleeping
  <2>2. SameDbs'
    BY <2>1, <1>0 DEF SameDbs, OfSave
  <2> QED BY <2>1, <2>2, <1>0 DEF Since
<1>5. CASE SaveDb
  <2>0. /\ saver.pc = "dbs" /\ UNCHANGED <<dbs, nset, base>> /\ saver.at = Len(saver.images) + 1
    BY <1>5 DEF SaveDb, history, Since, SameDbs, ListLatched
  <2>1. CASE Present(dbs[saver.at]) = {}
    <3>1. /\ saver'.pc = "dbs" /\ saver'.at = saver.at + 1
          /\ saver'.images = Append(saver.images, EmptyImage)
      BY <1>0, <1>5, <2>1 DEF SaveDb, Saver
    <3>2. SameDbs'
      BY <3>1, <2>0, <1>0, Constants DEF SameDbs, ListLatched, OfSave, Since
    <3>3. ASSUME NEW i \in 1..Len(saver'.images)
          PROVE  ImageOfSave(base, i, saver'.images[i].entries)
      <4>1. CASE i \in 1..Len(saver.images)
        <5>1. saver'.images[i] = saver.images[i]
          BY <1>0, <3>1, <4>1, Constants
        <5> QED BY <4>1, <5>1 DEF Since
      <4>2. CASE i \notin 1..Len(saver.images)
        <5>1. saver'.images[i] = EmptyImage
          BY <1>0, <3>1, <3>3, <4>2, Constants
        <5> QED BY <5>1 DEF ImageOfSave, EmptyImage, EmptyDb
      <4> QED BY <4>1, <4>2
    <3> QED BY <2>0, <3>1, <3>2, <3>3 DEF Since
  <2>2. CASE Present(dbs[saver.at]) # {}
    <3> DEFINE image == [EmptyImage EXCEPT !.count = Cardinality(Present(dbs[saver.at]))]
    <3>1. saver' = [saver EXCEPT !.pc = "entries",
                                   !.todo = Present(dbs[saver.at]), !.image = image]
      BY <1>5, <2>2 DEF SaveDb
    <3>2. image.entries = EmptyDb
      BY DEF EmptyImage
    <3> HIDE DEF image
    <3>3. saver'.pc = "entries" /\ saver'.at = saver.at /\ saver'.images = saver.images
          /\ saver'.image.entries = EmptyDb
      BY <1>0, <3>1, <3>2 DEF Saver
    <3>4. SameDbs'
      BY <3>3, <2>0 DEF SameDbs, ListLatched, OfSave, Since
    <3> QED BY <2>0, <3>3, <3>4 DEF Since, ImageOfSave, OfSave, EmptyDb
  <2> QED BY <2>1, <2>2
<1>6. ASSUME NEW k \in Keys, EncodeEntry(k) PROVE Since'
  <2>1. CASE dbs[saver.at][k] = Fresh
    BY <2>1, <1>2, <1>6, DieFields DEF EncodeEntry, ListLatched
  <2>2. CASE dbs[saver.at][k] # Fresh
    <3> DEFINE v == dbs[saver.at][k]
    <3>1. v \in Value /\ v # None /\ v # Fresh /\ saver.pc = "entries" /\ saver.at \in 1..Len(dbs)
      BY <1>0, <1>6, <2>2 DEF EncodeEntry, Encoding, Db, Present
    <3>2. saver' = Encoded(saver, k, v) /\ UNCHANGED <<dbs, nset, base>>
      BY <1>6, <2>2 DEF EncodeEntry, Encoded
    <3>3. OfSave(base, saver.at, k, v)
      BY <3>1 DEF Since, SameDbs, ListLatched
    <3> HIDE DEF v
    <3>4. /\ saver'.pc = saver.pc /\ saver'.at = saver.at /\ saver'.images = saver.images
          /\ saver'.image.entries = [saver.image.entries EXCEPT ![k] = v]
      BY <3>1, <3>2, <1>0, EncodeStep
    <3>5. ImageOfSave(base, saver.at, saver'.image.entries)
      <4>1. saver.image.entries \in Db
        BY <1>0, SaverFields
      <4>2. ASSUME NEW j \in Keys
            PROVE  saver'.image.entries[j] = IF j = k THEN v ELSE saver.image.entries[j]
        BY <4>1, <3>4 DEF Db
      <4> QED BY <4>2, <3>1, <3>3 DEF ImageOfSave, Since
    <3>6. SameDbs'
      BY <3>2, <3>4 DEF SameDbs, ListLatched, OfSave, Since
    <3> QED BY <3>2, <3>4, <3>5, <3>6 DEF Since, ImageOfSave, OfSave
  <2> QED BY <2>1, <2>2
<1>7. CASE SavedDb
  <2>0. /\ saver.pc = "entries" /\ UNCHANGED <<dbs, nset, base>>
        /\ saver.at = Len(saver.images) + 1
    BY <1>7 DEF SavedDb, history, Since, SameDbs, ListLatched
  <2>1. /\ saver'.pc = "dbs" /\ saver'.at = saver.at + 1
        /\ saver'.images = Append(saver.images, saver.image)
    BY <1>0, <1>7 DEF SavedDb, Saver
  <2>2. SameDbs'
    BY <2>0, <2>1, <1>0 DEF SameDbs, ListLatched, OfSave, Since
  <2>3. ASSUME NEW i \in 1..Len(saver'.images)
        PROVE  ImageOfSave(base, i, saver'.images[i].entries)
    <3>1. CASE i \in 1..Len(saver.images)
      <4>1. saver'.images[i] = saver.images[i]
        BY <1>0, <2>1, <3>1
      <4> QED BY <3>1, <4>1 DEF Since
    <3>2. CASE i \notin 1..Len(saver.images)
      <4>1. saver'.images[i] = saver.image /\ i = saver.at
        BY <1>0, <2>0, <2>1, <2>3, <3>2
      <4> QED BY <2>0, <4>1 DEF Since
    <3> QED BY <3>1, <3>2
  <2> QED BY <2>0, <2>1, <2>2, <2>3 DEF Since
<1>8. CASE Generated
  <2>1. saver'.pc = "truncate" /\ saver'.images = saver.images
    BY <1>0, <1>8 DEF Generated, Saver
  <2> QED BY <1>2, <1>8, <2>1 DEF Generated, ListLatched, history
<1>9. CASE Truncate \/ WriteMagic
  <2>1. saver'.pc \in {"magic", "write"} /\ saver'.images = saver.images
    BY <1>0, <1>9 DEF Truncate, WriteMagic, Saver
  <2> QED BY <1>2, <1>9, <2>1 DEF Truncate, WriteMagic, ListLatched, history
<1>10. CASE WriteDb
  <2>1. saver' = [saver EXCEPT !.at = @ + 1] /\ saver.pc = "write" /\ UNCHANGED <<nset, base>>
    BY <1>10 DEF WriteDb, history
  <2>2. saver'.pc = "write" /\ saver'.images = saver.images
    BY <2>1, <1>0 DEF Saver
  <2> QED BY <1>2, <2>1, <2>2 DEF ListLatched
<1>11. CASE SaveDone
  BY <1>2, <1>11 DEF SaveDone, Sleeping, ListLatched
<1>12. CASE Crash
  BY <1>2, <1>12, DieFields DEF Crash, ListLatched
<1>13. CASE Start
  <2>1. saver' = saver /\ saver = Sleeping /\ UNCHANGED <<nset, base>>
    BY <1>13 DEF Start, Locals
  <2> QED BY <1>2, <2>1 DEF Sleeping, ListLatched
<1>14. CASE UNCHANGED vars
  BY <1>14 DEF vars, Since, SameDbs, ListLatched, ImageOfSave, OfSave
<1> QED
  BY <1>0, <1>1, <1>3, <1>4, <1>5, <1>6, <1>7, <1>8, <1>9, <1>10, <1>11, <1>12, <1>13, <1>14
  DEF Next, Command, Save

\* What is known since the save began gives the property.
LEMMA SinceValues == TypeOK /\ Since => ValuesOfThisSave
<1> SUFFICES ASSUME TypeOK, Since, NEW i \in DOMAIN saver.images, NEW k \in Keys,
                    saver.images[i].entries[k] # None
             PROVE  LET v == saver.images[i].entries[k]
                    IN v > base.nset \/ (i \in DOMAIN base.dbs /\ base.dbs[i][k] = v)
  BY DEF ValuesOfThisSave
<1>1. saver.images \in Seq(Image) /\ base.dbs \in Seq(Db)
  BY SaverFields DEF TypeOK, Base
<1>2. i \in 1..Len(saver.images)
  BY <1>1
<1>3. OfSave(base, i, k, saver.images[i].entries[k])
  BY <1>2 DEF Since, ImageOfSave
<1> QED BY <1>1, <1>3 DEF OfSave

(***************************************************************************)
(* What is in the file.                                                    *)
(***************************************************************************)
\* An image makes a piece of the file, which is neither torn nor the magic word.
LEMMA PieceFields ==
    ASSUME NEW image \in Image
    PROVE  /\ Piece("image", image) \in Pieces
           /\ Piece("image", image).image = image
           /\ Piece("image", image) # Torn /\ Piece("image", image) # Magic
<1>1. Piece("image", image).kind = "image" /\ Torn.kind = "torn" /\ Magic.kind = "RDB"
  BY DEF Piece, Torn, Magic
<1>2. Piece("image", image) \in Pieces /\ Piece("image", image).image = image
  BY DEF Piece, Pieces
<1> QED BY <1>1, <1>2

\* The pieces after the magic word.
LEMMA AfterMagicFacts ==
    ASSUME NEW q \in Seq(Image)
    PROVE  /\ AfterMagic(q) \in Seq(Pieces) /\ Len(AfterMagic(q)) = Len(q) + 1
           /\ AfterMagic(q)[1] = Magic
           /\ \A j \in 1..Len(q) : AfterMagic(q)[j + 1] = Piece("image", q[j])
<1> DEFINE tail == [i \in 1..Len(q) |-> Piece("image", q[i])]
<1>1. <<Magic>> \in Seq(Pieces) /\ Len(<<Magic>>) = 1 /\ <<Magic>>[1] = Magic
  BY Constants
<1>2. \A i \in 1..Len(q) : Piece("image", q[i]) \in Pieces
  BY PieceFields
<1>3. tail \in Seq(Pieces) /\ Len(tail) = Len(q) /\ \A j \in 1..Len(q) : tail[j] = Piece("image", q[j])
  BY <1>2
<1>4. AfterMagic(q) = <<Magic>> \o tail
  BY DEF AfterMagic
<1> HIDE DEF tail
<1> QED BY <1>1, <1>3, <1>4

\* One more image is one more piece.
LEMMA AfterMagicAppend ==
    ASSUME NEW q \in Seq(Image), NEW image \in Image
    PROVE  AfterMagic(Append(q, image)) = Append(AfterMagic(q), Piece("image", image))
<1> DEFINE r == Append(q, image)
<1> DEFINE e == Piece("image", image)
<1> DEFINE a == AfterMagic(q)
<1> DEFINE b == AfterMagic(r)
<1>1. /\ r \in Seq(Image) /\ Len(r) = Len(q) + 1 /\ r[Len(q) + 1] = image
      /\ \A j \in 1..Len(q) : r[j] = q[j]
  OBVIOUS
<1>2. e \in Pieces
  BY PieceFields
<1>3. /\ a \in Seq(Pieces) /\ Len(a) = Len(q) + 1 /\ a[1] = Magic
      /\ \A j \in 1..Len(q) : a[j + 1] = Piece("image", q[j])
  BY AfterMagicFacts
<1> HIDE DEF r
<1>4. /\ b \in Seq(Pieces) /\ Len(b) = Len(r) + 1 /\ b[1] = Magic
      /\ \A j \in 1..Len(r) : b[j + 1] = Piece("image", r[j])
  BY <1>1, AfterMagicFacts
<1>5. b[Len(q) + 2] = e
  <2>1. Len(q) + 1 \in 1..Len(r) /\ (Len(q) + 1) + 1 = Len(q) + 2
    BY <1>1
  <2> QED BY <1>1, <1>4, <2>1
<1>6. ASSUME NEW j \in 1..Len(a) PROVE b[j] = a[j]
  <2>1. CASE j = 1
    BY <1>3, <1>4, <2>1
  <2>2. CASE j # 1
    <3>1. j - 1 \in 1..Len(q) /\ j - 1 \in 1..Len(r) /\ (j - 1) + 1 = j
      BY <1>1, <1>3, <2>2
    <3>2. b[j] = Piece("image", r[j - 1]) /\ a[j] = Piece("image", q[j - 1])
      BY <1>3, <1>4, <3>1
    <3> QED BY <1>1, <3>1, <3>2
  <2> QED BY <2>1, <2>2
<1> HIDE DEF a, b, e
<1>7. b = Append(a, e)
  <2>1. Append(a, e) \in Seq(Pieces) /\ Len(Append(a, e)) = Len(q) + 2
    BY <1>2, <1>3
  <2>2. ASSUME NEW j \in 1..Len(b) PROVE b[j] = Append(a, e)[j]
    BY <1>1, <1>2, <1>3, <1>4, <1>5, <1>6
  <2>3. Len(b) = Len(Append(a, e))
    BY <1>1, <1>4, <2>1
  <2> QED BY <1>4, <2>1, <2>2, <2>3, SeqEqual
<1> QED BY <1>7 DEF a, b, e, r

\* What the first n images add is a beginning of what all of them add.
LEMMA PartBegins ==
    ASSUME NEW q \in Seq(Image), NEW r \in Seq(Image), Begins(q, r)
    PROVE  /\ Len(AfterMagic(q)) \in 0..Len(AfterMagic(r))
           /\ AfterMagic(q) = SubSeq(AfterMagic(r), 1, Len(AfterMagic(q)))
<1> DEFINE a == AfterMagic(q)
<1> DEFINE b == AfterMagic(r)
<1>1. /\ a \in Seq(Pieces) /\ Len(a) = Len(q) + 1 /\ a[1] = Magic
      /\ \A j \in 1..Len(q) : a[j + 1] = Piece("image", q[j])
  BY AfterMagicFacts
<1>2. /\ b \in Seq(Pieces) /\ Len(b) = Len(r) + 1 /\ b[1] = Magic
      /\ \A j \in 1..Len(r) : b[j + 1] = Piece("image", r[j])
  BY AfterMagicFacts
<1>3. Len(q) <= Len(r) /\ \A j \in 1..Len(q) : r[j] = q[j]
  BY DEF Begins
<1> HIDE DEF a, b
<1>4. Len(a) \in 0..Len(b)
  BY <1>1, <1>2, <1>3
<1>5. ASSUME NEW j \in 1..Len(a) PROVE b[j] = a[j]
  <2>1. CASE j = 1
    BY <1>1, <1>2, <2>1
  <2>2. CASE j # 1
    <3>1. j - 1 \in 1..Len(q) /\ j - 1 \in 1..Len(r) /\ (j - 1) + 1 = j
      BY <1>1, <1>3, <2>2
    <3>2. b[j] = Piece("image", r[j - 1]) /\ a[j] = Piece("image", q[j - 1])
      BY <1>1, <1>2, <3>1
    <3> QED BY <1>3, <3>1, <3>2
  <2> QED BY <2>1, <2>2
<1>6. a = SubSeq(b, 1, Len(a))
  <2>1. SubSeq(b, 1, Len(a)) \in Seq(Pieces) /\ Len(SubSeq(b, 1, Len(a))) = Len(a)
    BY <1>1, <1>2, <1>4
  <2>2. ASSUME NEW j \in 1..Len(a) PROVE SubSeq(b, 1, Len(a))[j] = b[j]
    BY <1>1, <1>2, <1>4
  <2> QED BY <1>1, <1>5, <2>1, <2>2, SeqEqual
<1> QED BY <1>4, <1>6 DEF a, b

\* How the parts of a save build up to the whole.
LEMMA Parts ==
    ASSUME NEW images \in Seq(Image)
    PROVE  /\ Part(images, 0) = <<Magic>>
           /\ Part(images, Len(images)) = Whole(images)
           /\ \A n \in 1..Len(images) :
                Part(images, n) = IF images[n].count = 0 THEN Part(images, n - 1)
                                  ELSE Append(Part(images, n - 1), Piece("image", images[n]))
           /\ \A n \in 0..Len(images) :
                /\ Len(Part(images, n)) \in 0..Len(Whole(images))
                /\ Part(images, n) = SubSeq(Whole(images), 1, Len(Part(images, n)))
<1> DEFINE p == Picked(images, Filled(images))
<1>1. /\ p \in [0..Len(images) -> Seq(Image)] /\ p[0] = <<>>
      /\ \A i \in 1..Len(images) :
           p[i] = IF i \in Filled(images) THEN Append(p[i - 1], images[i]) ELSE p[i - 1]
  BY PickedDef
<1>2. \A n \in 0..Len(images) : Begins(p[n], p[Len(images)])
  <2>1. \A m, n \in 0..Len(images) : m <= n => Begins(p[m], p[n])
    BY PickedGrows
  <2> HIDE DEF p
  <2> QED BY <2>1
<1>3. Whole(images) = AfterMagic(p[Len(images)]) /\ \A n : Part(images, n) = AfterMagic(p[n])
  BY DEF Whole, NonEmpty, Pick, Filled, AfterMagic, Part
<1> HIDE DEF p
<1>4. Part(images, 0) = <<Magic>>
  <2>1. Len(<<Magic>>) = 1 /\ <<Magic>>[1] = Magic /\ <<Magic>> \in Seq(Pieces)
    BY Constants
  <2>2. p[0] \in Seq(Image) /\ Len(p[0]) = 0
    BY <1>1
  <2>3. AfterMagic(p[0]) = <<Magic>>
    <3> DEFINE q == p[0]
    <3> HIDE DEF q
    <3>1. q \in Seq(Image) /\ Len(q) = 0
      BY <2>2 DEF q
    <3>2. /\ AfterMagic(q) \in Seq(Pieces) /\ Len(AfterMagic(q)) = Len(q) + 1
          /\ AfterMagic(q)[1] = Magic
      BY <3>1, AfterMagicFacts
    <3>3. AfterMagic(q) = <<Magic>>
      BY <2>1, <3>1, <3>2, SeqEqual
    <3> QED BY <3>3 DEF q
  <2> QED BY <1>3, <2>3
<1>5. ASSUME NEW n \in 1..Len(images)
      PROVE  Part(images, n) = IF images[n].count = 0 THEN Part(images, n - 1)
                               ELSE Append(Part(images, n - 1), Piece("image", images[n]))
  <2>1. images[n] \in Image /\ images[n].count \in Nat /\ n - 1 \in 0..Len(images)
    BY ImageFields
  <2>2. n \in Filled(images) <=> images[n].count # 0
    BY <2>1 DEF Filled
  <2>3. p[n - 1] \in Seq(Image)
    BY <1>1, <2>1
  <2>4. CASE images[n].count = 0
    BY <1>1, <1>3, <2>2, <2>4
  <2>5. CASE images[n].count # 0
    <3>1. p[n] = Append(p[n - 1], images[n])
      BY <1>1, <2>2, <2>5
    <3>2. AfterMagic(p[n]) = Append(AfterMagic(p[n - 1]), Piece("image", images[n]))
      BY <2>1, <2>3, <3>1, AfterMagicAppend
    <3> QED BY <1>3, <2>5, <3>2
  <2> QED BY <2>4, <2>5
<1>6. ASSUME NEW n \in 0..Len(images)
      PROVE  /\ Len(Part(images, n)) \in 0..Len(Whole(images))
             /\ Part(images, n) = SubSeq(Whole(images), 1, Len(Part(images, n)))
  <2>1. p[n] \in Seq(Image) /\ p[Len(images)] \in Seq(Image)
    BY <1>1
  <2> QED BY <1>2, <1>3, <2>1, PartBegins
<1> QED BY <1>3, <1>4, <1>5, <1>6

\* A whole save reads back as what was in it: it is not corrupt, and what is
\* loaded are the images that are not empty.
LEMMA WholeLoads ==
    ASSUME NEW images \in Seq(Image), Sound(images)
    PROVE  /\ Whole(images) \in Seq(Pieces) /\ Whole(images) # <<>>
           /\ NonEmpty(images) \in Seq(Image)
           /\ Len(Whole(images)) = Len(NonEmpty(images)) + 1
           /\ Whole(images)[1] = Magic
           /\ ~Corrupt(Whole(images))
           /\ RDBLoad(Whole(images)) =
                [i \in DOMAIN NonEmpty(images) |-> NonEmpty(images)[i].entries]
<1> DEFINE q == NonEmpty(images)
<1> DEFINE w == Whole(images)
<1>1. q \in Seq(Image)
  BY PickedDef DEF NonEmpty, Pick
<1>2. w = AfterMagic(q)
  BY DEF Whole, AfterMagic
<1>3. Elements(q) \subseteq {images[i] : i \in 1..Len(images)}
  <2>1. Elements(q) = {images[i] : i \in Filled(images) \cap 1..Len(images)}
    BY PickedElements DEF NonEmpty, Pick, Filled
  <2> QED BY <2>1, Zenon
<1> HIDE DEF q, w
<1>4. /\ w \in Seq(Pieces) /\ Len(w) = Len(q) + 1 /\ w[1] = Magic
      /\ \A j \in 1..Len(q) : w[j + 1] = Piece("image", q[j])
  BY <1>1, <1>2, AfterMagicFacts
<1>5. w # <<>>
  BY <1>1, <1>4
<1>6. ASSUME NEW j \in 1..Len(q)
      PROVE  q[j] \in Image /\ q[j].count = Cardinality(Present(q[j].entries))
  <2>1. q[j] \in Elements(q)
    BY Zenon DEF Elements
  <2>2. PICK i \in 1..Len(images) : q[j] = images[i]
    BY <1>3, <2>1, Zenon
  <2> QED BY <1>1, <2>2 DEF Sound
<1>7. ASSUME NEW i \in 2..Len(w)
      PROVE  /\ w[i] \notin {Torn, Magic}
             /\ w[i].image.count = Cardinality(Present(w[i].image.entries))
  <2>1. i - 1 \in 1..Len(q) /\ (i - 1) + 1 = i
    BY <1>1, <1>4
  <2>2. w[i] = Piece("image", q[i - 1])
    BY <1>4, <2>1
  <2>3. /\ q[i - 1] \in Image /\ q[i - 1].count = Cardinality(Present(q[i - 1].entries))
    BY <1>6, <2>1
  <2> QED BY <2>2, <2>3, PieceFields
<1>8. ~Corrupt(w)
  BY <1>7 DEF Corrupt
<1>9. RDBLoad(w) = [i \in DOMAIN q |-> q[i].entries]
  <2>1. Len(w) - 1 = Len(q) /\ DOMAIN q = 1..Len(q)
    BY <1>1, <1>4
  <2>2. ASSUME NEW i \in 1..Len(q) PROVE w[i + 1].image.entries = q[i].entries
    BY <1>4, <1>6, PieceFields
  <2> QED BY <2>1, <2>2 DEF RDBLoad
<1> QED BY <1>1, <1>4, <1>5, <1>8, <1>9 DEF q, w

\* What is written to the file is what the save has generated, in its order.
LEMMA WrittenStep ==
    ASSUME TypeOK, Locals, Encoding, HeaderMatches, Written, [Next]_vars
    PROVE  Written'
<1>0. /\ saver \in Saver /\ saver.images \in Seq(Image) /\ attempt \in Seq(Image)
      /\ saver.at \in Nat
  BY SaverFields DEF TypeOK
<1>1. ASSUME UNCHANGED <<attempt, complete, file>>, saver'.pc \notin {"magic", "write"},
             saver'.pc = "truncate" => saver'.at = 1
      PROVE  Written'
  BY <1>1 DEF Written
<1>2. ASSUME Command \/ UNCHANGED vars PROVE Written'
  <2>1. UNCHANGED <<attempt, complete, file, saver>>
    BY <1>2 DEF Command, NewStr, SetStr, Del, CreateDB, vars, history
  <2> QED BY <2>1 DEF Written
<1>3. CASE SaveBegin
  <2>1. saver'.pc = "dbs" /\ UNCHANGED <<attempt, complete, file>>
    BY <1>3 DEF SaveBegin, Sleeping
  <2> QED BY <1>1, <2>1
<1>4. CASE SaveDb
  <2>1. saver'.pc \in {"dbs", "entries"} /\ UNCHANGED <<attempt, complete, file>>
    BY <1>0, <1>4 DEF SaveDb, Saver, history
  <2> QED BY <1>1, <2>1
<1>5. ASSUME NEW k \in Keys, EncodeEntry(k) PROVE Written'
  <2>1. CASE dbs[saver.at][k] = Fresh
    BY <2>1, <1>1, <1>5, DieFields DEF EncodeEntry
  <2>2. CASE dbs[saver.at][k] # Fresh
    <3> DEFINE v == dbs[saver.at][k]
    <3>1. v \in Value /\ saver.pc = "entries"
      BY <1>0, <1>5 DEF EncodeEntry, Encoding, Db, TypeOK
    <3>2. saver' = Encoded(saver, k, v) /\ UNCHANGED <<attempt, complete, file>>
      BY <1>5, <2>2 DEF EncodeEntry, Encoded
    <3> HIDE DEF v
    <3>3. saver'.pc = "entries"
      BY <3>1, <3>2, <1>0, EncodeStep
    <3> QED BY <1>1, <3>2, <3>3
  <2> QED BY <2>1, <2>2
<1>6. CASE SavedDb \/ Generated
  <2>1. UNCHANGED <<attempt, complete, file>>
    BY <1>6 DEF SavedDb, Generated, history
  <2>2. saver'.pc = "dbs" \/ (saver'.pc = "truncate" /\ saver'.at = 1)
    BY <1>0, <1>6 DEF SavedDb, Generated, Saver
  <2> QED BY <1>1, <2>1, <2>2
<1>7. CASE Truncate
  <2>1. /\ saver'.pc = "magic" /\ saver'.images = saver.images /\ attempt' = saver.images
        /\ ~complete' /\ file' = <<>> /\ saver'.at = 1
    BY <1>0, <1>7 DEF Truncate, Saver, Written
  <2>2. Sound(attempt')
    BY <1>0, <2>1 DEF HeaderMatches, Sound
  <2> QED BY <2>1, <2>2 DEF Written
<1>8. CASE WriteMagic
  <2>1. /\ saver'.pc = "write" /\ saver'.images = saver.images /\ saver'.at = saver.at
        /\ UNCHANGED <<attempt, complete>> /\ saver.pc = "magic" /\ saver.at = 1
    BY <1>0, <1>8 DEF WriteMagic, Saver, history, Written
  <2>2. file' = <<Magic>>
    BY <1>8 DEF WriteMagic, Written
  <2>3. attempt = saver.images /\ ~complete /\ Sound(attempt)
    BY <2>1 DEF Written
  <2>4. file' = Part(attempt, 0) /\ saver'.at - 1 = 0 /\ saver'.at \in 1..Len(attempt) + 1
    BY <2>1, <2>2, <1>0, Parts
  <2> QED BY <2>1, <2>3, <2>4 DEF Written
<1>9. CASE WriteDb
  <2>1. /\ saver.pc = "write" /\ saver.at <= Len(saver.images)
        /\ saver' = [saver EXCEPT !.at = @ + 1] /\ UNCHANGED <<attempt, complete>>
    BY <1>9 DEF WriteDb, history
  <2>2. saver'.pc = "write" /\ saver'.at = saver.at + 1 /\ saver'.images = saver.images
    BY <2>1, <1>0 DEF Saver
  <2>3. /\ attempt = saver.images /\ ~complete /\ Sound(attempt)
        /\ saver.at \in 1..Len(attempt) /\ file = Part(attempt, saver.at - 1)
    BY <2>1, <1>0 DEF Written
  <2>4. file' = IF attempt[saver.at].count = 0 THEN file
                ELSE Append(file, Piece("image", attempt[saver.at]))
    BY <1>9, <2>3 DEF WriteDb
  <2>5. file' = Part(attempt, saver.at)
    BY <2>3, <2>4, <1>0, Parts
  <2>6. (saver.at + 1) - 1 = saver.at /\ saver.at + 1 \in 1..Len(attempt) + 1
    BY <2>3, <1>0
  <2> QED BY <2>1, <2>2, <2>3, <2>5, <2>6 DEF Written
<1>10. CASE SaveDone
  <2>1. saver'.pc = "sleep" /\ complete' /\ UNCHANGED <<attempt, file>>
    BY <1>10 DEF SaveDone, Sleeping
  <2>2. /\ saver.at \in 1..Len(attempt) + 1 /\ saver.at > Len(attempt)
        /\ file = Part(attempt, saver.at - 1) /\ Sound(attempt)
    BY <1>10 DEF SaveDone, Written
  <2>3. saver.at - 1 = Len(attempt)
    BY <2>2, <1>0
  <2>4. file = Whole(attempt)
    BY <2>2, <2>3, <1>0, Parts
  <2> QED BY <2>1, <2>2, <2>4 DEF Written
<1>11. CASE Crash
  <2>1. saver'.pc = "sleep" /\ UNCHANGED <<attempt, complete>>
    BY <1>11, DieFields DEF Crash
  <2>2. ASSUME complete PROVE file' = file
    <3>1. saver.pc # "write"
      BY <2>2 DEF Written
    <3> QED BY <3>1, <1>11 DEF Crash
  <2> QED BY <2>1, <2>2 DEF Written
<1>12. CASE Start
  <2>1. ~complete' /\ saver' = Sleeping /\ attempt' = attempt
    BY <1>12 DEF Start, Locals
  <2>2. saver'.pc = "sleep"
    BY <2>1 DEF Sleeping
  <2> QED BY <2>1, <2>2 DEF Written
<1> QED
  BY <1>2, <1>3, <1>4, <1>5, <1>6, <1>7, <1>8, <1>9, <1>10, <1>11, <1>12 DEF Next, Save

\* Whatever is in the file is of one save.
LEMMA OneSaveStep ==
    ASSUME TypeOK, Locals, Written, OneSavePerFile, Written', TypeOK', [Next]_vars
    PROVE  OneSavePerFile'
<1>0. /\ attempt \in Seq(Image) /\ attempt' \in Seq(Image) /\ saver \in Saver
      /\ Whole(attempt) \in Seq(Pieces) /\ Whole(attempt') \in Seq(Pieces)
  BY WholeLoads DEF TypeOK, Written
<1>1. ASSUME UNCHANGED <<file, attempt>> PROVE OneSavePerFile'
  BY <1>1 DEF OneSavePerFile
<1>2. ASSUME NEW n \in 0..Len(attempt'),
             file' = Part(attempt', n) \/ file' = Append(Part(attempt', n), Torn)
      PROVE  OneSavePerFile'
  <2> DEFINE a == attempt'
  <2> DEFINE p == Part(a, n)
  <2>1. \A m \in 0..Len(a) : /\ Len(Part(a, m)) \in 0..Len(Whole(a))
                             /\ Part(a, m) = SubSeq(Whole(a), 1, Len(Part(a, m)))
    BY <1>0, Parts
  <2>2. Len(p) \in 0..Len(Whole(a)) /\ p = SubSeq(Whole(a), 1, Len(p))
    BY <2>1, Zenon
  <2> QED BY <1>2, <2>2, Zenon DEF OneSavePerFile
<1>3. ASSUME file' = <<>> PROVE OneSavePerFile'
  <2>1. 0 \in 0..Len(Whole(attempt')) /\ SubSeq(Whole(attempt'), 1, 0) = <<>>
    BY <1>0
  <2> QED BY <1>3, <2>1 DEF OneSavePerFile
<1>4. ASSUME Command \/ SaveBegin \/ SaveDb \/ SavedDb \/ Generated \/ SaveDone \/ UNCHANGED vars
      PROVE  OneSavePerFile'
  <2>1. UNCHANGED <<file, attempt>>
    BY <1>4 DEF Command, NewStr, SetStr, Del, CreateDB, SaveBegin, SaveDb, SavedDb, Generated,
                SaveDone, vars, history
  <2> QED BY <1>1, <2>1
<1>5. ASSUME NEW k \in Keys, EncodeEntry(k) PROVE OneSavePerFile'
  BY <1>1, <1>5 DEF EncodeEntry
<1>6. CASE Truncate \/ Start
  BY <1>3, <1>6 DEF Truncate, Start
<1>7. CASE WriteMagic \/ WriteDb
  <2>1. saver'.pc = "write"
    <3>1. CASE WriteMagic
      BY <1>0, <3>1 DEF WriteMagic, Saver
    <3>2. CASE WriteDb
      <4>1. saver' = [saver EXCEPT !.at = @ + 1] /\ saver.pc = "write"
        BY <3>2 DEF WriteDb
      <4> QED BY <4>1, <1>0 DEF Saver
    <3> QED BY <1>7, <3>1, <3>2
  <2>2. saver'.at \in 1..Len(attempt') + 1 /\ file' = Part(attempt', saver'.at - 1)
    BY <2>1 DEF Written
  <2>3. saver'.at - 1 \in 0..Len(attempt')
    BY <1>0, <2>2
  <2> QED BY <1>2, <2>2, <2>3
<1>8. CASE Crash
  <2>1. attempt' = attempt
    BY <1>8 DEF Crash
  <2>2. file' = file \/ (saver.pc = "write" /\ saver.at \in DOMAIN saver.images
                         /\ file' = Append(file, Torn))
    BY <1>8 DEF Crash
  <2>3. CASE file' = file
    BY <1>1, <2>1, <2>3
  <2>4. CASE saver.pc = "write" /\ saver.at \in DOMAIN saver.images /\ file' = Append(file, Torn)
    <3>1. saver.at \in 1..Len(attempt) + 1 /\ file = Part(attempt', saver.at - 1)
      BY <2>1, <2>4 DEF Written
    <3>2. saver.at - 1 \in 0..Len(attempt')
      BY <1>0, <2>1, <3>1
    <3>3. file' = Append(Part(attempt', saver.at - 1), Torn)
      BY <2>4, <3>1
    <3> QED BY <1>2, <3>2, <3>3, Zenon
  <2> QED BY <2>2, <2>3, <2>4
<1> QED BY <1>4, <1>5, <1>6, <1>7, <1>8 DEF Next, Save

\* A version is a number other than that of an entry that is not set.
LEMMA VersionFacts == \A v \in Versions : v # None /\ v # Fresh
BY RdbAssumption DEF Versions, Fresh

\* A store loses no version but the one it replaces.
LEMMA StoreKeeps ==
    ASSUME TypeOK, NEW d \in 1..Len(dbs), NEW k \in Keys, NEW v \in Value,
           dbs' = Stored(dbs, d, k, v), NEW u, u # dbs[d][k], Current(u)
    PROVE  Current(u)'
<1>0. dbs \in Seq(Db)
  BY DEF TypeOK
<1>1. /\ Len(dbs') = Len(dbs) /\ dbs' \in Seq(Db)
      /\ \A j \in Keys : j # k => dbs'[d][j] = dbs[d][j]
      /\ \A e \in 1..Len(dbs) : e # d => dbs'[e] = dbs[e]
  BY <1>0, Store
<1>2. PICK e \in 1..Len(dbs), j \in Keys : dbs[e][j] = u
  BY <1>0 DEF Current
<1>3. dbs'[e][j] = u /\ e \in DOMAIN dbs'
  BY <1>0, <1>1, <1>2
<1> QED BY <1>3, Zenon DEF Current

\* What was saved and not replaced since stays in memory, or in the file when
\* the process ends.
LEMMA DurableStep ==
    ASSUME TypeOK, Locals, Encoding, Written, Durable, TypeOK', [Next]_vars
    PROVE  Durable'
<1>0. /\ dbs \in Seq(Db) /\ DOMAIN dbs = 1..Len(dbs) /\ attempt \in Seq(Image)
      /\ kept \subseteq Versions /\ Fresh \in Value /\ None \in Value /\ nset + 1 \in Value
  BY DEF TypeOK, Fresh, Value
\* A command stores a value.
<1>1. ASSUME NEW d \in 1..Len(dbs), NEW k \in Keys, NEW v \in Value, up,
             dbs' = Stored(dbs, d, k, v), UNCHANGED <<up, complete, file>>,
             kept' \subseteq kept, dbs[d][k] \notin kept'
      PROVE  Durable'
  <2>1. ASSUME NEW u \in kept' PROVE Current(u)'
    <3>1. u # dbs[d][k] /\ u \in kept /\ Current(u)
      BY <1>1 DEF Durable, SavedSurvives
    <3> QED BY <1>1, <3>1, StoreKeeps
  <2>2. ASSUME complete, NEW u \in kept' PROVE InFile(u)'
    BY <1>1, <2>2 DEF Durable, InFile
  <2> QED BY <1>1, <2>1, <2>2 DEF Durable, SavedSurvives
<1>2. ASSUME NEW d \in 1..Len(dbs), NEW k \in Keys, NewStr(d, k) PROVE Durable'
  <2>1. dbs[d][k] \notin kept
    BY <1>0, <1>2, VersionFacts DEF NewStr
  <2>2. /\ up /\ dbs' = Stored(dbs, d, k, Fresh)
        /\ UNCHANGED <<up, complete, file, kept>>
    BY <1>2 DEF NewStr, Stored, history
  <2> QED BY <1>0, <1>1, <2>1, <2>2
<1>3. ASSUME NEW d \in 1..Len(dbs), NEW k \in Keys, SetStr(d, k) PROVE Durable'
  <2>1. /\ up /\ dbs' = Stored(dbs, d, k, nset + 1) /\ kept' = kept \ {dbs[d][k]}
        /\ UNCHANGED <<up, complete, file>>
    BY <1>3 DEF SetStr, Stored
  <2>2. kept' \subseteq kept /\ dbs[d][k] \notin kept'
    BY <2>1
  <2> QED BY <1>0, <1>1, <2>1, <2>2
<1>4. ASSUME NEW d \in 1..Len(dbs), NEW k \in Keys, Del(d, k) PROVE Durable'
  <2>1. /\ up /\ dbs' = Stored(dbs, d, k, None) /\ kept' = kept \ {dbs[d][k]}
        /\ UNCHANGED <<up, complete, file>>
    BY <1>4 DEF Del, Stored
  <2>2. kept' \subseteq kept /\ dbs[d][k] \notin kept'
    BY <2>1
  <2> QED BY <1>0, <1>1, <2>1, <2>2
<1>5. CASE CreateDB
  <2>1. dbs' = Append(dbs, EmptyDb) /\ up /\ UNCHANGED <<up, complete, file, kept>>
    BY <1>5 DEF CreateDB, history
  <2>2. ASSUME NEW u \in kept PROVE Current(u)'
    <3>1. PICK e \in 1..Len(dbs), j \in Keys : dbs[e][j] = u
      BY <1>0, <2>1, <2>2 DEF Current, Durable, SavedSurvives
    <3>2. e \in DOMAIN dbs' /\ dbs'[e][j] = u
      BY <1>0, <2>1, <3>1, Constants
    <3> QED BY <3>2, Zenon DEF Current
  <2> QED BY <2>1, <2>2 DEF Durable, SavedSurvives, InFile
<1>6. ASSUME UNCHANGED <<up, dbs, file, kept>>, complete' => complete, up PROVE Durable'
  BY <1>6 DEF Durable, SavedSurvives, Current, InFile
<1>7. CASE SaveBegin \/ SaveDb \/ SavedDb \/ Generated
  <2>1. UNCHANGED <<up, dbs, file, kept, complete>> /\ (saver.pc # "sleep" \/ up)
    BY <1>7 DEF SaveBegin, SaveDb, SavedDb, Generated, history
  <2> QED BY <1>6, <2>1, Awake
\* The process ends.
<1>8. ASSUME Die, complete => UNCHANGED file, UNCHANGED complete PROVE Durable'
  <2>1. ~up' /\ kept' = (IF complete THEN kept ELSE {})
    BY <1>8 DEF Die
  <2> QED BY <1>8, <2>1 DEF Durable, SavedSurvives, InFile
<1>9. ASSUME NEW k \in Keys, EncodeEntry(k) PROVE Durable'
  <2>1. CASE dbs[saver.at][k] = Fresh
    BY <2>1, <1>8, <1>9 DEF EncodeEntry
  <2>2. CASE dbs[saver.at][k] # Fresh
    <3>1. UNCHANGED <<up, dbs, file, kept, complete>> /\ saver.pc # "sleep"
      BY <2>2, <1>9 DEF EncodeEntry
    <3> QED BY <1>6, <3>1, Awake
  <2> QED BY <2>1, <2>2
<1>10. CASE Truncate \/ WriteMagic \/ WriteDb
  <2>1. UNCHANGED <<up, dbs, kept>> /\ ~complete' /\ saver.pc # "sleep"
    BY <1>10 DEF Truncate, WriteMagic, WriteDb, history, Written
  <2> QED BY <2>1, Awake DEF Durable, SavedSurvives, Current
<1>11. CASE SaveDone
  <2>1. /\ UNCHANGED <<up, dbs, file>> /\ kept' = {v \in Versions : InFile(v) /\ Current(v)}
        /\ saver.pc # "sleep"
    BY <1>11 DEF SaveDone
  <2>2. up
    BY <2>1, Awake
  <2> QED BY <2>1, <2>2 DEF Durable, SavedSurvives, Current, InFile
<1>12. CASE Crash
  <2>1. ASSUME complete PROVE file' = file
    <3>1. saver.pc # "write"
      BY <2>1 DEF Written
    <3> QED BY <3>1, <1>12 DEF Crash
  <2> QED BY <1>8, <1>12, <2>1 DEF Crash
<1>13. CASE Start
  <2>0. ~complete' /\ kept' = kept /\ ~up
    BY <1>13 DEF Start
  <2>1. CASE kept = {}
    BY <2>0, <2>1 DEF Durable, SavedSurvives
  <2>2. CASE kept # {}
    <3>1. complete /\ file = Whole(attempt) /\ Sound(attempt)
      BY <2>0, <2>2 DEF Durable, Written
    <3>2. file \in Seq(Pieces) /\ file # <<>> /\ ~Corrupt(file) /\ file[1] = Magic
      BY <1>0, <3>1, WholeLoads
    <3>3. /\ RDBLoad(file) \in Seq(Db) /\ Len(RDBLoad(file)) = Len(file) - 1
          /\ \A i \in 1..Len(file) - 1 : RDBLoad(file)[i] = file[i + 1].image.entries
      BY <3>2, LoadType
    <3>4. ASSUME NEW u \in kept
          PROVE  \E i \in 1..Len(RDBLoad(file)), j \in Keys : RDBLoad(file)[i][j] = u
      <4>1. PICK i \in 1..Len(file), j \in Keys : file[i].image.entries[j] = u
        BY <3>1, <3>2, <3>4 DEF Durable, InFile
      <4>2. u # None
        BY <1>0, <3>4, VersionFacts
      <4>3. i # 1
        <5>1. Magic.image.entries[j] = None
          BY DEF Magic, Piece, EmptyImage, EmptyDb
        <5> QED BY <3>2, <4>1, <4>2, <5>1
      <4>4. i - 1 \in 1..Len(file) - 1 /\ (i - 1) + 1 = i
        BY <3>2, <4>1, <4>3
      <4>5. RDBLoad(file)[i - 1][j] = u /\ i - 1 \in 1..Len(RDBLoad(file))
        BY <3>3, <4>1, <4>4
      <4> QED BY <4>5, Zenon
    <3>5. RDBLoad(file) # <<>>
      BY <2>2, <3>3, <3>4
    <3>6. dbs' = RDBLoad(file)
      BY <1>13, <3>2, <3>5 DEF Start
    <3>7. ASSUME NEW u \in kept PROVE Current(u)'
      <4>1. PICK i \in 1..Len(RDBLoad(file)), j \in Keys : RDBLoad(file)[i][j] = u
        BY <3>4
      <4>2. i \in DOMAIN dbs' /\ dbs'[i][j] = u
        BY <3>3, <3>6, <4>1
      <4> QED BY <4>2, Zenon DEF Current
    <3>8. up'
      BY <1>13, <3>2 DEF Start
    <3> QED BY <2>0, <3>7, <3>8 DEF Durable, SavedSurvives
  <2> QED BY <2>1, <2>2
<1>14. CASE UNCHANGED vars
  BY <1>14 DEF vars, Durable, SavedSurvives, Current, InFile
<1> QED
  BY <1>0, <1>2, <1>3, <1>4, <1>5, <1>7, <1>9, <1>10, <1>11, <1>12, <1>13, <1>14
  DEF Next, Command, Save

(***************************************************************************)
(* The theorems.                                                           *)
(***************************************************************************)
\* The invariant holds when the server starts for the first time.
LEMMA InitIInv == Init => IInv
<1> SUFFICES ASSUME Init PROVE IInv
  OBVIOUS
<1>0. /\ up /\ dbs = <<EmptyDb>> /\ exec = Idle /\ saver = Sleeping /\ file = <<>>
      /\ nset = 0 /\ crashes = 0 /\ base = [dbs |-> <<>>, nset |-> 0] /\ attempt = <<>>
      /\ ~complete /\ kept = {} /\ up \in BOOLEAN /\ complete \in BOOLEAN
  BY Zenon DEF Init
<1>1. Idle.pc = "idle" /\ Sleeping.pc = "sleep" /\ Sleeping.images = <<>>
  BY DEF Idle, Sleeping
<1>2. TypeOK
  <2>1. base \in Base
    BY <1>0 DEF Base
  <2>2. dbs \in Seq(Db)
    BY <1>0, Constants
  <2> QED BY <1>0, <2>1, <2>2, Constants DEF TypeOK
<1>3. Locals
  BY <1>0, <1>1 DEF Locals
<1>4. Encoding /\ HeaderMatches
  BY <1>0, <1>1 DEF Encoding, HeaderMatches
<1>5. Since
  BY <1>0, <1>1 DEF Since, SameDbs, ListLatched
<1>6. Written
  BY <1>0, <1>1 DEF Written, Sound
<1>7. OneSavePerFile
  <2>1. Whole(attempt) \in Seq(Pieces)
    BY <1>2, <1>6, WholeLoads DEF TypeOK, Written
  <2>2. 0 \in 0..Len(Whole(attempt)) /\ SubSeq(Whole(attempt), 1, 0) = <<>>
    BY <2>1
  <2> QED BY <1>0, <2>2 DEF OneSavePerFile
<1>8. Durable
  BY <1>0 DEF Durable, SavedSurvives
<1> QED BY <1>2, <1>3, <1>4, <1>5, <1>6, <1>7, <1>8 DEF IInv

\* The invariant is inductive.
LEMMA Invariance == Spec => []IInv
<1>1. IInv /\ [Next]_vars => IInv'
  <2> SUFFICES ASSUME IInv, [Next]_vars PROVE IInv'
    OBVIOUS
  <2>1. TypeOK' /\ Locals' /\ Encoding' /\ HeaderMatches' /\ Since' /\ Written'
    BY TypeStep, LocalsStep, EncodingStep, HeaderStep, SinceStep, WrittenStep DEF IInv
  <2> QED BY <2>1, OneSaveStep, DurableStep DEF IInv
<1> QED BY InitIInv, <1>1, PTL DEF Spec

\* Db::Save: the size it writes ahead of the entries is their number in every
\* finished image, for any number of keys, databases and commands.
THEOREM HeadersMatch == Spec => []HeaderMatches
<1>1. IInv => HeaderMatches
  BY DEF IInv
<1> QED BY <1>1, Invariance, PTL

\* MainLoop::DatabaseSave: every value in a finished image was there when the
\* save began or was written since.
THEOREM SavesValuesOfTheirOwn == Spec => []ValuesOfThisSave
<1>1. IInv => ValuesOfThisSave
  BY SinceValues DEF IInv
<1> QED BY <1>1, Invariance, PTL

\* RDBSave: whatever was killed and when, the file is a beginning of the pieces
\* of one save, with at most a torn piece after it.
THEOREM FileIsOfOneSave == Spec => []OneSavePerFile
<1>1. IInv => OneSavePerFile
  BY DEF IInv
<1> QED BY <1>1, Invariance, PTL

\* MainLoop: a running process holds every value that has been in a whole save
\* and that no command has replaced or deleted, however often it was killed,
\* as long as never between a truncation and the end of the next save.
THEOREM WhatIsSavedSurvives == Spec => []SavedSurvives
<1>1. IInv => SavedSurvives
  BY DEF IInv, Durable
<1> QED BY <1>1, Invariance, PTL

\* MainLoop::MainLoop: a start on a complete file brings back every database
\* that held something, with exactly the saved contents.
THEOREM RestartsRestore == Spec => RestartRestores
<1> DEFINE A == ~up /\ up' /\ complete /\ NonEmpty(attempt) # <<>> =>
         dbs' = [i \in DOMAIN NonEmpty(attempt) |-> NonEmpty(attempt)[i].entries]
<1>1. ASSUME IInv, [Next]_vars PROVE [A]_vars
  <2> SUFFICES ASSUME ~up, up', complete, NonEmpty(attempt) # <<>>
               PROVE  dbs' = [i \in DOMAIN NonEmpty(attempt) |-> NonEmpty(attempt)[i].entries]
    OBVIOUS
  <2>1. saver.pc = "sleep"
    BY <1>1 DEF IInv, Locals, Sleeping
  <2>2. Start
    <3>1. ~Command /\ ~Crash /\ ~UNCHANGED vars
      BY Zenon DEF Command, NewStr, SetStr, Del, CreateDB, Crash, vars
    <3>2. ~Save
      <4>1. ~SaveBegin
        BY Zenon DEF SaveBegin
      <4>2. \A k \in Keys : ~EncodeEntry(k)
        BY <2>1, Zenon DEF EncodeEntry
      <4>3. ~SaveDb /\ ~SavedDb /\ ~Generated
        BY <2>1 DEF SaveDb, SavedDb, Generated
      <4>4. ~Truncate /\ ~WriteMagic /\ ~WriteDb /\ ~SaveDone
        BY <2>1 DEF Truncate, WriteMagic, WriteDb, SaveDone
      <4> QED BY <4>1, <4>2, <4>3, <4>4 DEF Save
    <3> QED BY <1>1, <3>1, <3>2 DEF Next
  <2>3. attempt \in Seq(Image) /\ Sound(attempt) /\ file = Whole(attempt)
    BY <1>1 DEF IInv, TypeOK, Written
  <2>4. /\ file # <<>> /\ ~Corrupt(file) /\ NonEmpty(attempt) \in Seq(Image)
        /\ RDBLoad(file) = [i \in DOMAIN NonEmpty(attempt) |-> NonEmpty(attempt)[i].entries]
    BY <2>3, WholeLoads
  <2>5. RDBLoad(file) # <<>>
    <3>1. 1 \in DOMAIN NonEmpty(attempt)
      BY <2>4
    <3>2. 1 \in DOMAIN RDBLoad(file)
      BY <2>4, <3>1
    <3> QED BY <3>2
  <2> QED BY <2>2, <2>4, <2>5 DEF Start
<1> QED BY <1>1, Invariance, PTL DEF Spec, RestartRestores
=============================================================================

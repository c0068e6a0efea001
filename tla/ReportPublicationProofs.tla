---------------------- MODULE ReportPublicationProofs ----------------------
(***************************************************************************)
(* Proofs about ReportPublication, for any publishers and faults.          *)
(*                                                                         *)
(* Of an ordinary report, what recovery has not reached is still as the    *)
(* publication found it (Ordinary).  Of a create-only report, the lock     *)
(* singles out the publisher, the receipt of its attempt shuts out every   *)
(* later one, and what the index and the readers hold while the report is  *)
(* hidden can only be of that publisher's bundle (Campaign).               *)
(***************************************************************************)
EXTENDS ReportPublication, TLAPS

Holding(p) == pub[p].pc \in {"exists", "attempt", "write", "insert", "complete"}

Pub == [pc : {"idle", "save", "upsert", "recover", "exists", "attempt", "write", "insert",
              "complete", "done", "failed", "broken", "refused", "dead"},
        n : 0..4, prev : [KindSet -> Contents], bad : BOOLEAN]

(* Each kind of report m has steps of its own, and the count of a publisher *)
(* names an artifact where one is named.                                    *)
Place(m, r) ==
    /\ m = "overwrite" =>
          /\ r.pc \notin {"exists", "attempt", "write", "insert", "complete"}
          /\ r.prev \in [KindSet -> Publishers \cup {Nothing}]
    /\ m = "create" => r.pc \notin {"save", "upsert", "recover", "broken"}
    /\ r.pc \in {"idle", "exists", "attempt"} => r.n = 1
    /\ r.pc \in {"save", "write"} => r.n \in 1..3
    /\ r.pc = "recover" => r.n \in 0..3

Places == \A p \in Publishers : pub[p] \in Pub /\ Place(mode, pub[p])

Shape == TypeOK /\ Places

(* An ordinary publication is alone, and the artifacts it has not attempted *)
(* yet, or has recovered without an error, are those it found.              *)
Ordinary ==
    mode = "overwrite" =>
        /\ \A p, q \in Publishers : Active(p) /\ Active(q) => p = q
        /\ \A p \in Publishers, i \in 1..3 :
              \/ pub[p].pc = "save" /\ i >= pub[p].n
              \/ pub[p].pc = "recover" /\ ~pub[p].bad /\ i > pub[p].n
              => file[Kinds[i]] = pub[p].prev[Kinds[i]]

(* A holder of the lock is alone; before its attempt is marked there is no  *)
(* trace of the report, and afterwards all there is is its own.             *)
Held(p) ==
    /\ Holding(p) <=> lock = p
    /\ pub[p].pc \in {"exists", "attempt"} => ~attempt
    /\ pub[p].pc \in {"write", "insert", "complete"} => attempt /\ ~complete
    /\ pub[p].pc = "write" =>
          \A i \in 1..3 : file[Kinds[i]] = IF i < pub[p].n THEN p ELSE Nothing
    /\ pub[p].pc \in {"write", "insert"} => row = NoRow
    /\ pub[p].pc \in {"insert", "complete"} => Whole(p)

(* What the storage and the index hold of a create-only report. *)
Stored ==
    /\ ~attempt => file = Empty /\ row = NoRow /\ ~complete
    /\ row = NoRow \/ \E p \in Publishers : Whole(p) /\ row.of \in {Empty, file}
    /\ complete => attempt /\ \E p \in Publishers : Whole(p)

(* A synchronisation that began while the report was hidden knows nothing   *)
(* of it, or of its row alone; one that writes has read the whole bundle.   *)
Synced ==
    /\ ~attempt => sync.seen = NoRow
    /\ ~complete => ~sync.listed /\ sync.pc \notin {"build", "upsert", "delete"}
    /\ sync.built.of \in {Empty, file}
    /\ ~complete => sync.built.of = Empty

(* A reader that has loaded an artifact finds the report hidden for good at *)
(* its second look, or whole.                                               *)
Loaded ==
    /\ reader.pc = "again" => attempt /\ (complete \/ lock = Nothing)
    /\ reader.pc = "again" /\ complete => reader.got \in Publishers /\ Whole(reader.got)
    /\ reader.pc = "look" /\ reader.got # Nothing =>
          complete /\ reader.got \in Publishers /\ Whole(reader.got)

Campaign == mode = "create" => (\A p \in Publishers : Held(p)) /\ Stored /\ Synced /\ Loaded

-----------------------------------------------------------------------------
(* Types. *)

(* The artifacts, and their order. *)
LEMMA KindFacts ==
  /\ KindSet = {"html", "md", "data"}
  /\ Kinds[1] = "html" /\ Kinds[2] = "md" /\ Kinds[3] = "data"
  /\ \A i \in 1..3 : Kinds[i] \in KindSet
<1>1. Kinds[1] = "html" /\ Kinds[2] = "md" /\ Kinds[3] = "data"
  BY DEF Kinds
<1>2. 1..3 = {1, 2, 3}
  OBVIOUS
<1> QED BY <1>1, <1>2 DEF KindSet

(* The latest of three times is a time. *)
LEMMA MtimeIsTime == ASSUME TypeOK PROVE Mtime \in Nat
<1> DEFINE S == {stamp[k] : k \in KindSet}
<1>1. S = {stamp["html"], stamp["md"], stamp["data"]}
  BY KindFacts
<1>2. \A k \in KindSet : stamp[k] \in Nat
  BY DEF TypeOK
<1>3. stamp["html"] \in Nat /\ stamp["md"] \in Nat /\ stamp["data"] \in Nat
  BY <1>2, KindFacts
<1>4. \E x \in S : \A y \in S : x >= y
  <2>1. CASE stamp["html"] >= stamp["md"] /\ stamp["html"] >= stamp["data"]
    BY <1>1, <1>3, <2>1
  <2>2. CASE stamp["md"] >= stamp["html"] /\ stamp["md"] >= stamp["data"]
    BY <1>1, <1>3, <2>2
  <2>3. CASE stamp["data"] >= stamp["html"] /\ stamp["data"] >= stamp["md"]
    BY <1>1, <1>3, <2>3
  <2> QED BY <1>3, <2>1, <2>2, <2>3
<1>5. Mtime \in S
  BY <1>4 DEF Mtime, Max
<1> QED BY <1>2, <1>5

(* The row of a publisher, no row, and a row of the artifacts are rows. *)
LEMMA RowsAreRows ==
  ASSUME TypeOK
  PROVE  /\ Empty \in [KindSet -> Contents] /\ NoRow \in Rows
         /\ file \in [KindSet -> Contents]
         /\ \A p \in Publishers : RowOf(p) \in Rows
         /\ \A p \in Publishers : RowOf(p).of \in [KindSet -> Publishers] /\ RowOf(p) # NoRow
<1>1. Empty \in [KindSet -> Contents] /\ NoRow \in Rows
  BY DEF Empty, NoRow, Rows, Contents
<1>2. file \in [KindSet -> Contents]
  BY DEF TypeOK, Contents
<1>3. ASSUME NEW p \in Publishers
      PROVE  RowOf(p) \in Rows /\ RowOf(p).of \in [KindSet -> Publishers] /\ RowOf(p) # NoRow
  <2>1. RowOf(p) \in Rows /\ RowOf(p).of \in [KindSet -> Publishers]
    BY MtimeIsTime DEF RowOf, Rows, Contents
  <2>2. RowOf(p).of["html"] = p /\ NoRow.of["html"] = Nothing
    BY KindFacts DEF RowOf, NoRow, Empty
  <2> QED BY <2>1, <2>2, PublicationAssumption
<1> QED BY <1>1, <1>2, <1>3

(* A write of a content that the kind of report allows keeps the types of   *)
(* the storage.                                                             *)
LEMMA PutTypes ==
  ASSUME TypeOK, NEW k \in KindSet, NEW c, Put(k, c) \/ UNCHANGED store,
         c \in IF mode = "create" THEN Contents ELSE Publishers \cup {Nothing}
  PROVE  /\ file' \in [KindSet -> IF mode = "create" THEN Contents ELSE Publishers \cup {Nothing}]
         /\ stamp' \in [KindSet -> 0..clock'] /\ clock' \in Nat
<1>1. CASE UNCHANGED store
  BY <1>1 DEF TypeOK, store
<1>2. CASE Put(k, c)
  <2>1. clock' \in Nat /\ clock' = clock + 1
    BY <1>2 DEF Put, TypeOK
  <2>2. \A j \in KindSet : stamp[j] \in 0..clock'
    BY <2>1 DEF TypeOK
  <2> QED BY <1>2, <2>1, <2>2 DEF Put, TypeOK
<1> QED BY <1>1, <1>2

(* The first state is well typed. *)
LEMMA InitShape == Init => Shape
<1> SUFFICES ASSUME Init PROVE Shape
  OBVIOUS
<1>1. Empty \in [KindSet -> Publishers \cup {Nothing}] /\ NoRow \in Rows
  BY DEF Empty, NoRow, Rows, Contents
<1>2. TypeOK
  <2>1. Empty \in [KindSet -> Contents] /\ Nothing \in Contents
    BY <1>1 DEF Contents
  <2>2. Idle \in [pc : {"idle"}, n : 0..4, prev : [KindSet -> Contents], bad : BOOLEAN]
    BY <2>1 DEF Idle
  <2>3. SyncIdle \in [pc : {"list"}, listed : BOOLEAN, seen : Rows, built : Rows]
    BY <1>1 DEF SyncIdle
  <2>4. 0 \in 0..MaxFaults /\ ReadIdle \in [pc : {"look"}, got : Contents]
    BY <2>1, PublicationAssumption DEF ReadIdle
  <2>5. file \in [KindSet -> IF mode = "create" THEN Contents ELSE Publishers \cup {Nothing}]
    BY <1>1, <2>1 DEF Init
  <2>6. stamp \in [KindSet -> 0..clock] /\ clock \in Nat
    BY DEF Init
  <2>7. pub \in [Publishers -> [pc : {"idle"}, n : 0..4, prev : [KindSet -> Contents], bad : BOOLEAN]]
    BY <2>2, Zenon DEF Init
  <2> QED BY <1>1, <2>3, <2>4, <2>5, <2>6, <2>7 DEF Init, TypeOK
<1>3. Places
  <2>1. Idle \in Pub /\ Place(mode, Idle)
    BY <1>1 DEF Idle, Place, Pub, Contents
  <2> QED BY <2>1, Zenon DEF Init, Places
<1> QED BY <1>2, <1>3 DEF Shape

(* A step of a publisher to a place of this kind of report keeps the types. *)
LEMMA MoveShape ==
  ASSUME Shape, NEW p \in Publishers, mode' = mode,
         NEW r \in Pub, Place(mode, r), pub' = [pub EXCEPT ![p] = r]
  PROVE  pub' \in [Publishers -> Pub] /\ Places'
<1>1. pub \in [Publishers -> Pub]
  BY DEF Shape, TypeOK, Pub
<1> QED BY <1>1 DEF Shape, Places

(* So does the end of a publisher. *)
LEMMA EndShape ==
  ASSUME Shape, NEW p \in Publishers, mode' = mode,
         NEW l \in {"done", "failed", "broken", "refused", "dead"}, End(p, l),
         l = "broken" => mode = "overwrite"
  PROVE  pub' \in [Publishers -> Pub] /\ Places'
<1> DEFINE r == [pc |-> l, n |-> 1, prev |-> Empty, bad |-> FALSE]
<1>1. r \in Pub /\ Place(mode, r)
  <2>1. Empty \in [KindSet -> Contents] /\ Empty \in [KindSet -> Publishers \cup {Nothing}]
    BY DEF Empty, Contents
  <2> QED BY <2>1 DEF Pub, Place
<1>2. pub' = [pub EXCEPT ![p] = r]
  BY DEF End
<1> HIDE DEF r
<1> QED BY <1>1, <1>2, MoveShape, Zenon

(* And a step to another label, with what was kept. *)
LEMMA KeptShape ==
  ASSUME Shape, NEW p \in Publishers, mode' = mode, NEW l, NEW i, NEW b,
         [pc |-> l, n |-> i, prev |-> pub[p].prev, bad |-> b] \in Pub,
         Place(mode, [pc |-> l, n |-> i, prev |-> pub[p].prev, bad |-> b]),
         Move(p, l, i, b)
  PROVE  pub' \in [Publishers -> Pub] /\ Places'
  BY MoveShape, Zenon DEF Move

(* Which steps those are. *)
LEMMA StepPlaces ==
  ASSUME Shape, NEW p \in Publishers, NEW l, NEW i \in 0..4, NEW b \in BOOLEAN,
         \/ /\ mode = "overwrite"
            /\ \/ l = "save" /\ i \in 1..3
               \/ l = "upsert"
               \/ l = "recover" /\ i \in 0..3
         \/ /\ mode = "create"
            /\ \/ l \in {"exists", "attempt"} /\ i = 1
               \/ l = "write" /\ i \in 1..3
               \/ l \in {"insert", "complete"}
  PROVE  /\ [pc |-> l, n |-> i, prev |-> pub[p].prev, bad |-> b] \in Pub
         /\ Place(mode, [pc |-> l, n |-> i, prev |-> pub[p].prev, bad |-> b])
<1>1. pub[p].prev \in [KindSet -> Contents]
  BY DEF Shape, TypeOK
<1>2. mode = "overwrite" => pub[p].prev \in [KindSet -> Publishers \cup {Nothing}]
  BY DEF Shape, Places, Place
<1> QED BY <1>1, <1>2 DEF Pub, Place

(* An error is counted up to the bound. *)
LEMMA FaultTypes == ASSUME TypeOK, Fault \/ NoFault PROVE faults' \in 0..MaxFaults
  BY PublicationAssumption DEF TypeOK, Fault, NoFault

(* The steps of an ordinary publication keep the types. *)
LEMMA OverwriteShape == ASSUME Shape, NEW p \in Publishers, Overwrite(p) PROVE Shape'
<1>1. mode = "overwrite" /\ mode' = mode
  <2>1. pub[p].pc \in {"save", "upsert", "recover"} => mode # "create"
    BY DEF Shape, Places, Place
  <2>2. mode \in {"overwrite", "create"}
    BY DEF Shape, TypeOK
  <2> QED BY <2>1, <2>2 DEF Overwrite, Begin, Save, Upsert, Recover, Raise
<1>2. pub[p] \in Pub
  BY DEF Shape, Places
<1>3. CASE Begin(p)
  <2> DEFINE r == [pc |-> "save", n |-> 1, prev |-> file, bad |-> FALSE]
  <2>1. pub' = [pub EXCEPT ![p] = r]
    BY <1>3 DEF Begin
  <2>2. r \in Pub /\ Place(mode, r)
    BY <1>1 DEF Shape, TypeOK, Pub, Place, Contents
  <2>3. pub' \in [Publishers -> Pub] /\ Places'
    BY <1>1, <2>1, <2>2, MoveShape, Zenon
  <2> QED BY <1>3, <2>3 DEF Begin, Shape, TypeOK, Pub, store
<1>4. CASE Save(p)
  <2> DEFINE k == Kinds[pub[p].n]
  <2>1. pub[p].n \in 1..3 /\ k \in KindSet
    BY <1>4, KindFacts DEF Save, Shape, Places, Place
  <2>2. Put(k, p) \/ UNCHANGED store
    BY <1>4, Zenon DEF Save, PutOrNot
  <2>3. /\ file' \in [KindSet -> IF mode = "create" THEN Contents ELSE Publishers \cup {Nothing}]
        /\ stamp' \in [KindSet -> 0..clock'] /\ clock' \in Nat
    BY <1>1, <2>1, <2>2, PutTypes DEF Shape
  <2>4. \/ NoFault /\ Move(p, IF pub[p].n = 3 THEN "upsert" ELSE "save", pub[p].n + 1, FALSE)
        \/ Fault /\ Move(p, "recover", pub[p].n, FALSE)
    BY <1>4, Zenon DEF Save, Attempted
  <2>5. pub' \in [Publishers -> Pub] /\ Places'
    <3>1. CASE Move(p, "recover", pub[p].n, FALSE)
      <4>1. pub[p].n \in 0..4 /\ pub[p].n \in 0..3 /\ FALSE \in BOOLEAN
        BY <2>1
      <4> QED BY <1>1, <3>1, <4>1, KeptShape, StepPlaces, Zenon
    <3>2. CASE Move(p, IF pub[p].n = 3 THEN "upsert" ELSE "save", pub[p].n + 1, FALSE)
      <4> DEFINE l == IF pub[p].n = 3 THEN "upsert" ELSE "save"
      <4>1. /\ pub[p].n + 1 \in 0..4 /\ FALSE \in BOOLEAN
            /\ l = "upsert" \/ (l = "save" /\ pub[p].n + 1 \in 1..3)
        BY <2>1
      <4> HIDE DEF l
      <4> QED BY <1>1, <3>2, <4>1, KeptShape, StepPlaces, Zenon DEF l
    <3> QED BY <2>4, <3>1, <3>2
  <2>6. faults' \in 0..MaxFaults
    BY <2>4, FaultTypes DEF Shape
  <2>7. UNCHANGED <<row, attempt, complete, lock, sync, reader>>
    BY <1>4 DEF Save
  <2> QED BY <1>1, <2>3, <2>5, <2>6, <2>7 DEF Shape, TypeOK, Pub
<1>5. CASE Upsert(p)
  <2>1. row' \in Rows
    <3>1. row' \in {row, RowOf(p)}
      BY <1>5 DEF Upsert
    <3> QED BY <3>1, RowsAreRows DEF Shape, TypeOK
  <2>2. UNCHANGED <<store, attempt, complete, lock, sync, reader>>
    BY <1>5 DEF Upsert
  <2>3. (NoFault /\ End(p, "done")) \/ (Fault /\ Move(p, "recover", 3, FALSE))
    BY <1>5, Zenon DEF Upsert
  <2>4. pub' \in [Publishers -> Pub] /\ Places'
    <3>1. CASE End(p, "done")
      BY <1>1, <3>1, EndShape
    <3>2. CASE Move(p, "recover", 3, FALSE)
      <4>1. 3 \in 0..4 /\ 3 \in 0..3 /\ FALSE \in BOOLEAN
        OBVIOUS
      <4> QED BY <1>1, <3>2, <4>1, KeptShape, StepPlaces, Zenon
    <3> QED BY <2>3, <3>1, <3>2
  <2>5. faults' \in 0..MaxFaults
    BY <2>3, FaultTypes DEF Shape
  <2> QED BY <1>1, <2>1, <2>2, <2>4, <2>5 DEF Shape, TypeOK, Pub, store
<1>6. CASE Recover(p)
  <2> DEFINE k == Kinds[pub[p].n]
  <2>1. pub[p].n \in 1..3 /\ k \in KindSet
    BY <1>2, <1>6, KindFacts DEF Recover, Shape, Places, Place
  <2>2. Put(k, pub[p].prev[k]) \/ UNCHANGED store
    BY <1>6, Zenon DEF Recover, PutOrNot
  <2>3. pub[p].prev[k] \in Publishers \cup {Nothing}
    BY <1>1, <2>1 DEF Shape, Places, Place
  <2>4. /\ file' \in [KindSet -> IF mode = "create" THEN Contents ELSE Publishers \cup {Nothing}]
        /\ stamp' \in [KindSet -> 0..clock'] /\ clock' \in Nat
    BY <1>1, <2>1, <2>2, <2>3, PutTypes DEF Shape
  <2>5. \/ NoFault /\ Move(p, "recover", pub[p].n - 1, pub[p].bad)
        \/ Fault /\ Move(p, "recover", pub[p].n - 1, TRUE)
    BY <1>6, Zenon DEF Recover
  <2>6. pub' \in [Publishers -> Pub] /\ Places'
    <3>1. /\ pub[p].n - 1 \in 0..3 /\ pub[p].n - 1 \in 0..4
          /\ pub[p].bad \in BOOLEAN /\ TRUE \in BOOLEAN
      BY <1>2, <2>1 DEF Pub
    <3> QED BY <1>1, <2>5, <3>1, KeptShape, StepPlaces, Zenon
  <2>7. faults' \in 0..MaxFaults
    BY <2>5, FaultTypes DEF Shape
  <2>8. UNCHANGED <<row, attempt, complete, lock, sync, reader>>
    BY <1>6 DEF Recover
  <2> QED BY <1>1, <2>4, <2>6, <2>7, <2>8 DEF Shape, TypeOK, Pub
<1>7. CASE Raise(p)
  <2>1. UNCHANGED <<store, row, attempt, complete, lock, faults, sync, reader>>
    BY <1>7 DEF Raise
  <2>2. End(p, "broken") \/ End(p, "failed")
    BY <1>7, Zenon DEF Raise
  <2>3. pub' \in [Publishers -> Pub] /\ Places'
    BY <1>1, <2>2, EndShape
  <2> QED BY <1>1, <2>1, <2>3 DEF Shape, TypeOK, Pub, store
<1> QED BY <1>3, <1>4, <1>5, <1>6, <1>7 DEF Overwrite

(* Whatever the publisher, the rest of the types needs the storage, the row, *)
(* the receipts, the lock and the faults alone.                              *)
LEMMA PublisherShape ==
  ASSUME Shape, mode' = mode, pub' \in [Publishers -> Pub] /\ Places',
         file' \in [KindSet -> IF mode = "create" THEN Contents ELSE Publishers \cup {Nothing}],
         stamp' \in [KindSet -> 0..clock'], clock' \in Nat, row' \in Rows,
         attempt' \in BOOLEAN, complete' \in BOOLEAN, lock' \in Publishers \cup {Nothing},
         faults' \in 0..MaxFaults, UNCHANGED <<sync, reader>>
  PROVE  Shape'
  BY DEF Shape, TypeOK, Pub

(* The storage as it was is typed. *)
LEMMA SameStore ==
  ASSUME Shape, UNCHANGED store
  PROVE  /\ file' \in [KindSet -> IF mode = "create" THEN Contents ELSE Publishers \cup {Nothing}]
         /\ stamp' \in [KindSet -> 0..clock'] /\ clock' \in Nat
  BY DEF Shape, TypeOK, store

(* A create-only publisher goes to a place of such a report, or ends. *)
LEMMA CreateMoves ==
  ASSUME Shape, NEW p \in Publishers, CreateOnly(p)
  PROVE  /\ mode = "create" /\ mode' = mode
         /\ pub' \in [Publishers -> Pub] /\ Places'
<1>1. mode = "create" /\ mode' = mode
  <2>1. pub[p].pc \in {"exists", "attempt", "write", "insert", "complete"} => mode # "overwrite"
    BY DEF Shape, Places, Place
  <2>2. mode \in {"overwrite", "create"}
    BY DEF Shape, TypeOK
  <2> QED BY <2>1, <2>2
          DEF CreateOnly, Enter, Exists, MarkAttempt, CreateFile, Insert, Complete
<1>2. pub[p] \in Pub /\ Place(mode, pub[p])
  BY DEF Shape, Places
<1>3. pub[p].n \in 0..4 /\ pub[p].bad \in BOOLEAN
  BY <1>2 DEF Pub
<1>4. \A l \in {"done", "failed", "refused"} : End(p, l) => pub' \in [Publishers -> Pub] /\ Places'
  BY <1>1, EndShape
<1>5. CASE Enter(p)
  <2>1. Goto(p, "exists") \/ End(p, "refused")
    BY <1>5, Zenon DEF Enter
  <2>2. pub[p].n = 1
    BY <1>2, <1>5 DEF Enter, Place
  <2> QED BY <1>1, <1>3, <1>4, <2>1, <2>2, KeptShape, StepPlaces, Zenon DEF Goto
<1>6. CASE Exists(p)
  <2>1. Goto(p, "attempt") \/ End(p, "refused")
    BY <1>6, Zenon DEF Exists
  <2>2. pub[p].n = 1
    BY <1>2, <1>6 DEF Exists, Place
  <2> QED BY <1>1, <1>3, <1>4, <2>1, <2>2, KeptShape, StepPlaces, Zenon DEF Goto
<1>7. CASE MarkAttempt(p)
  <2>1. Goto(p, "write") \/ End(p, "failed")
    BY <1>7, Zenon DEF MarkAttempt, Fail
  <2>2. pub[p].n \in 1..3
    BY <1>2, <1>7 DEF MarkAttempt, Place
  <2> QED BY <1>1, <1>3, <1>4, <2>1, <2>2, KeptShape, StepPlaces, Zenon DEF Goto
<1>8. CASE CreateFile(p)
  <2> DEFINE l == IF pub[p].n = 3 THEN "insert" ELSE "write"
  <2>1. Move(p, l, pub[p].n + 1, FALSE) \/ End(p, "failed")
    BY <1>8, Zenon DEF CreateFile, Fail
  <2>2. pub[p].n \in 1..3
    BY <1>2, <1>8 DEF CreateFile, Place
  <2>3. /\ pub[p].n + 1 \in 0..4 /\ FALSE \in BOOLEAN
        /\ l \in {"insert", "complete"} \/ (l = "write" /\ pub[p].n + 1 \in 1..3)
    BY <2>2
  <2> HIDE DEF l
  <2> QED BY <1>1, <1>4, <2>1, <2>3, KeptShape, StepPlaces, Zenon
<1>9. CASE Insert(p) \/ Complete(p)
  <2>1. Goto(p, "complete") \/ End(p, "done") \/ End(p, "failed")
    BY <1>9, Zenon DEF Insert, Complete, Fail
  <2> QED BY <1>1, <1>3, <1>4, <2>1, KeptShape, StepPlaces, Zenon DEF Goto
<1> QED BY <1>1, <1>5, <1>6, <1>7, <1>8, <1>9 DEF CreateOnly

(* The steps of a create-only publication keep the types. *)
LEMMA CreateShape == ASSUME Shape, NEW p \in Publishers, CreateOnly(p) PROVE Shape'
<1>1. /\ mode = "create" /\ mode' = mode
      /\ pub' \in [Publishers -> Pub] /\ Places'
  BY CreateMoves
<1>2. UNCHANGED <<sync, reader>>
  BY DEF CreateOnly, Enter, Exists, MarkAttempt, CreateFile, Insert, Complete
<1>3. faults' \in 0..MaxFaults
  <2>1. Fault \/ NoFault
    BY Zenon DEF CreateOnly, Enter, Exists, MarkAttempt, CreateFile, Insert, Complete, Fail, NoFault
  <2> QED BY <2>1, FaultTypes DEF Shape
<1>4. lock' \in Publishers \cup {Nothing}
  <2>1. lock' \in {lock, p, Nothing}
    BY DEF CreateOnly, Enter, Exists, MarkAttempt, CreateFile, Insert, Complete, Fail
  <2> QED BY <2>1 DEF Shape, TypeOK
<1>5. attempt' \in BOOLEAN /\ complete' \in BOOLEAN
  BY DEF CreateOnly, Enter, Exists, MarkAttempt, CreateFile, Insert, Complete, Fail, Shape, TypeOK
<1>6. row' \in Rows
  <2>1. row' \in {row, RowOf(p)}
    BY DEF CreateOnly, Enter, Exists, MarkAttempt, CreateFile, Insert, Complete
  <2> QED BY <2>1, RowsAreRows DEF Shape, TypeOK
<1>7. /\ file' \in [KindSet -> IF mode = "create" THEN Contents ELSE Publishers \cup {Nothing}]
      /\ stamp' \in [KindSet -> 0..clock'] /\ clock' \in Nat
  <2>1. CASE UNCHANGED store
    BY <2>1, SameStore
  <2>2. CASE CreateFile(p)
    <3> DEFINE k == Kinds[pub[p].n]
    <3>1. k \in KindSet /\ p \in Contents /\ Partial \in Contents
      BY <2>2, KindFacts DEF CreateFile, Shape, Places, Place, Contents
    <3>2. Put(k, p) \/ Put(k, Partial) \/ UNCHANGED store
      BY <2>2, Zenon DEF CreateFile, PutOrNot
    <3> HIDE DEF k
    <3> QED BY <1>1, <3>1, <3>2, PutTypes DEF Shape
  <2> QED BY <2>1, <2>2 DEF CreateOnly, Enter, Exists, MarkAttempt, Insert, Complete
<1> QED BY <1>1, <1>2, <1>3, <1>4, <1>5, <1>6, <1>7, PublisherShape

(* The death of a publisher keeps the types. *)
LEMMA CrashShape == ASSUME Shape, NEW p \in Publishers, Crash(p) PROVE Shape'
<1>1. mode' = mode /\ UNCHANGED <<row, attempt, complete, sync, reader>>
  BY DEF Crash
<1>2. pub' \in [Publishers -> Pub] /\ Places'
  <2>1. End(p, "dead")
    BY DEF Crash
  <2> QED BY <1>1, <2>1, EndShape
<1>3. faults' \in 0..MaxFaults
  BY FaultTypes DEF Crash, Shape
<1>4. lock' \in Publishers \cup {Nothing}
  BY DEF Crash, Shape, TypeOK
<1>5. /\ file' \in [KindSet -> IF mode = "create" THEN Contents ELSE Publishers \cup {Nothing}]
      /\ stamp' \in [KindSet -> 0..clock'] /\ clock' \in Nat
  <2> DEFINE k == Kinds[pub[p].n]
  <2>1. CASE UNCHANGED store
    BY <2>1, SameStore
  <2>2. CASE pub[p].pc = "write" /\ Put(k, Partial)
    <3>1. k \in KindSet /\ Partial \in Contents /\ mode = "create"
      BY <2>2, KindFacts DEF Shape, TypeOK, Places, Place, Contents
    <3> HIDE DEF k
    <3> QED BY <2>2, <3>1, PutTypes DEF Shape
  <2> QED BY <2>1, <2>2, Zenon DEF Crash
<1> QED BY <1>1, <1>2, <1>3, <1>4, <1>5, PublisherShape DEF Shape, TypeOK

(* Synchronisations and readers keep the types. *)
LEMMA SyncReadShape == ASSUME Shape, Synchronise \/ Read PROVE Shape'
<1> DEFINE Sync == [pc : {"list", "rows", "stamp", "build", "upsert", "stale", "delete"},
                    listed : BOOLEAN, seen : Rows, built : Rows]
           Reader == [pc : {"look", "load", "again"}, got : Contents]
<1>1. UNCHANGED <<mode, store, attempt, complete, lock, pub, faults>>
  BY DEF Synchronise, SyncList, SyncRows, SyncStamp, SyncBuild, SyncUpsert, SyncStale, SyncDelete,
     Read, ReadLook, ReadLoad, ReadAgain
<1>2. NoRow \in Rows /\ row \in Rows /\ sync \in Sync /\ reader \in Reader
  BY RowsAreRows DEF Shape, TypeOK
<1>3. row' \in Rows
  <2>1. row' \in {row, sync.built, NoRow}
    BY DEF Synchronise, SyncList, SyncRows, SyncStamp, SyncBuild, SyncUpsert, SyncStale, SyncDelete,
       Read, ReadLook, ReadLoad, ReadAgain
  <2>2. sync.built \in Rows
    BY <1>2
  <2> QED BY <1>2, <2>1, <2>2
<1>4. reader' \in Reader
  <2>1. file["html"] \in Contents /\ Nothing \in Contents
    BY RowsAreRows, KindFacts DEF Shape, Contents
  <2> QED BY <1>2, <2>1 DEF Synchronise, SyncList, SyncRows, SyncStamp, SyncBuild, SyncUpsert,
          SyncStale, SyncDelete, Read, ReadLook, ReadLoad, ReadAgain, ReadIdle
<1>5. sync' \in Sync
  <2>1. /\ sync.listed \in BOOLEAN /\ sync.seen \in Rows /\ sync.built \in Rows /\ Listed \in BOOLEAN
        /\ sync.built.at \in Nat
    BY <1>2 DEF Rows, Listed
  <2>2. Mtime \in Nat /\ file \in [KindSet -> Contents] /\ Empty \in [KindSet -> Contents]
    BY MtimeIsTime, RowsAreRows DEF Shape
  <2>3. [of |-> Empty, at |-> Mtime] \in Rows /\ [of |-> file, at |-> sync.built.at] \in Rows
    BY <2>1, <2>2 DEF Rows
  <2>4. CASE SyncList
    BY <1>2, <2>1, <2>4 DEF SyncList
  <2>5. CASE SyncRows
    BY <1>2, <2>1, <2>5 DEF SyncRows
  <2>6. CASE SyncStamp
    <3>1. SyncTo("build", [of |-> Empty, at |-> Mtime]) \/ SyncTo("stale", sync.built)
      BY <2>6, Zenon DEF SyncStamp
    <3> QED BY <2>1, <2>3, <3>1 DEF SyncTo
  <2>7. CASE SyncBuild
    <3>1. SyncTo("upsert", [of |-> file, at |-> sync.built.at]) \/ SyncTo("stale", sync.built)
      BY <2>7, Zenon DEF SyncBuild
    <3> QED BY <2>1, <2>3, <3>1 DEF SyncTo
  <2>8. CASE SyncUpsert
    BY <2>1, <2>8 DEF SyncUpsert, SyncTo
  <2>9. CASE SyncStale \/ SyncDelete
    <3>1. SyncTo("delete", sync.built) \/ sync' = SyncIdle
      BY <2>9, Zenon DEF SyncStale, SyncDelete
    <3>2. CASE SyncTo("delete", sync.built)
      BY <2>1, <3>2 DEF SyncTo
    <3>3. CASE sync' = SyncIdle
      BY <1>2, <3>3 DEF SyncIdle
    <3> QED BY <3>1, <3>2, <3>3
  <2>10. CASE Read
    BY <1>2, <2>10 DEF Read, ReadLook, ReadLoad, ReadAgain
  <2> QED BY <2>4, <2>5, <2>6, <2>7, <2>8, <2>9, <2>10 DEF Synchronise
<1> QED BY <1>1, <1>3, <1>4, <1>5 DEF Shape, TypeOK, Places, store

(* No step leaves the types. *)
LEMMA NextShape == ASSUME Shape, [Next]_vars PROVE Shape'
<1>1. CASE UNCHANGED vars
  BY <1>1 DEF vars, store, Shape, TypeOK, Places
<1> QED BY <1>1, OverwriteShape, CreateShape, CrashShape, SyncReadShape DEF Next

(* Every variable stays in its type, for any publishers and faults: no file  *)
(* of an ordinary report is ever part-written.                               *)
THEOREM TypesAlways == Spec => []TypeOK
<1>1. Spec => []Shape
  BY InitShape, NextShape, PTL DEF Spec
<1>2. Shape => TypeOK
  BY DEF Shape
<1> QED BY <1>1, <1>2, PTL

-----------------------------------------------------------------------------
(* Ordinary reports: what recovery puts back. *)

(* A write changes the artifact it names alone. *)
LEMMA PutElsewhere ==
  ASSUME Shape, NEW i \in 1..3, NEW c, Put(Kinds[i], c) \/ UNCHANGED store
  PROVE  \A j \in 1..3 \ {i} : file'[Kinds[j]] = file[Kinds[j]]
<1>1. \A j \in 1..3 \ {i} : Kinds[j] \in KindSet /\ Kinds[j] # Kinds[i]
  BY KindFacts
<1> QED BY <1>1 DEF Put, store, Shape, TypeOK

(* And a write that returns has written it. *)
LEMMA PutThere ==
  ASSUME Shape, NEW i \in 1..3, NEW c, Put(Kinds[i], c)
  PROVE  file'[Kinds[i]] = c
<1>1. Kinds[i] \in KindSet
  BY KindFacts
<1> QED BY <1>1 DEF Put, Shape, TypeOK

(* Publishers other than p stand where they stood. *)
LEMMA OthersStand ==
  ASSUME Shape, NEW p \in Publishers, Overwrite(p) \/ CreateOnly(p) \/ Crash(p)
  PROVE  \A q \in Publishers \ {p} : pub'[q] = pub[q]
<1>1. \E r : pub' = [pub EXCEPT ![p] = r]
  BY Zenon DEF Overwrite, Begin, Save, Upsert, Recover, Raise, CreateOnly, Enter, Exists,
     MarkAttempt, CreateFile, Insert, Complete, Crash, Fail, Goto, Move, End
<1> QED BY <1>1 DEF Shape, TypeOK

LEMMA InitOrdinary == Init => Ordinary
  BY DEF Init, Ordinary, Active, Idle

(* An ordinary publication stays alone and keeps what recovery needs. *)
LEMMA OverwriteOrdinary == ASSUME Shape, Ordinary, NEW p \in Publishers, Overwrite(p) PROVE Ordinary'
<1> DEFINE Restored(q, i) ==
             \/ pub[q].pc = "save" /\ i >= pub[q].n
             \/ pub[q].pc = "recover" /\ ~pub[q].bad /\ i > pub[q].n
           Same(q, i) == file[Kinds[i]] = pub[q].prev[Kinds[i]]
<1>1. mode = "overwrite" /\ mode' = mode
  <2>1. pub[p].pc \in {"save", "upsert", "recover"} => mode # "create"
    BY DEF Shape, Places, Place
  <2>2. mode \in {"overwrite", "create"}
    BY DEF Shape, TypeOK
  <2> QED BY <2>1, <2>2 DEF Overwrite, Begin, Save, Upsert, Recover, Raise
<1>2. \A q \in Publishers \ {p} : pub'[q] = pub[q]
  BY OthersStand
<1>3. \A q \in Publishers \ {p} : ~Active(q)
  BY <1>1 DEF Overwrite, Begin, Save, Upsert, Recover, Raise, Active, Ordinary
<1>4. \A q \in Publishers \ {p} : ~Active(q)'
  BY <1>2, <1>3 DEF Active
<1>5. \A q \in Publishers \ {p}, i \in 1..3 : ~Restored(q, i)'
  BY <1>4 DEF Active
<1>6. pub[p] \in Pub /\ Place(mode, pub[p]) /\ pub \in [Publishers -> Pub]
  BY DEF Shape, Places, TypeOK, Pub
<1>7. \A i \in 1..3 : Restored(p, i) => Same(p, i)
  BY <1>1 DEF Ordinary
<1>8. ASSUME NEW i \in 1..3, Restored(p, i)' PROVE Same(p, i)'
  <2>1. CASE Begin(p)
    BY <1>6, <2>1 DEF Begin, store
  <2>2. CASE Save(p)
    <3>1. pub[p].pc = "save" /\ pub[p].n \in 1..3
      BY <1>6, <2>2 DEF Save, Place
    <3>2. Put(Kinds[pub[p].n], p) \/ UNCHANGED store
      BY <2>2, Zenon DEF Save, PutOrNot
    <3>3. \/ Move(p, IF pub[p].n = 3 THEN "upsert" ELSE "save", pub[p].n + 1, FALSE)
          \/ Move(p, "recover", pub[p].n, FALSE)
      BY <2>2, Zenon DEF Save, Attempted
    <3>4. i > pub[p].n /\ pub'[p].prev = pub[p].prev
      BY <1>6, <1>8, <3>1, <3>3 DEF Move, Pub
    <3>5. i # pub[p].n /\ i >= pub[p].n
      BY <3>1, <3>4
    <3>6. file'[Kinds[i]] = file[Kinds[i]]
      BY <3>1, <3>2, <3>5, PutElsewhere
    <3>7. Same(p, i)
      BY <1>7, <3>1, <3>5
    <3> QED BY <3>4, <3>6, <3>7
  <2>3. CASE Upsert(p)
    <3>1. End(p, "done") \/ Move(p, "recover", 3, FALSE)
      BY <2>3, Zenon DEF Upsert
    <3> QED BY <1>6, <1>8, <3>1 DEF End, Move
  <2>4. CASE Recover(p)
    <3>1. pub[p].pc = "recover" /\ pub[p].n \in 1..3
      BY <1>6, <2>4 DEF Recover, Place
    <3>2. Put(Kinds[pub[p].n], pub[p].prev[Kinds[pub[p].n]]) \/ UNCHANGED store
      BY <2>4, Zenon DEF Recover, PutOrNot
    <3>3. \/ /\ Put(Kinds[pub[p].n], pub[p].prev[Kinds[pub[p].n]])
             /\ Move(p, "recover", pub[p].n - 1, pub[p].bad)
          \/ Move(p, "recover", pub[p].n - 1, TRUE)
      BY <2>4, Zenon DEF Recover
    <3>4. /\ Put(Kinds[pub[p].n], pub[p].prev[Kinds[pub[p].n]])
          /\ Move(p, "recover", pub[p].n - 1, pub[p].bad)
      <4>1. CASE Move(p, "recover", pub[p].n - 1, TRUE)
        BY <1>6, <1>8, <4>1 DEF Move
      <4> QED BY <3>3, <4>1
    <3>5. /\ ~pub[p].bad /\ i > pub[p].n - 1 /\ pub'[p].prev = pub[p].prev
      BY <1>6, <1>8, <3>4 DEF Move
    <3>6. CASE i = pub[p].n
      BY <3>1, <3>4, <3>5, <3>6, PutThere
    <3>7. CASE i # pub[p].n
      <4>1. i > pub[p].n
        BY <3>1, <3>5, <3>7
      <4>2. file'[Kinds[i]] = file[Kinds[i]]
        BY <3>1, <3>2, <3>7, PutElsewhere
      <4>3. Same(p, i)
        BY <1>7, <3>1, <3>5, <4>1
      <4> QED BY <3>5, <4>2, <4>3
    <3> QED BY <3>6, <3>7
  <2>5. CASE Raise(p)
    <3>1. End(p, "broken") \/ End(p, "failed")
      BY <2>5, Zenon DEF Raise
    <3> QED BY <1>6, <1>8, <3>1 DEF End
  <2> QED BY <2>1, <2>2, <2>3, <2>4, <2>5 DEF Overwrite
<1> QED BY <1>4, <1>5, <1>8 DEF Ordinary

(* A death only ends the publication. *)
LEMMA CrashOrdinary == ASSUME Shape, Ordinary, NEW p \in Publishers, Crash(p) PROVE Ordinary'
<1>1. SUFFICES ASSUME mode = "overwrite" PROVE Ordinary'
  BY DEF Crash, Ordinary
<1>2. UNCHANGED store
  <2>1. pub[p].pc # "write"
    BY <1>1 DEF Shape, Places, Place
  <2> QED BY <2>1, Zenon DEF Crash
<1>3. \A q \in Publishers \ {p} : pub'[q] = pub[q]
  BY OthersStand
<1>4. pub'[p].pc = "dead"
  BY DEF Crash, End, Shape, TypeOK
<1> QED BY <1>1, <1>2, <1>3, <1>4 DEF Ordinary, Active, store, Crash

(* No step disturbs an ordinary publication. *)
LEMMA NextOrdinary == ASSUME Shape, Ordinary, [Next]_vars PROVE Ordinary'
<1>1. CASE UNCHANGED vars
  BY <1>1 DEF vars, store, Ordinary, Active
<1>2. CASE Synchronise \/ Read
  BY <1>2 DEF Synchronise, SyncList, SyncRows, SyncStamp, SyncBuild, SyncUpsert, SyncStale,
     SyncDelete, Read, ReadLook, ReadLoad, ReadAgain, store, Ordinary, Active
<1>3. ASSUME NEW p \in Publishers, CreateOnly(p) PROVE Ordinary'
  BY <1>3, CreateMoves DEF Ordinary
<1> QED BY <1>1, <1>2, <1>3, OverwriteOrdinary, CrashOrdinary DEF Next

(* An ordinary publication that raises without an error of its recovery left *)
(* every artifact as it found it, whichever write or upsert raised, done or  *)
(* not, and whatever synchronised in between.                                *)
THEOREM FailedRestoresAlways == Spec => FailedRestores
<1> DEFINE Step == \A p \in Publishers :
                     pub[p].pc = "recover" /\ pub'[p].pc = "failed" => file = pub[p].prev
<1>1. Spec => [](Shape /\ Ordinary)
  BY InitShape, NextShape, InitOrdinary, NextOrdinary, PTL DEF Spec
<1>2. ASSUME Shape, Ordinary, Next PROVE Step
  <2> SUFFICES ASSUME NEW p \in Publishers, pub[p].pc = "recover", pub'[p].pc = "failed"
               PROVE  file = pub[p].prev
    OBVIOUS
  <2>1. /\ mode = "overwrite" /\ pub[p].prev \in [KindSet -> Publishers \cup {Nothing}]
        /\ file \in [KindSet -> Publishers \cup {Nothing}] /\ pub \in [Publishers -> Pub]
    <3>1. mode = "overwrite" /\ pub[p].prev \in [KindSet -> Publishers \cup {Nothing}]
      <4>1. mode \in {"overwrite", "create"}
        BY <1>2 DEF Shape, TypeOK
      <4> QED BY <1>2, <4>1 DEF Shape, Places, Place
    <3>2. pub \in [Publishers -> Pub]
      BY <1>2 DEF Shape, TypeOK, Pub
    <3> QED BY <1>2, <3>1, <3>2 DEF Shape, TypeOK
  <2>2. Overwrite(p) \/ CreateOnly(p) \/ Crash(p)
    <3>1. pub'[p] # pub[p]
      OBVIOUS
    <3>2. PICK q \in Publishers : Overwrite(q) \/ CreateOnly(q) \/ Crash(q)
      <4>1. Synchronise \/ Read => pub' = pub
        BY DEF Synchronise, SyncList, SyncRows, SyncStamp, SyncBuild, SyncUpsert,
           SyncStale, SyncDelete, Read, ReadLook, ReadLoad, ReadAgain
      <4> QED BY <1>2, <3>1, <4>1 DEF Next
    <3>3. q = p
      BY <1>2, <3>1, <3>2, OthersStand
    <3> QED BY <3>2, <3>3
  <2>3. Recover(p) \/ Raise(p) \/ Crash(p)
    BY <2>2 DEF Overwrite, Begin, Save, Upsert, CreateOnly, Enter, Exists, MarkAttempt,
       CreateFile, Insert, Complete
  <2>4. CASE Raise(p)
    <3>1. pub[p].n = 0 /\ ~pub[p].bad
      <4>1. CASE pub[p].bad
        <5>1. End(p, "broken")
          BY <2>4, <4>1 DEF Raise
        <5> QED BY <2>1, <5>1 DEF End
      <4> QED BY <2>4, <4>1 DEF Raise
    <3>2. \A i \in 1..3 : file[Kinds[i]] = pub[p].prev[Kinds[i]]
      <4>1. \A i \in 1..3 : i > pub[p].n
        BY <3>1
      <4> QED BY <1>2, <2>1, <3>1, <4>1 DEF Ordinary
    <3>3. \A k \in KindSet : file[k] = pub[p].prev[k]
      BY <3>2, KindFacts
    <3> QED BY <2>1, <3>3
  <2>5. CASE Recover(p)
    <3>1. \E i, b : Move(p, "recover", i, b)
      BY <2>5, Zenon DEF Recover
    <3> QED BY <2>1, <3>1 DEF Move
  <2>6. CASE Crash(p)
    BY <2>1, <2>6 DEF Crash, End
  <2> QED BY <2>3, <2>4, <2>5, <2>6
<1>3. ASSUME Shape, Ordinary, [Next]_vars PROVE [Step]_vars
  BY <1>2, <1>3
<1> QED BY <1>1, <1>3, PTL DEF Spec, FailedRestores

-----------------------------------------------------------------------------
(* Create-only reports: one publisher, and what is visible.                *)

(* When one publisher wrote every artifact, the storage is its bundle. *)
LEMMA WholeIs ==
  ASSUME Shape, NEW p \in Publishers, Whole(p)
  PROVE  file = [k \in KindSet |-> p]
  BY RowsAreRows DEF Whole, Shape

LEMMA InitCampaign == Init => Campaign
<1> SUFFICES ASSUME Init PROVE Campaign
  OBVIOUS
<1>1. \A p \in Publishers : Held(p)
  BY PublicationAssumption DEF Init, Held, Holding, Idle
<1>2. Stored /\ Synced /\ Loaded
  BY DEF Init, Stored, Synced, Loaded, SyncIdle, ReadIdle, NoRow
<1> QED BY <1>1, <1>2 DEF Campaign

(* When a publisher acts, nobody else holds the lock, before or after. *)
LEMMA OthersOut ==
  ASSUME Shape, Campaign, mode = "create", NEW p \in Publishers, CreateOnly(p) \/ Crash(p)
  PROVE  /\ lock \in {p, Nothing} /\ lock' \in {p, Nothing}
         /\ \A q \in Publishers \ {p} : Held(q)'
<1>1. lock \in {p, Nothing}
  <2>1. Enter(p) \/ Holding(p)
    BY DEF CreateOnly, Enter, Exists, MarkAttempt, CreateFile, Insert, Complete, Crash, Active,
       Holding, Shape, TypeOK, Places, Place
  <2> QED BY <2>1 DEF Enter, Campaign, Held
<1>2. lock' \in {lock, p, Nothing}
  BY DEF CreateOnly, Enter, Exists, MarkAttempt, CreateFile, Insert, Complete, Fail, Crash
<1>3. ASSUME NEW q \in Publishers \ {p} PROVE Held(q)'
  <2>1. ~Holding(q) /\ pub'[q] = pub[q]
    BY <1>1, PublicationAssumption, OthersStand DEF Campaign, Held
  <2> QED BY <1>1, <1>2, <2>1, PublicationAssumption DEF Held, Holding
<1> QED BY <1>1, <1>2, <1>3

(* Where a publisher ends: it holds nothing. *)
LEMMA EndHeld ==
  ASSUME Shape, NEW p \in Publishers, lock' = Nothing,
         NEW l \in {"done", "failed", "broken", "refused", "dead"}, End(p, l)
  PROVE  Held(p)'
<1>1. pub'[p].pc = l
  BY DEF End, Shape, TypeOK
<1> QED BY <1>1, PublicationAssumption DEF Held, Holding

(* The steps of a create-only publication up to its first write. *)
LEMMA BeforeWriting ==
  ASSUME Shape, Campaign, mode = "create", NEW p \in Publishers,
         Enter(p) \/ Exists(p) \/ MarkAttempt(p)
  PROVE  Campaign'
<1>1. \A q \in Publishers \ {p} : Held(q)'
  BY OthersOut DEF CreateOnly
<1>2. Held(p) /\ Stored /\ Synced /\ Loaded /\ pub[p] \in Pub /\ pub \in [Publishers -> Pub]
  BY DEF Campaign, Shape, Places, TypeOK, Pub
<1>3. UNCHANGED <<mode, store, row, complete, sync, reader>>
  BY DEF Enter, Exists, MarkAttempt
<1>4. \A l \in {"exists", "attempt", "write"} :
         Goto(p, l) => pub'[p].pc = l /\ pub'[p].n = pub[p].n
  BY <1>2 DEF Goto, Move
<1>5. CASE Enter(p)
  <2>1. CASE Fresh /\ lock' = p /\ Goto(p, "exists")
    BY <1>1, <1>2, <1>3, <1>4, <1>5, <2>1
       DEF Enter, Fresh, Campaign, Held, Holding, Stored, Synced, Loaded, store, Whole
  <2>2. CASE lock' = lock /\ End(p, "refused")
    <3>1. Held(p)'
      BY <1>5, <2>2, EndHeld DEF Enter
    <3> QED BY <1>1, <1>2, <1>3, <1>5, <2>2, <3>1
            DEF Enter, Campaign, Stored, Synced, Loaded, store, Whole
  <2> QED BY <1>5, <2>1, <2>2, Zenon DEF Enter
<1>6. CASE Exists(p)
  <2>1. attempt' = attempt /\ ~attempt /\ lock = p
    BY <1>2, <1>6 DEF Exists, Held, Holding
  <2>2. CASE Goto(p, "attempt") /\ lock' = lock
    BY <1>1, <1>2, <1>3, <1>4, <2>1, <2>2
       DEF Campaign, Held, Holding, Stored, Synced, Loaded, store, Whole
  <2>3. CASE End(p, "refused") /\ lock' = Nothing
    <3>1. Held(p)'
      BY <2>3, EndHeld
    <3> QED BY <1>1, <1>2, <1>3, <2>1, <2>3, <3>1
            DEF Campaign, Stored, Synced, Loaded, store, Whole
  <2> QED BY <1>6, <2>2, <2>3, Zenon DEF Exists
<1>7. CASE MarkAttempt(p)
  <2>1. ~attempt /\ lock = p /\ file = Empty /\ row = NoRow /\ ~complete /\ pub[p].n = 1
    BY <1>2, <1>7 DEF MarkAttempt, Held, Holding, Stored, Shape, Places, Place
  <2>2. CASE attempt' = TRUE /\ Goto(p, "write") /\ lock' = lock
    <3>1. \A i \in 1..3 : file'[Kinds[i]] = IF i < 1 THEN p ELSE Nothing
      BY <1>3, <2>1, KindFacts DEF Empty, store
    <3>2. Held(p)'
      BY <1>3, <1>4, <2>1, <2>2, <3>1 DEF Held, Holding
    <3> QED BY <1>1, <1>2, <1>3, <2>1, <2>2, <3>2
            DEF Campaign, Stored, Synced, Loaded, store, Whole
  <2>3. CASE attempt' \in BOOLEAN /\ End(p, "failed") /\ lock' = Nothing
    <3>1. Held(p)'
      BY <2>3, EndHeld
    <3> QED BY <1>1, <1>2, <1>3, <2>1, <2>3, <3>1
            DEF Campaign, Stored, Synced, Loaded, store, Whole
  <2> QED BY <1>7, <2>2, <2>3, Zenon DEF MarkAttempt, Fail
<1> QED BY <1>5, <1>6, <1>7

(* The publisher that writes, or dies at it, is hidden from everybody. *)
LEMMA WritingIsHidden ==
  ASSUME Shape, Campaign, mode = "create", NEW p \in Publishers, pub[p].pc = "write",
         UNCHANGED <<row, attempt, complete, sync, reader>>
  PROVE  Stored' /\ Synced' /\ Loaded'
<1>1. attempt /\ ~complete /\ row = NoRow /\ lock = p
  BY DEF Campaign, Held, Holding
<1>2. reader.pc # "again" /\ (reader.pc = "look" => reader.got = Nothing)
  BY <1>1, PublicationAssumption DEF Campaign, Loaded
<1> QED BY <1>1, <1>2 DEF Campaign, Stored, Synced, Loaded

(* Creating a file. *)
LEMMA CreateFileCampaign ==
  ASSUME Shape, Campaign, mode = "create", NEW p \in Publishers, CreateFile(p)
  PROVE  Campaign'
<1>1. \A q \in Publishers \ {p} : Held(q)'
  BY OthersOut DEF CreateOnly
<1>2. pub[p].pc = "write" /\ UNCHANGED <<mode, row, attempt, complete, sync, reader>>
  BY DEF CreateFile
<1>3. Stored' /\ Synced' /\ Loaded'
  BY <1>2, WritingIsHidden
<1>4. Held(p) /\ pub[p] \in Pub /\ pub[p].n \in 1..3 /\ pub \in [Publishers -> Pub]
  BY <1>2 DEF Campaign, Shape, Places, Place, TypeOK, Pub
<1> DEFINE i == pub[p].n
           l == IF i = 3 THEN "insert" ELSE "write"
<1>5. \/ Put(Kinds[i], p) /\ Move(p, l, i + 1, FALSE) /\ lock' = lock
      \/ End(p, "failed") /\ lock' = Nothing
  BY Zenon DEF CreateFile, Fail
<1>6. CASE Put(Kinds[i], p) /\ Move(p, l, i + 1, FALSE) /\ lock' = lock
  <2>1. pub'[p].pc = l /\ pub'[p].n = i + 1
    BY <1>4, <1>6 DEF Move
  <2>2. file'[Kinds[i]] = p /\ \A j \in 1..3 \ {i} : file'[Kinds[j]] = file[Kinds[j]]
    BY <1>4, <1>6, PutThere, PutElsewhere
  <2>3. \A j \in 1..3 : file[Kinds[j]] = IF j < i THEN p ELSE Nothing
    BY <1>2, <1>4 DEF Held
  <2>4. \A j \in 1..3 : file'[Kinds[j]] = IF j < i + 1 THEN p ELSE Nothing
    BY <1>4, <2>2, <2>3
  <2>5. i = 3 => Whole(p)'
    BY <2>4, KindFacts DEF Whole
  <2>6. attempt /\ ~complete /\ row = NoRow /\ lock = p
    BY <1>2, <1>4 DEF Held, Holding
  <2>7. (l = "insert" /\ i = 3) \/ (l = "write" /\ i # 3)
    BY Zenon
  <2> HIDE DEF l
  <2> QED BY <1>1, <1>2, <1>3, <1>6, <2>1, <2>4, <2>5, <2>6, <2>7 DEF Campaign, Held, Holding
<1>7. CASE End(p, "failed") /\ lock' = Nothing
  BY <1>1, <1>2, <1>3, <1>7, EndHeld DEF Campaign
<1> QED BY <1>5, <1>6, <1>7

(* Inserting the row, and writing the receipt of completion. *)
LEMMA InsertCompleteCampaign ==
  ASSUME Shape, Campaign, mode = "create", NEW p \in Publishers, Insert(p) \/ Complete(p)
  PROVE  Campaign'
<1>1. \A q \in Publishers \ {p} : Held(q)'
  BY OthersOut DEF CreateOnly
<1>2. Held(p) /\ Stored /\ Synced /\ Loaded /\ pub[p] \in Pub /\ pub \in [Publishers -> Pub]
  BY DEF Campaign, Shape, Places, TypeOK, Pub
<1>3. UNCHANGED <<mode, store, attempt, sync, reader>>
  BY DEF Insert, Complete
<1>4. attempt /\ ~complete /\ lock = p /\ Whole(p)
  BY <1>2 DEF Insert, Complete, Held, Holding
<1>5. reader.pc # "again" /\ (reader.pc = "look" => reader.got = Nothing)
  BY <1>2, <1>4, PublicationAssumption DEF Loaded
<1>6. Loaded'
  BY <1>3, <1>5 DEF Loaded
<1>7. row' \in {row, RowOf(p)}
  BY DEF Insert, Complete
<1>8. RowOf(p).of = file
  BY <1>4, WholeIs DEF RowOf
<1>9. Whole(p)' /\ file' = file
  BY <1>3, <1>4 DEF Whole, store
<1>10. row' = NoRow \/ row'.of \in {Empty, file}
  BY <1>2, <1>7, <1>8 DEF Stored
<1>11. Stored'
  BY <1>3, <1>4, <1>9, <1>10 DEF Stored
<1>12. Synced'
  BY <1>2, <1>3, <1>4, <1>9 DEF Synced
<1>13. Held(p)'
  <2>1. CASE End(p, "done") /\ lock' = Nothing
    BY <2>1, EndHeld
  <2>2. CASE End(p, "failed") /\ lock' = Nothing
    BY <2>2, EndHeld
  <2>3. CASE Insert(p) /\ Goto(p, "complete") /\ lock' = lock
    <3>1. pub'[p].pc = "complete" /\ complete' = complete
      BY <1>2, <2>3 DEF Goto, Move, Insert
    <3> QED BY <1>3, <1>4, <1>9, <2>3, <3>1 DEF Held, Holding
  <2> QED BY <2>1, <2>2, <2>3, Zenon DEF Insert, Complete, Fail
<1> QED BY <1>1, <1>3, <1>6, <1>11, <1>12, <1>13 DEF Campaign

(* A death. *)
LEMMA CrashCampaign ==
  ASSUME Shape, Campaign, mode = "create", NEW p \in Publishers, Crash(p)
  PROVE  Campaign'
<1>1. \A q \in Publishers \ {p} : Held(q)'
  BY OthersOut
<1>2. lock' = Nothing
  BY OthersOut DEF Crash
<1>3. Held(p)'
  BY <1>2, EndHeld DEF Crash
<1>4. UNCHANGED <<mode, row, attempt, complete, sync, reader>>
  BY DEF Crash
<1>5. CASE pub[p].pc = "write"
  BY <1>1, <1>3, <1>4, <1>5, WritingIsHidden DEF Campaign
<1>6. CASE UNCHANGED store
  BY <1>1, <1>2, <1>3, <1>4, <1>6 DEF Campaign, Stored, Synced, Loaded, store, Whole
<1> QED BY <1>5, <1>6, Zenon DEF Crash

(* A synchronisation builds rows of a report that is whole, or none. *)
LEMMA SyncCampaign == ASSUME Shape, Campaign, mode = "create", Synchronise PROVE Campaign'
<1>1. Stored /\ Synced /\ Loaded /\ \A p \in Publishers : Held(p)
  BY DEF Campaign
<1>2. UNCHANGED <<mode, store, attempt, complete, lock, pub, reader>>
  BY DEF Synchronise, SyncList, SyncRows, SyncStamp, SyncBuild, SyncUpsert, SyncStale, SyncDelete
<1>3. \A p \in Publishers : Whole(p)' <=> Whole(p)
  BY <1>2 DEF Whole, store
<1>4. Loaded'
  BY <1>1, <1>2, <1>3 DEF Loaded
<1>5. file' = file /\ NoRow.of = Empty
  BY <1>2 DEF store, NoRow
<1>6. CASE row' = row
  <2>1. Stored'
    BY <1>1, <1>2, <1>3, <1>5, <1>6 DEF Stored
  <2>2. \A p \in Publishers : Held(p)'
    BY <1>1, <1>2, <1>3, <1>5, <1>6 DEF Held, Holding
  <2>3. Synced'
    <3>1. CASE SyncList
      <4>1. Listed => complete
        BY <1>1, KindFacts DEF Listed, Pending, Stored, Empty
      <4> QED BY <1>2, <1>5, <3>1, <4>1 DEF SyncList, Synced
    <3>2. CASE SyncRows
      BY <1>1, <1>2, <1>5, <3>2 DEF SyncRows, Synced, Stored
    <3>3. CASE SyncStamp
      <4>1. \/ sync.listed /\ SyncTo("build", [of |-> Empty, at |-> Mtime])
            \/ SyncTo("stale", sync.built)
        BY <3>3, Zenon DEF SyncStamp
      <4> QED BY <1>1, <1>2, <1>5, <4>1 DEF SyncTo, Synced
    <3>4. CASE SyncBuild
      <4>1. \/ SyncTo("upsert", [of |-> file, at |-> sync.built.at])
            \/ SyncTo("stale", sync.built)
        BY <3>4, Zenon DEF SyncBuild
      <4>2. complete
        BY <1>1, <3>4 DEF SyncBuild, Synced
      <4> QED BY <1>1, <1>2, <1>5, <4>1, <4>2 DEF SyncTo, Synced, Stored
    <3>5. CASE SyncStale
      <4>1. \/ sync.seen # NoRow /\ ~Pending /\ SyncTo("delete", sync.built)
            \/ sync' = SyncIdle
        BY <3>5, Zenon DEF SyncStale
      <4>2. sync.seen # NoRow /\ ~Pending => complete
        BY <1>1 DEF Synced, Pending
      <4> QED BY <1>1, <1>2, <1>5, <4>1, <4>2 DEF SyncTo, SyncIdle, Synced
    <3>6. CASE SyncUpsert
      BY <1>1, <1>2, <1>5, <3>6 DEF SyncUpsert, SyncTo, Synced
    <3>7. CASE SyncDelete
      BY <1>1, <1>2, <1>5, <3>7 DEF SyncDelete, SyncIdle, Synced
    <3> QED BY <3>1, <3>2, <3>3, <3>4, <3>5, <3>6, <3>7 DEF Synchronise
  <2> QED BY <1>2, <1>4, <2>1, <2>2, <2>3 DEF Campaign
<1>7. CASE SyncUpsert \/ SyncDelete
  <2>1. complete /\ attempt
    BY <1>1, <1>7 DEF SyncUpsert, SyncDelete, Synced, Stored
  <2>2. \A p \in Publishers : ~Holding(p)
    BY <1>1, <2>1 DEF Held, Holding
  <2>3. \A p \in Publishers : Held(p)'
    BY <1>1, <1>2, <2>2 DEF Held, Holding
  <2>4. row'.of \in {Empty, file}
    BY <1>1, <1>5, <1>7 DEF SyncUpsert, SyncDelete, Synced
  <2>5. Stored'
    BY <1>1, <1>2, <1>3, <1>5, <2>1, <2>4 DEF Stored
  <2>6. sync'.built.of \in {Empty, file}
    BY <1>1, <1>5, <1>7 DEF SyncUpsert, SyncDelete, SyncTo, SyncIdle, Synced
  <2>7. Synced'
    BY <1>2, <1>5, <2>1, <2>6 DEF Synced
  <2> QED BY <1>2, <1>4, <2>3, <2>5, <2>7 DEF Campaign
<1> QED BY <1>6, <1>7 DEF Synchronise, SyncList, SyncRows, SyncStamp, SyncBuild, SyncStale

(* A reader is given artifacts of a report that is whole. *)
LEMMA ReadCampaign == ASSUME Shape, Campaign, mode = "create", Read PROVE Campaign'
<1>1. Stored /\ Synced /\ Loaded /\ \A p \in Publishers : Held(p)
  BY DEF Campaign
<1>2. UNCHANGED <<mode, store, row, attempt, complete, lock, pub, sync>>
  BY DEF Read, ReadLook, ReadLoad, ReadAgain
<1>3. \A p : Whole(p)' <=> Whole(p)
  BY <1>2 DEF Whole, store
<1>4. Stored' /\ Synced' /\ \A p \in Publishers : Held(p)'
  BY <1>1, <1>2, <1>3 DEF Stored, Synced, Held, Holding, store
<1>5. Loaded'
  <2>1. CASE ReadLook
    BY <2>1 DEF ReadLook, Loaded
  <2>2. CASE ReadLoad
    <3>1. CASE file["html"] = Nothing
      BY <2>2, <3>1 DEF ReadLoad, ReadIdle, Loaded
    <3>2. CASE file["html"] # Nothing
      <4>1. attempt
        BY <1>1, <3>2, KindFacts DEF Stored, Empty
      <4>2. complete => file["html"] \in Publishers /\ Whole(file["html"])
        BY <1>1, KindFacts DEF Stored, Whole
      <4>3. reader' = [pc |-> "again", got |-> file["html"]] /\ lock = Nothing
        BY <2>2, <3>2 DEF ReadLoad
      <4> QED BY <1>2, <1>3, <4>1, <4>2, <4>3 DEF Loaded
    <3> QED BY <3>1, <3>2
  <2>3. CASE ReadAgain
    <3>1. CASE Pending
      BY <2>3, <3>1 DEF ReadAgain, ReadIdle, Loaded
    <3>2. CASE ~Pending
      <4>1. complete
        BY <1>1, <2>3, <3>2 DEF ReadAgain, Loaded, Pending
      <4> QED BY <1>1, <1>2, <1>3, <2>3, <3>2, <4>1 DEF ReadAgain, Loaded
    <3> QED BY <3>1, <3>2
  <2> QED BY <2>1, <2>2, <2>3 DEF Read
<1> QED BY <1>2, <1>4, <1>5 DEF Campaign

(* No step breaks the order of a create-only publication. *)
LEMMA NextCampaign == ASSUME Shape, Campaign, [Next]_vars PROVE Campaign'
<1>1. mode' = mode
  BY DEF Next, Overwrite, Begin, Save, Upsert, Recover, Raise, CreateOnly, Enter, Exists,
     MarkAttempt, CreateFile, Insert, Complete, Crash, Synchronise, SyncList, SyncRows,
     SyncStamp, SyncBuild, SyncUpsert, SyncStale, SyncDelete, Read, ReadLook, ReadLoad,
     ReadAgain, vars
<1>2. CASE mode # "create"
  BY <1>1, <1>2 DEF Campaign
<1>3. CASE mode = "create" /\ UNCHANGED vars
  BY <1>3 DEF vars, store, Campaign, Held, Holding, Stored, Synced, Loaded, Whole
<1>4. ASSUME mode = "create", NEW p \in Publishers PROVE ~Overwrite(p)
  <2>1. pub[p].pc \notin {"save", "upsert", "recover"}
    BY <1>4 DEF Shape, Places, Place
  <2> QED BY <1>4, <2>1 DEF Overwrite, Begin, Save, Upsert, Recover, Raise
<1>5. ASSUME mode = "create", NEW p \in Publishers, CreateOnly(p) \/ Crash(p) PROVE Campaign'
  BY <1>5, BeforeWriting, CreateFileCampaign, InsertCompleteCampaign, CrashCampaign DEF CreateOnly
<1> QED BY <1>2, <1>3, <1>4, <1>5, SyncCampaign, ReadCampaign DEF Next

LEMMA CampaignAlways == Spec => [](Shape /\ Campaign)
  BY InitShape, NextShape, InitCampaign, NextCampaign, PTL DEF Spec

(* A create-only report that is not hidden is whole, with the row of its own *)
(* publisher or none yet, or there is no trace of it at all, whatever write, *)
(* insert or receipt raised, done or not, and whoever died in between.       *)
THEOREM VisibleIsWholeAlways == Spec => []VisibleIsWhole
<1>1. Campaign => VisibleIsWhole
  <2> SUFFICES ASSUME Campaign, mode = "create", ~Pending PROVE VisibleIsWhole
    BY DEF VisibleIsWhole
  <2>1. Stored
    BY DEF Campaign
  <2>2. CASE complete
    <3>1. NoRow.of = Empty
      BY DEF NoRow
    <3> QED BY <2>1, <2>2, <3>1 DEF Stored, VisibleIsWhole
  <2>3. CASE ~complete
    BY <2>1, <2>3 DEF Stored, Pending, VisibleIsWhole
  <2> QED BY <2>2, <2>3
<1> QED BY <1>1, CampaignAlways, PTL

(* What a reader is given of a create-only report is of a whole bundle,      *)
(* also when a publication began, failed or died between its two looks.      *)
THEOREM ReadsWholeAlways == Spec => []ReadsWhole
<1>1. Campaign => ReadsWhole
  BY DEF Campaign, Loaded, ReadsWhole
<1> QED BY <1>1, CampaignAlways, PTL

(* A create-only publication that returned is published for good: every       *)
(* artifact is its own, and none is hidden.                                  *)
DoneIsPublished ==
    mode = "create" => \A p \in Publishers : pub[p].pc = "done" => Whole(p) /\ ~Pending

(* Whatever the storage holds of a create-only report is neither removed nor *)
(* replaced, by a failing write or by a death either.                        *)
NothingReplaced ==
    [][mode = "create" => \A k \in KindSet : file[k] # Nothing => file'[k] = file[k]]_vars

(* A step writes no artifact that is there. *)
LEMMA KeepsFiles ==
  ASSUME Shape, Campaign, mode = "create", [Next]_vars
  PROVE  \A k \in KindSet : file[k] # Nothing => file'[k] = file[k]
<1>1. CASE UNCHANGED store
  BY <1>1 DEF store
<1>2. ASSUME NEW p \in Publishers, CreateFile(p) \/ Crash(p), pub[p].pc = "write"
      PROVE  \A k \in KindSet : file[k] # Nothing => file'[k] = file[k]
  <2> DEFINE i == pub[p].n
  <2>1. i \in 1..3 /\ \A j \in 1..3 : file[Kinds[j]] = IF j < i THEN p ELSE Nothing
    BY <1>2 DEF Campaign, Held, Shape, Places, Place
  <2>2. Put(Kinds[i], p) \/ Put(Kinds[i], Partial) \/ UNCHANGED store
    BY <1>2, Zenon DEF CreateFile, Crash, PutOrNot
  <2>3. \A j \in 1..3 \ {i} : file'[Kinds[j]] = file[Kinds[j]]
    BY <2>1, <2>2, PutElsewhere
  <2>4. file[Kinds[i]] = Nothing
    BY <2>1
  <2> HIDE DEF i
  <2>5. \A j \in 1..3 : file[Kinds[j]] # Nothing => file'[Kinds[j]] = file[Kinds[j]]
    BY <2>3, <2>4
  <2> QED BY <2>5, KindFacts
<1>3. ASSUME NEW p \in Publishers, Crash(p), pub[p].pc # "write" PROVE UNCHANGED store
  BY <1>3, Zenon DEF Crash
<1>4. ASSUME NEW p \in Publishers PROVE ~Overwrite(p)
  <2>1. pub[p].pc \notin {"save", "upsert", "recover"}
    BY DEF Shape, Places, Place
  <2> QED BY <2>1 DEF Overwrite, Begin, Save, Upsert, Recover, Raise
<1>5. ASSUME NEW p \in Publishers, CreateOnly(p) PROVE CreateFile(p) \/ UNCHANGED store
  BY <1>5 DEF CreateOnly, Enter, Exists, MarkAttempt, Insert, Complete
<1>6. ASSUME Synchronise \/ Read PROVE UNCHANGED store
  BY <1>6 DEF Synchronise, SyncList, SyncRows, SyncStamp, SyncBuild, SyncUpsert, SyncStale,
     SyncDelete, Read, ReadLook, ReadLoad, ReadAgain
<1>7. ASSUME NEW p \in Publishers, CreateFile(p) PROVE pub[p].pc = "write"
  BY <1>7 DEF CreateFile
<1>8. CASE UNCHANGED vars
  BY <1>1, <1>8 DEF vars
<1> QED BY <1>1, <1>2, <1>3, <1>4, <1>5, <1>6, <1>7, <1>8 DEF Next

(* Nothing of a create-only report is replaced, in any number of attempts. *)
THEOREM NothingReplacedAlways == Spec => NothingReplaced
<1> DEFINE Step == mode = "create" => \A k \in KindSet : file[k] # Nothing => file'[k] = file[k]
<1>1. ASSUME Shape, Campaign, [Next]_vars PROVE [Step]_vars
  BY <1>1, KeepsFiles
<1> QED BY <1>1, CampaignAlways, PTL DEF Spec, NothingReplaced

(* A receipt, once written, stays, and a publisher that returned had it. *)
LEMMA ReceiptsStay ==
  ASSUME Shape, Campaign, mode = "create", [Next]_vars
  PROVE  /\ mode' = mode /\ (complete => complete')
         /\ \A p \in Publishers : pub'[p].pc = "done" /\ pub[p].pc # "done" => complete' /\ Whole(p)
<1> DEFINE Goal(p) == pub'[p].pc = "done" /\ pub[p].pc # "done" => complete' /\ Whole(p)
<1>1. CASE UNCHANGED vars
  BY <1>1 DEF vars
<1>2. CASE Synchronise \/ Read
  BY <1>2 DEF Synchronise, SyncList, SyncRows, SyncStamp, SyncBuild, SyncUpsert, SyncStale,
     SyncDelete, Read, ReadLook, ReadLoad, ReadAgain
<1>3. ASSUME NEW p \in Publishers PROVE ~Overwrite(p)
  <2>1. pub[p].pc \notin {"save", "upsert", "recover"}
    BY DEF Shape, Places, Place
  <2> QED BY <2>1 DEF Overwrite, Begin, Save, Upsert, Recover, Raise
<1>4. ASSUME NEW p \in Publishers, CreateOnly(p) \/ Crash(p)
      PROVE  mode' = mode /\ (complete => complete') /\ \A q \in Publishers : Goal(q)
  <2>1. mode' = mode /\ (complete' = complete \/ Complete(p))
    BY <1>4 DEF CreateOnly, Enter, Exists, MarkAttempt, CreateFile, Insert, Crash, Complete
  <2>2. \A q \in Publishers \ {p} : Goal(q)
    BY <1>4, OthersStand
  <2>3. Complete(p) => ~complete /\ Whole(p)
    BY DEF Complete, Campaign, Held
  <2>4. CASE Complete(p) /\ complete'
    BY <2>1, <2>2, <2>3, <2>4
  <2>5. CASE \E l \in {"exists", "attempt", "write", "insert", "complete"} : \E i, b : Move(p, l, i, b)
    <3>1. pub'[p].pc # "done"
      BY <2>5 DEF Move, Shape, TypeOK
    <3> QED BY <2>1, <2>2, <2>3, <3>1
  <2>6. CASE \E l \in {"refused", "failed", "dead"} : End(p, l)
    <3>1. pub'[p].pc # "done"
      BY <2>6 DEF End, Shape, TypeOK
    <3> QED BY <2>1, <2>2, <2>3, <3>1
  <2>7. \/ Complete(p) /\ complete'
        \/ \E l \in {"exists", "attempt", "write", "insert", "complete"} : \E i, b : Move(p, l, i, b)
        \/ \E l \in {"refused", "failed", "dead"} : End(p, l)
    <3>1. CASE CreateFile(p)
      <4>1. \/ \E i : Move(p, "insert", i, FALSE) \/ Move(p, "write", i, FALSE)
            \/ End(p, "failed")
        BY <3>1 DEF CreateFile, Fail
      <4> QED BY <4>1
    <3>2. CASE Complete(p)
      BY <3>2, Zenon DEF Complete, Fail
    <3> QED BY <1>4, <3>1, <3>2, Zenon DEF CreateOnly, Enter, Exists, MarkAttempt, Insert, Crash,
            Fail, Goto
  <2> QED BY <2>4, <2>5, <2>6, <2>7
<1> QED BY <1>1, <1>2, <1>3, <1>4 DEF Next

(* A create-only publication that returned is published for good.  Hence no   *)
(* two attempts ever return: the storage is the bundle of one.                *)
THEOREM DoneIsPublishedAlways == Spec => []DoneIsPublished
<1>1. Init => DoneIsPublished
  BY DEF Init, DoneIsPublished, Idle
<1>2. ASSUME Shape, Campaign, DoneIsPublished, [Next]_vars PROVE DoneIsPublished'
  <2>1. CASE mode # "create"
    <3>1. mode' = mode
      BY <1>2 DEF Next, Overwrite, Begin, Save, Upsert, Recover, Raise, CreateOnly, Enter, Exists,
         MarkAttempt, CreateFile, Insert, Complete, Crash, Synchronise, SyncList, SyncRows,
         SyncStamp, SyncBuild, SyncUpsert, SyncStale, SyncDelete, Read, ReadLook, ReadLoad,
         ReadAgain, vars
    <3> QED BY <2>1, <3>1 DEF DoneIsPublished
  <2>2. CASE mode = "create"
    <3> SUFFICES ASSUME NEW p \in Publishers, pub'[p].pc = "done" PROVE Whole(p)' /\ ~Pending'
      BY DEF DoneIsPublished
    <3>1. Whole(p) /\ complete'
      <4>1. CASE pub[p].pc = "done"
        <5>1. Whole(p) /\ attempt /\ complete
          <6>1. Whole(p) /\ ~Pending
            BY <1>2, <2>2, <4>1 DEF DoneIsPublished
          <6>2. file # Empty
            BY <6>1, KindFacts, PublicationAssumption DEF Whole, Empty
          <6> QED BY <1>2, <2>2, <6>1, <6>2 DEF Campaign, Stored, Pending
        <5> QED BY <1>2, <2>2, <5>1, ReceiptsStay
      <4>2. CASE pub[p].pc # "done"
        BY <1>2, <2>2, <4>2, ReceiptsStay
      <4> QED BY <4>1, <4>2
    <3>2. Whole(p)'
      <4>1. \A k \in KindSet : file[k] # Nothing => file'[k] = file[k]
        BY <1>2, <2>2, KeepsFiles
      <4> QED BY <3>1, <4>1, PublicationAssumption DEF Whole
    <3>3. attempt'
      <4>1. Campaign' /\ mode' = mode
        BY <1>2, <2>2, NextCampaign, ReceiptsStay
      <4> QED BY <2>2, <3>1, <4>1 DEF Campaign, Stored
    <3> QED BY <3>1, <3>2, <3>3 DEF Pending
  <2> QED BY <2>1, <2>2
<1> QED BY <1>1, <1>2, CampaignAlways, PTL DEF Spec

=============================================================================

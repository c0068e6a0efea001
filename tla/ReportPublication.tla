------------------------- MODULE ReportPublication -------------------------
(***************************************************************************)
(* The publication of one report: three artifacts in the report storage    *)
(* (HTML, Markdown, data snapshot) and a row in the report index.          *)
(*                                                                         *)
(* An ordinary job overwrites and, when a step raises, puts back what it   *)
(* found.  The private campaign publishes create-only: it holds the root   *)
(* lock, refuses an identity that left any trace, never removes anything,  *)
(* and hides the report behind a pair of receipts until the index row is   *)
(* confirmed.  Meanwhile every listing of the history synchronises the     *)
(* index with the files it finds, in steps of its own, and readers load    *)
(* artifacts.                                                              *)
(*                                                                         *)
(* The content of an artifact is the publisher that wrote it, its stamp    *)
(* the time of the write; a row keeps what it was built from.  The sidecar *)
(* of an artifact goes with it; a step of the storage is atomic, as its    *)
(* write to a temporary file and rename make it.  The ordinary attempts    *)
(* are those of one job, which run one at a time.                          *)
(***************************************************************************)
EXTENDS Naturals, Sequences, FiniteSetsExt

CONSTANTS
    Publishers,     \* attempts to publish this report
    Nothing,        \* no file, no row
    Partial,        \* a file that was created and not written to its end
    MaxFaults       \* bound on the errors and deaths of one behaviour

ASSUME PublicationAssumption ==
    Nothing \notin Publishers /\ Partial \notin Publishers /\ Nothing # Partial /\ MaxFaults \in Nat

VARIABLES
    mode,           \* "overwrite" or "create": the kind of report
    file,           \* file[k]: the artifact k in the storage
    stamp,          \* stamp[k]: its modification time, 0 when there is none
    clock,          \* the number of writes so far
    row,            \* the row of the index: the artifacts and the stamp it shows
    attempt,        \* the receipt of an attempt exists
    complete,       \* the receipt of completion exists
    lock,           \* who holds the root lock through a whole publication
    pub,            \* pub[p]: where p stands
    faults,         \* errors and deaths so far
    sync,           \* a synchronisation of the index
    reader          \* a reader of the HTML

store == <<file, stamp, clock>>

vars == <<mode, store, row, attempt, complete, lock, pub, faults, sync, reader>>

Kinds    == <<"html", "md", "data">>
KindSet  == {Kinds[i] : i \in 1..3}
Contents == Publishers \cup {Nothing, Partial}

Empty == [k \in KindSet |-> Nothing]
NoRow == [of |-> Empty, at |-> 0]

\* report_index_mtime: the latest of the artifacts there are.
Mtime == Max({stamp[k] : k \in KindSet})

\* Write content c as artifact k; Nothing deletes it.
Put(k, c) ==
    /\ file' = [file EXCEPT ![k] = c]
    /\ clock' = clock + 1
    /\ stamp' = [stamp EXCEPT ![k] = IF c = Nothing THEN 0 ELSE clock + 1]

\* A write that raises, done or not.
PutOrNot(k, c) == Put(k, c) \/ UNCHANGED store

\* A mutant of Pending: either receipt alone makes a report visible.
PendingBoth == (attempt /\ complete) /\ ~(attempt /\ complete)

\* Legacy reports have no receipt; an attempt without completion is hidden.
Pending == (attempt \/ complete) /\ ~(attempt /\ complete)

Fault == faults < MaxFaults /\ faults' = faults + 1
NoFault == UNCHANGED faults

Idle == [pc |-> "idle", n |-> 1, prev |-> Empty, bad |-> FALSE]

\* p goes on at l with its i-th artifact, and with whether its recovery is broken.
Move(p, l, i, b) ==
    pub' = [pub EXCEPT ![p] = [pc |-> l, n |-> i, prev |-> pub[p].prev, bad |-> b]]

Goto(p, l) == Move(p, l, pub[p].n, pub[p].bad)

\* Of a publisher that ended only its end is kept.
End(p, l) == pub' = [pub EXCEPT ![p] = [pc |-> l, n |-> 1, prev |-> Empty, bad |-> FALSE]]

---------------------------------------------------------------------------
(* persist_report_bundle, ordinary.                                        *)

Active(p) == pub[p].pc \notin {"idle", "done", "failed", "broken", "refused", "dead"}

\* The bytes found are kept before the first write.
Begin(p) ==
    /\ mode = "overwrite" /\ pub[p].pc = "idle"
    /\ \A q \in Publishers : ~Active(q)
    /\ pub' = [pub EXCEPT ![p] = [pc |-> "save", n |-> 1, prev |-> file, bad |-> FALSE]]
    /\ UNCHANGED <<mode, store, row, attempt, complete, lock, faults, sync, reader>>

\* A mutant of Attempted: only saves that returned are recovered.
SavedOnly(p) == pub[p].n - 1

\* A save that raises may have written: the attempted artifact is recovered too.
Attempted(p) == pub[p].n

Save(p) ==
    LET k == Kinds[pub[p].n]
    IN  /\ pub[p].pc = "save"
        /\ \/ /\ Put(k, p) /\ NoFault
              /\ Move(p, IF pub[p].n = 3 THEN "upsert" ELSE "save", pub[p].n + 1, FALSE)
           \/ /\ Fault
              /\ PutOrNot(k, p)
              /\ Move(p, "recover", Attempted(p), FALSE)
        /\ UNCHANGED <<mode, row, attempt, complete, lock, sync, reader>>

\* The row of the bundle that p has written.
RowOf(p) == [of |-> [k \in KindSet |-> p], at |-> Mtime]

Upsert(p) ==
    /\ pub[p].pc = "upsert"
    /\ \/ row' = RowOf(p) /\ End(p, "done") /\ NoFault
       \/ /\ Fault
          /\ row' \in {row, RowOf(p)}
          /\ Move(p, "recover", 3, FALSE)
    /\ UNCHANGED <<mode, store, attempt, complete, lock, sync, reader>>

\* One attempted artifact after the other, in reverse; an error of the recovery
\* does not end it.
Recover(p) ==
    LET k == Kinds[pub[p].n]
    IN  /\ pub[p].pc = "recover" /\ pub[p].n > 0
        /\ \/ /\ Put(k, pub[p].prev[k]) /\ NoFault
              /\ Move(p, "recover", pub[p].n - 1, pub[p].bad)
           \/ /\ Fault
              /\ PutOrNot(k, pub[p].prev[k])
              /\ Move(p, "recover", pub[p].n - 1, TRUE)
        /\ UNCHANGED <<mode, row, attempt, complete, lock, sync, reader>>

Raise(p) ==
    /\ pub[p].pc = "recover" /\ pub[p].n = 0
    /\ End(p, IF pub[p].bad THEN "broken" ELSE "failed")
    /\ UNCHANGED <<mode, store, row, attempt, complete, lock, faults, sync, reader>>

---------------------------------------------------------------------------
(* persist_report_bundle, create-only.                                     *)

\* Any trace of the identity in the storage refuses it.
Fresh == ~attempt /\ ~complete /\ \A k \in KindSet : file[k] = Nothing

Enter(p) ==
    /\ mode = "create" /\ pub[p].pc = "idle"
    /\ lock = Nothing
    /\ IF Fresh THEN lock' = p /\ Goto(p, "exists")
                ELSE UNCHANGED lock /\ End(p, "refused")
    /\ UNCHANGED <<mode, store, row, attempt, complete, faults, sync, reader>>

Exists(p) ==
    /\ pub[p].pc = "exists"
    /\ IF row = NoRow THEN Goto(p, "attempt") /\ UNCHANGED lock
                        ELSE End(p, "refused") /\ lock' = Nothing
    /\ UNCHANGED <<mode, store, row, attempt, complete, faults, sync, reader>>

\* A step of the publication raises: what was done is kept, the lock goes.
Fail(p) == Fault /\ lock' = Nothing /\ End(p, "failed")

MarkAttempt(p) ==
    /\ pub[p].pc = "attempt"
    /\ \/ attempt' = TRUE /\ Goto(p, "write") /\ UNCHANGED <<lock, faults>>
       \/ attempt' \in BOOLEAN /\ Fail(p)
    /\ UNCHANGED <<mode, store, row, complete, sync, reader>>

CreateFile(p) ==
    LET k == Kinds[pub[p].n]
    IN  /\ pub[p].pc = "write"
        /\ \/ /\ file[k] = Nothing
              /\ Put(k, p)
              /\ Move(p, IF pub[p].n = 3 THEN "insert" ELSE "write", pub[p].n + 1, FALSE)
              /\ UNCHANGED <<lock, faults>>
           \/ /\ PutOrNot(k, Partial) \/ Put(k, p)
              /\ Fail(p)
        /\ UNCHANGED <<mode, row, attempt, complete, sync, reader>>

\* A plain INSERT; when it raises it may have been committed.
Insert(p) ==
    /\ pub[p].pc = "insert"
    /\ \/ row = NoRow /\ row' = RowOf(p) /\ Goto(p, "complete") /\ UNCHANGED <<lock, faults>>
       \/ row' \in {row, IF row = NoRow THEN RowOf(p) ELSE row} /\ Fail(p)
    /\ UNCHANGED <<mode, store, attempt, complete, sync, reader>>

\* The marker is written under another name and renamed.
Complete(p) ==
    /\ pub[p].pc = "complete"
    /\ \/ complete' = TRUE /\ lock' = Nothing /\ End(p, "done") /\ NoFault
       \/ complete' \in BOOLEAN /\ Fail(p)
    /\ UNCHANGED <<mode, store, row, attempt, sync, reader>>

\* A mutant of Crash: an ordinary save is not atomic either.
CrashCut(p) ==
    LET k == Kinds[pub[p].n]
    IN  /\ Fault /\ Active(p)
        /\ End(p, "dead")
        /\ lock' = IF lock = p THEN Nothing ELSE lock
        /\ \/ UNCHANGED store
           \/ pub[p].pc \in {"write", "save"} /\ Put(k, Partial)
        /\ UNCHANGED <<mode, row, attempt, complete, sync, reader>>

\* The process dies; the system releases its lock.  A file being created is cut.
Crash(p) ==
    LET k == Kinds[pub[p].n]
    IN  /\ Fault /\ Active(p)
        /\ End(p, "dead")
        /\ lock' = IF lock = p THEN Nothing ELSE lock
        /\ \/ UNCHANGED store
           \/ pub[p].pc = "write" /\ Put(k, Partial)
        /\ UNCHANGED <<mode, row, attempt, complete, sync, reader>>

---------------------------------------------------------------------------
(* sync_report_metadata, restricted to this report; again and again.       *)

SyncIdle == [pc |-> "list", listed |-> FALSE, seen |-> NoRow, built |-> NoRow]

\* The synchronisation goes on at l, with the row built so far.
SyncTo(l, built) ==
    sync' = [pc |-> l, listed |-> sync.listed, seen |-> sync.seen, built |-> built]

Listed == file["html"] # Nothing /\ ~Pending

SyncList ==
    /\ sync.pc = "list"
    /\ sync' = [pc |-> "rows", listed |-> Listed, seen |-> NoRow, built |-> NoRow]
    /\ UNCHANGED <<mode, store, row, attempt, complete, lock, pub, faults, reader>>

SyncRows ==
    /\ sync.pc = "rows"
    /\ sync' = [pc |-> "stamp", listed |-> sync.listed, seen |-> row, built |-> NoRow]
    /\ UNCHANGED <<mode, store, row, attempt, complete, lock, pub, faults, reader>>

\* A mutant of Outdated: only missing rows are built.
Missing == sync.seen = NoRow

\* The row seen is missing or of another time than the artifacts of now.
Outdated == sync.seen = NoRow \/ sync.seen.at # Mtime

\* A report listed before, and outdated: the stamp of its new row is read first.
SyncStamp ==
    /\ sync.pc = "stamp"
    /\ IF sync.listed /\ Mtime > 0 /\ Outdated
       THEN SyncTo("build", [of |-> Empty, at |-> Mtime])
       ELSE SyncTo("stale", sync.built)
    /\ UNCHANGED <<mode, store, row, attempt, complete, lock, pub, faults, reader>>

\* Then its metadata, from the files of now; none without the HTML.
SyncBuild ==
    /\ sync.pc = "build"
    /\ IF file["html"] # Nothing
       THEN SyncTo("upsert", [of |-> file, at |-> sync.built.at])
       ELSE SyncTo("stale", sync.built)
    /\ UNCHANGED <<mode, store, row, attempt, complete, lock, pub, faults, reader>>

SyncUpsert ==
    /\ sync.pc = "upsert"
    /\ row' = sync.built
    /\ SyncTo("stale", sync.built)
    /\ UNCHANGED <<mode, store, attempt, complete, lock, pub, faults, reader>>

\* The row seen of a report that was not listed, and is not hidden now, is stale.
SyncStale ==
    /\ sync.pc = "stale"
    /\ IF sync.seen # NoRow /\ ~sync.listed /\ ~Pending
       THEN SyncTo("delete", sync.built) ELSE sync' = SyncIdle
    /\ UNCHANGED <<mode, store, row, attempt, complete, lock, pub, faults, reader>>

SyncDelete ==
    /\ sync.pc = "delete"
    /\ row' = NoRow
    /\ sync' = SyncIdle
    /\ UNCHANGED <<mode, store, attempt, complete, lock, pub, faults, reader>>

---------------------------------------------------------------------------
(* load_storage_item: hidden before, loaded under the lock, hidden after?  *)
(* Readers are followed for create-only reports, the only ones that promise *)
(* them anything.                                                          *)

ReadIdle == [pc |-> "look", got |-> Nothing]

ReadLook ==
    /\ mode = "create" /\ reader.pc = "look"
    /\ ~Pending
    /\ reader' = [pc |-> "load", got |-> Nothing]
    /\ UNCHANGED <<mode, store, row, attempt, complete, lock, pub, faults, sync>>

ReadLoad ==
    /\ reader.pc = "load" /\ lock = Nothing
    /\ reader' = IF file["html"] = Nothing THEN ReadIdle
                 ELSE [pc |-> "again", got |-> file["html"]]
    /\ UNCHANGED <<mode, store, row, attempt, complete, lock, pub, faults, sync>>

\* A mutant of ReadAgain: the second look is left out.
ReadOnce ==
    /\ reader.pc = "again"
    /\ reader' = [pc |-> "look", got |-> reader.got]
    /\ UNCHANGED <<mode, store, row, attempt, complete, lock, pub, faults, sync>>

ReadAgain ==
    /\ reader.pc = "again"
    /\ reader' = IF Pending THEN ReadIdle ELSE [pc |-> "look", got |-> reader.got]
    /\ UNCHANGED <<mode, store, row, attempt, complete, lock, pub, faults, sync>>

---------------------------------------------------------------------------
Init == /\ mode \in {"overwrite", "create"}
        /\ file = Empty
        /\ stamp = [k \in KindSet |-> 0] /\ clock = 0
        /\ row = NoRow
        /\ attempt = FALSE /\ complete = FALSE
        /\ lock = Nothing
        /\ pub = [p \in Publishers |-> Idle]
        /\ faults = 0
        /\ sync = SyncIdle
        /\ reader = ReadIdle

Overwrite(p) == Begin(p) \/ Save(p) \/ Upsert(p) \/ Recover(p) \/ Raise(p)

CreateOnly(p) == \/ Enter(p) \/ Exists(p) \/ MarkAttempt(p) \/ CreateFile(p)
                 \/ Insert(p) \/ Complete(p)

Synchronise == \/ SyncList \/ SyncRows \/ SyncStamp \/ SyncBuild \/ SyncUpsert \/ SyncStale
               \/ SyncDelete

Read == ReadLook \/ ReadLoad \/ ReadAgain

Next == \/ \E p \in Publishers : Overwrite(p) \/ CreateOnly(p) \/ Crash(p)
        \/ Synchronise
        \/ Read

Spec == Init /\ [][Next]_vars

\* Every listing of the history synchronises again; publishers may stop.
FairSpec == Spec /\ WF_vars(Synchronise)

---------------------------------------------------------------------------
(* Properties.                                                             *)

Rows == [of : [KindSet -> Contents], at : Nat]

\* Every variable stays in its type; a part-written file belongs to create-only
\* publications alone, and their row never changes hands.
TypeOK ==
    /\ mode \in {"overwrite", "create"}
    /\ file \in [KindSet -> IF mode = "create" THEN Contents
                            ELSE Publishers \cup {Nothing}]
    /\ stamp \in [KindSet -> 0..clock] /\ clock \in Nat
    /\ row \in Rows
    /\ attempt \in BOOLEAN /\ complete \in BOOLEAN
    /\ lock \in Publishers \cup {Nothing}
    /\ pub \in [Publishers ->
                  [pc : {"idle", "save", "upsert", "recover", "exists", "attempt",
                         "write", "insert", "complete", "done", "failed", "broken",
                         "refused", "dead"},
                   n : 0..4, prev : [KindSet -> Contents], bad : BOOLEAN]]
    /\ faults \in 0..MaxFaults
    /\ sync \in [pc : {"list", "rows", "stamp", "build", "upsert", "stale", "delete"},
                 listed : BOOLEAN, seen : Rows, built : Rows]
    /\ reader \in [pc : {"look", "load", "again"}, got : Contents]

\* All artifacts are those of p.
Whole(p) == \A k \in KindSet : file[k] = p

\* A create-only report that is not hidden is whole or not there at all, and the
\* row that lists it, if any, is of the same publisher, whatever write, insert or
\* marker failed, however uncertain, and whoever died.
VisibleIsWhole ==
    mode = "create" /\ ~Pending =>
        \/ \E p \in Publishers : Whole(p) /\ row.of \in {Empty, file}
        \/ file = Empty /\ row = NoRow

\* What a reader is given of a create-only report is of a whole bundle, also when
\* the publication began, or died, between its look and its load.
ReadsWhole ==
    mode = "create" /\ reader.pc = "look" /\ reader.got # Nothing =>
        reader.got \in Publishers /\ Whole(reader.got)

\* An ordinary publication that raises, and whose recovery met no error, leaves
\* every artifact as it found it, a bundle of an earlier attempt included.
FailedRestores ==
    [][\A p \in Publishers :
         pub[p].pc = "recover" /\ pub'[p].pc = "failed" => file = pub[p].prev]_vars

\* Once nobody publishes, the synchronisations bring the index in line with the
\* files for ever: rows they wrote from artifacts since replaced or removed, or
\* deleted although the report had just been published, are healed.  A bundle that
\* lost an artifact to a broken recovery keeps a row, which may still show it:
\* the stamp of a row is the latest of its files and tells no removal.
IndexHeals ==
    <>[](\/ Pending
         \/ file["html"] = Nothing /\ row = NoRow
         \/ /\ file["html"] # Nothing /\ row # NoRow
            /\ (\A k \in KindSet : file[k] # Nothing) => row.of = file)
=============================================================================

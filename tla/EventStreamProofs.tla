------------------------- MODULE EventStreamProofs -------------------------
(***************************************************************************)
(* Proofs about EventStream, for any pages, impatient or not, any number   *)
(* of retries and faults, and a log of any length.                         *)
(*                                                                         *)
(* Replay follows the cursor of a stream.  That a page is told the truth   *)
(* needs to know where the worker is when the row has ended (RowEnded),    *)
(* what an update that is under way can be (Pending), and that nothing was *)
(* said of the job, in the log or by a stream, that is not so (Truthful).  *)
(***************************************************************************)
EXTENDS EventStream, TLAPS

(* What one page can do, its connection included. *)
Page(c) == Stream(c) \/ Disconnect(c) \/ LoopRaises(c) \/ PersistRaises(c)

(* Who is about to append an event, or to say one, knows which. *)
Speaking ==
    /\ \A r \in Requesters : apc[r] = "tell" => note[r] # "none"
    /\ \A c \in Pages : spc[c] \in {"look", "append", "say"} => verdict[c] \in Ends

Shape == TypeOK /\ Speaking

(* An event that was sent was heard; it was the end, or the stream goes on. *)
Heard(c) == heard' = [heard EXCEPT ![c] = Append(@, cursor[c] + 1)]

Ended(c) == /\ Heard(c) /\ Close(c)
            /\ log[cursor[c] + 1] \in Ends /\ told' = [told EXCEPT ![c] = log[cursor[c] + 1]]

Went(c) == /\ Heard(c) /\ UNCHANGED <<told, up, upto, verdict>>
           /\ spc' = [spc EXCEPT ![c] = IF cursor[c] + 1 = upto[c] THEN "top" ELSE "send"]
           /\ cursor' = [cursor EXCEPT ![c] = cursor[c] + 1]

-----------------------------------------------------------------------------
(* Types. *)

(* The three outcomes of sending an event. *)
LEMMA SendCases ==
  ASSUME NEW c \in Pages, Send(c)
  PROVE  Ended(c) \/ Went(c) \/ (Close(c) /\ UNCHANGED pageVars)
  BY Zenon DEF Send, Ended, Went, Heard, Go

(* Every UPDATE of the store turns a row into a row. *)
LEMMA AppliedIsRow ==
  ASSUME NEW r \in Row, NEW s \in Statements
  PROVE  Applied(r, s) \in Row
  BY DEF Applied, Row, Statements, Active, Terminal

(* What the worker and the requests choose are statements of the store. *)
LEMMA ChoicesAreStatements ==
  /\ AbandonChoice(row) \in {"abandon", "skip"}
  /\ CancelChoice(row) \in {"close", "flag", "skip"}
  /\ \A g : UpdateChoice(row, g) \in {"skip", "cancelled", g}
  BY DEF AbandonChoice, CancelChoice, UpdateChoice

(* The first state is well typed. *)
LEMMA InitShape == Init => Shape
  BY BoundAssumption, PagesAssumption
     DEF Init, Shape, Speaking, TypeOK, NewRow, Row, Active, Terminal, Statements, Requesters, Ends

(* The worker keeps the types. *)
LEMMA WorkerTypes == ASSUME TypeOK, Worker PROVE TypeOK'
<1> USE DEF TypeOK
<1> DEFINE Log == {"status", "done", "error"}
<1>1. \A e \in Log : Append(log, e) \in Seq(Log)
  OBVIOUS
<1>2. CASE Take
  BY <1>2 DEF Take, dbVars, apiVars, streamVars, pageVars
<1>3. CASE Select
  <2>1. set' \in Statements
    BY <1>3, ChoicesAreStatements DEF Select, Statements
  <2> QED BY <1>3, <2>1 DEF Select, dbVars, apiVars, streamVars, pageVars
<1>4. CASE Update
  <2>1. row' \in Row /\ set' \in Statements
    BY <1>4, AppliedIsRow DEF Update, Statements
  <2> QED BY <1>4, <2>1 DEF Update, apiVars, streamVars, pageVars
<1>5. CASE Progress
  BY <1>5, <1>1 DEF Progress, workerVars, apiVars, streamVars, pageVars
<1>6. CASE Finish
  BY <1>6 DEF Finish, dbVars, apiVars, streamVars, pageVars
<1>7. CASE Tell
  <2>1. EventOf(goal) \in Log
    BY DEF EventOf
  <2> QED BY <1>7, <1>1, <2>1 DEF Tell, apiVars, streamVars, pageVars
<1>8. CASE Crash
  BY <1>8, BoundAssumption DEF Crash, Fault, dbVars, apiVars, streamVars, pageVars, Statements
<1>9. CASE Reconcile
  BY <1>9 DEF Reconcile, dbVars, apiVars, streamVars, pageVars
<1> QED BY <1>2, <1>3, <1>4, <1>5, <1>6, <1>7, <1>8, <1>9 DEF Worker

(* A step of the worker leaves what the others are about to say. *)
LEMMA WorkerShape == ASSUME Shape, Worker PROVE Shape'
<1>1. UNCHANGED <<apiVars, streamVars, pageVars>>
  BY DEF Worker, Take, Select, Update, Progress, Finish, Tell, Crash, Reconcile
<1> QED BY <1>1, WorkerTypes DEF Shape, Speaking, apiVars, streamVars

(* Requests keep the shape. *)
LEMMA RequestShape == ASSUME Shape, Request PROVE Shape'
<1> USE DEF Shape, Speaking, TypeOK
<1>1. User \in Requesters
  BY DEF Requesters
<1>2. CASE Ask
  BY <1>1, <1>2 DEF Ask, dbVars, workerVars, streamVars, pageVars
<1>3. CASE Supersede
  <2>1. row' \in Row
    BY <1>3, AppliedIsRow DEF Supersede, Statements
  <2> QED BY <1>1, <1>3, <2>1 DEF Supersede, workerVars, streamVars, pageVars
<1>4. ASSUME NEW r \in Requesters, CancelSelect(r) PROVE Shape'
  <2>1. CancelChoice(row) \in Statements
    BY ChoicesAreStatements DEF Statements
  <2> QED BY <1>4, <2>1 DEF CancelSelect, dbVars, workerVars, streamVars, pageVars
<1>5. ASSUME NEW r \in Requesters, CancelUpdate(r) PROVE Shape'
  <2>1. row' \in Row
    BY <1>5, AppliedIsRow DEF CancelUpdate
  <2>2. "skip" \in Statements
    BY DEF Statements
  <2> QED BY <1>5, <2>1, <2>2 DEF CancelUpdate, workerVars, streamVars, pageVars
<1>6. ASSUME NEW r \in Requesters, RequestTells(r) PROVE Shape'
  <2>1. log' \in Seq({"status", "done", "error"})
    BY <1>6 DEF RequestTells
  <2> QED BY <1>6, <2>1 DEF RequestTells, workerVars, streamVars, pageVars
<1> QED BY <1>2, <1>3, <1>4, <1>5, <1>6 DEF Request

(* So do the pages and their streams. *)
LEMMA PageShape == ASSUME Shape, NEW c \in Pages, Page(c) PROVE Shape'
<1> USE DEF Shape, Speaking, TypeOK, At, Go
<1>1. CASE Connect(c)
  <2>1. LastHeard(c) \in Nat
    BY DEF LastHeard
  <2> QED BY <1>1, <2>1 DEF Connect, dbVars, workerVars, apiVars, pageVars
<1>2. CASE Disconnect(c)
  BY <1>2, BoundAssumption DEF Disconnect, Fault, dbVars, workerVars, apiVars, pageVars
<1>3. CASE Abandoned(c)
  BY <1>3 DEF Abandoned, Close, Requesters, dbVars, workerVars, pageVars, apiVars
<1>4. CASE ReadLog(c)
  BY <1>4 DEF ReadLog, dbVars, workerVars, apiVars, pageVars
<1>5. CASE Send(c)
  <2>1. UNCHANGED <<dbVars, workerVars, apiVars>> /\ faults' \in Nat
    BY <1>5, BoundAssumption DEF Send, Fault
  <2>2. CASE Ended(c)
    <3> DEFINE event == log[cursor[c] + 1]
    <3>1. told' \in [Pages -> Ends \cup {"none"}]
      <4> HIDE DEF event
      <4>1. event \in Ends /\ told' = [told EXCEPT ![c] = event]
        BY <2>2 DEF Ended, event
      <4> QED BY <4>1
    <3>2. heard' \in [Pages -> Seq(Nat)]
      BY <2>2 DEF Ended, Heard
    <3> QED BY <2>1, <2>2, <3>1, <3>2 DEF Ended, Close, dbVars, workerVars, apiVars
  <2>4. CASE Close(c) /\ UNCHANGED pageVars
    BY <2>1, <2>4 DEF Close, dbVars, workerVars, apiVars, pageVars
  <2>3. CASE Went(c)
    BY <2>1, <2>3 DEF Went, Heard, dbVars, workerVars, apiVars
  <2> QED BY <1>5, <2>2, <2>3, <2>4, SendCases
<1>6. CASE ReadRow(c)
  <2> DEFINE v == IF row.status = "done" THEN "done" ELSE "error"
  <2>1. v \in Ends
    BY DEF Ends
  <2>2. CASE row.status \in Terminal
    <3>1. verdict' = [verdict EXCEPT ![c] = v] /\ spc' = [spc EXCEPT ![c] = "look"]
      BY <1>6, <2>2 DEF ReadRow
    <3> QED BY <1>6, <2>1, <3>1 DEF ReadRow, dbVars, workerVars, apiVars, pageVars
  <2>3. CASE row.status \notin Terminal
    BY <1>6, <2>3 DEF ReadRow, dbVars, workerVars, apiVars, pageVars
  <2> QED BY <2>2, <2>3
<1>7. CASE Look(c)
  BY <1>7 DEF Look, dbVars, workerVars, apiVars, pageVars
<1>8. CASE Persist(c)
  <2>1. log' \in Seq({"status", "done", "error"})
    BY <1>8 DEF Persist, Ends
  <2> QED BY <1>8, <2>1 DEF Persist, workerVars, apiVars, pageVars
<1>9. CASE LoopRaises(c)
  BY <1>9, BoundAssumption DEF LoopRaises, Close, Fault, dbVars, workerVars, apiVars, pageVars
<1>10. CASE PersistRaises(c)
  <2>1. log' \in Seq({"status", "done", "error"})
    <3>1. spc[c] = "append" => verdict[c] \in {"done", "error"}
      BY DEF Ends
    <3>2. log' = log \/ (spc[c] = "append" /\ log' = Append(log, verdict[c]))
      BY <1>10 DEF PersistRaises
    <3>3. \A e \in {"done", "error"} : Append(log, e) \in Seq({"status", "done", "error"})
      OBVIOUS
    <3> QED BY <3>1, <3>2, <3>3
  <2> QED BY <1>10, <2>1, BoundAssumption DEF PersistRaises, Fault, workerVars, apiVars, pageVars
<1>11. CASE Say(c)
  BY <1>11 DEF Say, Close, Ends, dbVars, workerVars, apiVars
<1> QED BY <1>1, <1>2, <1>3, <1>4, <1>5, <1>6, <1>7, <1>8, <1>9, <1>10, <1>11 DEF Page, Stream

(* No step of the system breaks the shape, nor does a stutter. *)
LEMMA NextShape == ASSUME Shape, [Next]_vars PROVE Shape'
<1>1. CASE UNCHANGED vars
  BY <1>1 DEF vars, dbVars, workerVars, apiVars, streamVars, pageVars, Shape, Speaking, TypeOK
<1> QED BY <1>1, WorkerShape, RequestShape, PageShape DEF Next, Page

(* The shape, of which the types are a part, for any pages and bounds. *)
THEOREM ShapeAlways == Spec => []Shape
  BY InitShape, NextShape, PTL DEF Spec

(* Rows, log, worker, requests, streams and pages are well typed. *)
THEOREM TypesAlways == Spec => []TypeOK
  BY ShapeAlways, PTL DEF Shape
-----------------------------------------------------------------------------
(* The replay. *)

(* A page has heard the events up to the cursor of its stream, and a stream *)
(* sends what it has read of the log.                                       *)
Replay ==
    /\ ReplayExact
    /\ \A c \in Pages : /\ spc[c] # "off" => cursor[c] = Len(heard[c])
                        /\ spc[c] = "send" => cursor[c] < upto[c]
                        /\ upto[c] <= Len(log)

(* The log is only appended to. *)
LEMMA LogGrows == ASSUME Shape, Next PROVE log' = log \/ \E e \in Ends \cup {"status"} : log' = Append(log, e)
<1> USE DEF Ends
<1>1. CASE Worker
  <2>1. EventOf(goal) \in Ends \cup {"status"}
    BY DEF EventOf
  <2> QED BY <1>1, <2>1 DEF Worker, Take, Select, Update, Progress, Finish, Tell, Crash, Reconcile, dbVars
<1>2. CASE Request
  <2>1. ASSUME NEW r \in Requesters, RequestTells(r) PROVE note[r] \in Ends \cup {"status"}
    BY <2>1 DEF RequestTells, Shape, TypeOK, Speaking
  <2> QED BY <1>2, <2>1 DEF Request, Ask, Supersede, CancelSelect, CancelUpdate, RequestTells, dbVars
<1>3. ASSUME NEW c \in Pages, Page(c)
      PROVE  log' = log \/ \E e \in Ends \cup {"status"} : log' = Append(log, e)
  <2>1. log' = log \/ (log' = Append(log, verdict[c]) /\ spc[c] = "append")
    BY <1>3, Zenon DEF Page, Stream, Connect, Disconnect, Abandoned, ReadLog, Send, ReadRow, Look, Persist,
       LoopRaises, PersistRaises, Say, dbVars, At
  <2> QED BY <2>1 DEF Shape, Speaking
<1> QED BY <1>1, <1>2, <1>3 DEF Next, Page

(* A log that grew keeps its length and its events. *)
LEMMA GrownLog ==
  ASSUME Shape, log' = log \/ \E e \in Ends \cup {"status"} : log' = Append(log, e)
  PROVE  Len(log) \in Nat /\ Len(log') \in Nat /\ Len(log) <= Len(log')
  BY DEF Shape, TypeOK

(* No step of a stream disturbs the replay of its page. *)
LEMMA PageReplay == ASSUME Shape, Shape', Replay, NEW c \in Pages, Page(c), Len(log) <= Len(log') PROVE Replay'
<1> USE DEF Shape, Replay, ReplayExact, TypeOK
<1>1. Len(log) \in Nat /\ Len(log') \in Nat /\ Len(heard[c]) \in Nat /\ cursor[c] \in Nat /\ upto[c] \in Nat
  OBVIOUS
<1>2. \A d \in Pages : upto[d] <= Len(log')
  BY <1>1
<1>3. ASSUME Close(c), heard' = heard PROVE Replay'
  BY <1>1, <1>2, <1>3 DEF Close, Go
<1>4. ASSUME NEW pc \in {"top", "row", "look", "append", "say"}, spc[c] # "off", spc' = [spc EXCEPT ![c] = pc],
             UNCHANGED <<cursor, upto, heard>>
      PROVE  Replay'
  BY <1>1, <1>2, <1>4
<1>5. CASE Connect(c)
  <2>1. LastHeard(c) = Len(heard[c])
    <3>1. CASE heard[c] = <<>>
      BY <3>1 DEF LastHeard
    <3>2. CASE heard[c] # <<>>
      <4> DEFINE n == Len(heard[c])
      <4>1. n \in 1..n /\ heard[c] = [i \in 1..n |-> i]
        BY <3>2, <1>1
      <4>2. LastHeard(c) = heard[c][n]
        BY <3>2 DEF LastHeard
      <4>3. [i \in 1..n |-> i][n] = n
        <5> HIDE DEF n
        <5> QED BY <4>1
      <4> QED BY <4>1, <4>2, <4>3, Zenon
    <3> QED BY <3>1, <3>2
  <2> QED BY <1>1, <1>2, <1>5, <2>1 DEF Connect, Go, pageVars
<1>6. CASE Disconnect(c)
  BY <1>2, <1>6 DEF Disconnect, pageVars
<1>7. CASE Abandoned(c) \/ LoopRaises(c) \/ Say(c)
  BY <1>3, <1>7 DEF Abandoned, LoopRaises, Say, pageVars
<1>8. CASE ReadLog(c)
  BY <1>1, <1>2, <1>8 DEF ReadLog, Go, At, pageVars, dbVars
<1>9. CASE Send(c)
  <2> DEFINE n == Len(heard[c])
  <2>1. spc[c] = "send" /\ cursor[c] = n /\ n + 1 <= upto[c]
    BY <1>1, <1>9 DEF Send, At
  <2>2. ASSUME Heard(c)
        PROVE  /\ \A d \in Pages : heard'[d] = [i \in 1..Len(heard'[d]) |-> i]
               /\ Len(heard'[c]) = n + 1 /\ \A d \in Pages \ {c} : heard'[d] = heard[d]
    <3>1. heard'[c] = Append(heard[c], n + 1) /\ \A d \in Pages \ {c} : heard'[d] = heard[d]
      BY <2>1, <2>2 DEF Heard
    <3>2. Append(heard[c], n + 1) = [i \in 1..(n + 1) |-> i] /\ Len(Append(heard[c], n + 1)) = n + 1
      BY <1>1
    <3> QED BY <3>1, <3>2
  <2>3. CASE Ended(c)
    BY <1>1, <1>2, <2>2, <2>3 DEF Ended, Close, Go
  <2>4. CASE Went(c)
    BY <1>1, <1>2, <2>1, <2>2, <2>4 DEF Went
  <2> QED BY <1>3, <1>9, <2>3, <2>4, SendCases DEF pageVars
<1>10. CASE ReadRow(c) \/ Look(c) \/ Persist(c) \/ PersistRaises(c)
  BY <1>4, <1>10 DEF ReadRow, Look, Persist, PersistRaises, Go, At, pageVars
<1> QED BY <1>5, <1>6, <1>7, <1>8, <1>9, <1>10 DEF Page, Stream

(* Nor does any other step. *)
LEMMA NextReplay == ASSUME Shape, Replay, [Next]_vars PROVE Replay'
<1>1. CASE UNCHANGED vars
  BY <1>1 DEF vars, dbVars, streamVars, pageVars, Replay, ReplayExact
<1>2. CASE Next
  <2>1. Len(log) \in Nat /\ Len(log') \in Nat /\ Len(log) <= Len(log')
    BY <1>2, LogGrows, GrownLog
  <2>2. CASE Worker \/ Request
    <3>1. UNCHANGED <<streamVars, pageVars>>
      BY <2>2 DEF Worker, Take, Select, Update, Progress, Finish, Tell, Crash, Reconcile,
         Request, Ask, Supersede, CancelSelect, CancelUpdate, RequestTells
    <3>2. \A c \in Pages : upto[c] <= Len(log')
      BY <2>1 DEF Replay, Shape, TypeOK
    <3> QED BY <3>1, <3>2 DEF streamVars, pageVars, Replay, ReplayExact
  <2> QED BY <1>2, <2>1, <2>2, PageReplay, NextShape DEF Next, Page
<1> QED BY <1>1, <1>2

(* The replay is exact from the beginning. *)
LEMMA InitReplay == Init => Replay
  BY DEF Init, Replay, ReplayExact

(* A page hears the events of the log each once and in order, over any      *)
(* number of connections, pages, faults and events.                         *)
THEOREM ReplayExactAlways == Spec => []ReplayExact
<1>1. Spec => []Replay
  BY ShapeAlways, InitReplay, NextReplay, PTL DEF Spec
<1> QED BY <1>1, PTL DEF Replay
-----------------------------------------------------------------------------
(* The truth. *)

(* The end e was said: in the log, or by a stream to its page. *)
Said(e) == \/ \E i \in 1..Len(log) : log[i] = e
           \/ \E c \in Pages : verdict[c] = e \/ told[c] = e

(* The row allows "done", or "error", to be said of the job. *)
DoneRow  == row.status = "done" \/ (row.status = "cancelled" /\ row.cancel)
ErrorRow == row.status = "error" \/ row.cancel

(* The worker will not update the row any more, and tells "done" at most. *)
PastDone == wpc \in {"boot", "over"} \/ (wpc = "tell" /\ goal = "done")

(* Where the worker is when the row has ended. *)
RowEnded ==
    /\ row.status = "cancelled" => row.cancel
    /\ row.status = "done" => PastDone
    /\ row.status = "error" =>
          wpc \in {"boot", "over"} \/ (wpc = "tell" /\ goal \in {"error", "abandon"})

(* What an update that is under way can be. *)
Pending ==
    /\ wpc \in {"select", "update", "tell"} /\ goal = "cancelled" => row.cancel
    /\ wpc = "update" => set \in IF goal = "abandon" THEN {"abandon"} ELSE {goal, "cancelled", "skip"}
    /\ wpc = "update" /\ set = "cancelled" => row.cancel
    /\ wpc = "update" /\ set = "skip" => row.status = "cancelled"
    /\ wpc = "tell" => goal # "running"
    /\ \A r \in Requesters : aset[r] \in {"close", "flag", "skip"}

(* What was said, or is about to be, is so. *)
Truthful ==
    /\ Said("done") => DoneRow /\ PastDone
    /\ wpc = "tell" /\ goal = "done" => DoneRow
    /\ Said("error") => ErrorRow
    /\ wpc = "tell" /\ goal \notin {"done", "waiting_retry"} => ErrorRow
    /\ \A r \in Requesters : note[r] = "error" => ErrorRow

Truth == row.status # "absent" /\ RowEnded /\ Pending /\ Truthful

(* The two fields of a row after a statement. *)
LEMMA AppliedFields ==
  ASSUME NEW r \in Row, NEW s \in Statements
  PROVE  /\ Applied(r, s).status = IF s \in {"flag", "skip"} THEN r.status
                                   ELSE IF s = "close" THEN "cancelled"
                                   ELSE IF s = "abandon" THEN "error" ELSE s
         /\ Applied(r, s).cancel <=> r.cancel \/ s \in {"close", "flag", "abandon"}
  BY DEF Applied, Row

(* What is said grows with the log, and with nothing else of these. *)
LEMMA SaidSame == ASSUME NEW e, UNCHANGED <<log, verdict, told>> PROVE Said(e)' <=> Said(e)
  BY DEF Said

LEMMA SaidAppended ==
  ASSUME Shape, NEW e, NEW x \in {"status", "done", "error"}, UNCHANGED <<verdict, told>>, log' = Append(log, x)
  PROVE  Said(e)' => Said(e) \/ x = e
<1>1. Len(log') = Len(log) + 1 /\ Len(log) \in Nat
  BY DEF Shape, TypeOK
<1>2. \A i \in 1..Len(log') : log'[i] = IF i = Len(log) + 1 THEN x ELSE log[i]
  BY DEF Shape, TypeOK
<1>3. ASSUME NEW i \in 1..Len(log'), log'[i] = e PROVE Said(e) \/ x = e
  <2>1. CASE i = Len(log) + 1
    BY <1>2, <1>3, <2>1
  <2>2. CASE i # Len(log) + 1
    BY <1>1, <1>2, <1>3, <2>2 DEF Said
  <2> QED BY <2>1, <2>2
<1> QED BY <1>3 DEF Said

(* Nothing is said of a new job. *)
LEMMA InitTruth == Init => Truth
  BY DEF Init, Truth, RowEnded, Pending, Truthful, Said, NewRow, PastDone, DoneRow, ErrorRow
(* The worker keeps the truth. *)
LEMMA WorkerTruth == ASSUME Shape, Truth, Worker PROVE Truth'
<1> USE DEF Truth, RowEnded, Pending, Truthful, PastDone, DoneRow, ErrorRow
<1>1. /\ verdict' = verdict /\ told' = told /\ note' = note /\ aset' = aset
      /\ row \in Row /\ set \in Statements /\ log \in Seq({"status", "done", "error"})
  BY DEF Worker, Take, Select, Update, Progress, Finish, Tell, Crash, Reconcile,
     apiVars, streamVars, pageVars, Shape, TypeOK
<1>2. log' = log => \A e : Said(e)' <=> Said(e)
  BY <1>1, SaidSame
<1>3. row.status \in Active \cup Terminal
  BY <1>1 DEF Row
<1> USE DEF Active, Terminal
<1>4. CASE Take
  BY <1>1, <1>2, <1>3, <1>4 DEF Take, dbVars
<1>5. CASE Select
  <2>1. row.status \notin {"done", "error"}
    BY <1>5 DEF Select
  <2>2. goal = "abandon" => set' = AbandonChoice(row)
    BY <1>5 DEF Select
  <2>3. goal # "abandon" => /\ set' \in {goal, "cancelled", "skip"}
                            /\ set' = "cancelled" => row.cancel
                            /\ set' = "skip" => row.status = "cancelled"
    <3>1. goal # "abandon" => set' = UpdateChoice(row, goal)
      BY <1>5 DEF Select
    <3>2. goal = "cancelled" => row.cancel
      BY <1>5 DEF Select
    <3>3. goal \in {"running", "waiting_retry", "error", "cancelled", "done", "abandon"}
      BY DEF Shape, TypeOK
    <3>4. CASE Settled(row, goal)
      BY <1>3, <2>1, <3>1, <3>4 DEF UpdateChoice, Settled
    <3>5. CASE ~Settled(row, goal) /\ goal = "done" /\ row.cancel
      BY <3>1, <3>5 DEF UpdateChoice
    <3>6. CASE ~Settled(row, goal) /\ ~(goal = "done" /\ row.cancel)
      BY <3>1, <3>2, <3>3, <3>6 DEF UpdateChoice
    <3> QED BY <3>4, <3>5, <3>6
  <2> QED BY <1>1, <1>2, <1>3, <1>5, <2>1, <2>2, <2>3 DEF Select, dbVars, AbandonChoice
<1>6. CASE Update
  <2>1. /\ row'.status = IF set \in {"flag", "skip"} THEN row.status
                         ELSE IF set = "close" THEN "cancelled"
                         ELSE IF set = "abandon" THEN "error" ELSE set
        /\ row'.cancel <=> row.cancel \/ set \in {"close", "flag", "abandon"}
    BY <1>1, <1>6, AppliedFields DEF Update
  <2>2. wpc = "update" /\ goal' = goal /\ log' = log /\ wpc' = IF goal = "running" THEN "run" ELSE "tell"
    BY <1>6 DEF Update
  <2>3. ~Said("done")
    BY <2>2
  <2>4. row.status \notin {"done", "error"} /\ (row.status = "cancelled" => row.cancel) /\ row.status # "absent"
    BY <2>2
  <2>5. CASE set = "skip"
    BY <1>1, <1>2, <2>1, <2>2, <2>3, <2>4, <2>5
  <2>6. CASE set = "abandon"
    BY <1>1, <1>2, <2>1, <2>2, <2>3, <2>6
  <2>7. CASE set = "cancelled"
    BY <1>1, <1>2, <2>1, <2>2, <2>3, <2>7
  <2>8. CASE set = goal /\ set \notin {"skip", "abandon", "cancelled"}
    <3>1. row'.status = goal /\ goal \in {"running", "waiting_retry", "error", "done"} /\ (row.cancel => row'.cancel)
      BY <2>1, <2>2, <2>8 DEF Shape, TypeOK
    <3> QED BY <1>1, <1>2, <2>2, <2>3, <3>1
  <2> QED BY <2>2, <2>5, <2>6, <2>7, <2>8
<1>7. CASE Progress
  <2>1. row' = row /\ log' = Append(log, "status") /\ UNCHANGED workerVars
    BY <1>7 DEF Progress
  <2>2. \A e \in Ends : Said(e)' => Said(e)
    BY <1>1, <2>1, SaidAppended DEF Ends
  <2> QED BY <1>1, <2>1, <2>2 DEF workerVars, Ends
<1>8. CASE Finish
  BY <1>1, <1>2, <1>3, <1>8 DEF Finish, dbVars
<1>9. CASE Tell
  <2>1. EventOf(goal) \in {"status", "done", "error"}
    BY DEF EventOf
  <2>2. \A e : Said(e)' => Said(e) \/ EventOf(goal) = e
    BY <1>1, <1>9, <2>1, SaidAppended DEF Tell
  <2>3. /\ EventOf(goal) = "done" => goal = "done"
        /\ EventOf(goal) = "error" => goal \notin {"done", "waiting_retry"}
    BY DEF EventOf
  <2> QED BY <1>1, <1>3, <1>9, <2>2, <2>3 DEF Tell
<1>10. CASE Crash
  BY <1>1, <1>2, <1>3, <1>10 DEF Crash, dbVars
<1>11. CASE Reconcile
  BY <1>1, <1>2, <1>3, <1>11 DEF Reconcile, dbVars
<1> QED BY <1>4, <1>5, <1>6, <1>7, <1>8, <1>9, <1>10, <1>11 DEF Worker

(* A statement of a request leaves the truth: it closes the row, or flags it. *)
LEMMA RequestTruth == ASSUME Shape, Truth, Request PROVE Truth'
<1> USE DEF Truth, RowEnded, Pending, Truthful, PastDone, DoneRow, ErrorRow
<1>1. /\ verdict' = verdict /\ told' = told /\ UNCHANGED workerVars
      /\ row \in Row /\ log \in Seq({"status", "done", "error"})
  BY DEF Request, Ask, Supersede, CancelSelect, CancelUpdate, RequestTells,
     streamVars, pageVars, Shape, TypeOK
<1>2. log' = log => \A e : Said(e)' <=> Said(e)
  BY <1>1, SaidSame
<1>3. ASSUME NEW s \in {"close", "flag", "skip"}, row' = Applied(row, s), log' = log
      PROVE  /\ row'.status = IF s = "close" THEN "cancelled" ELSE row.status
             /\ row'.cancel <=> row.cancel \/ s # "skip"
  BY <1>1, <1>3, AppliedFields DEF Statements
<1>4. note \in [Requesters -> {"none", "status", "error"}] /\ aset \in [Requesters -> Statements]
  BY DEF Shape, TypeOK
<1>5. CASE Ask
  BY <1>1, <1>2, <1>5 DEF Ask, dbVars, workerVars
<1>6. CASE Supersede
  <2>1. row'.status = "cancelled" /\ row'.cancel /\ log' = log /\ aset' = aset
    BY <1>3, <1>6 DEF Supersede
  <2>2. row.status \notin {"done", "cancelled"}
    BY <1>6 DEF Supersede, Holds, Active
  <2> QED BY <1>1, <1>2, <1>4, <2>1, <2>2 DEF workerVars
<1>7. ASSUME NEW r \in Requesters, CancelSelect(r) PROVE Truth'
  <2>1. CancelChoice(row) \in {"close", "flag", "skip"}
    BY ChoicesAreStatements
  <2> QED BY <1>1, <1>2, <1>4, <1>7, <2>1 DEF CancelSelect, dbVars, workerVars
<1>8. ASSUME NEW r \in Requesters, CancelUpdate(r) PROVE Truth'
  <2>1. /\ row'.status = IF aset[r] = "close" THEN "cancelled" ELSE row.status
        /\ row'.cancel <=> row.cancel \/ aset[r] # "skip"
        /\ log' = log /\ note' = note
    BY <1>3, <1>8 DEF CancelUpdate
  <2>2. \A q \in Requesters : aset'[q] \in {"close", "flag", "skip"}
    BY <1>4, <1>8 DEF CancelUpdate
  <2> QED BY <1>1, <1>2, <2>1, <2>2 DEF workerVars
<1>9. ASSUME NEW r \in Requesters, RequestTells(r) PROVE Truth'
  <2>1. note[r] \in {"status", "error"} /\ log' = Append(log, note[r]) /\ row' = row /\ aset' = aset
    BY <1>4, <1>9 DEF RequestTells, Shape, Speaking
  <2>2. \A e : Said(e)' => Said(e) \/ note[r] = e
    BY <1>1, <2>1, SaidAppended
  <2>3. \A q \in Requesters : note'[q] = "error" => note[q] = "error"
    BY <1>4, <1>9 DEF RequestTells
  <2> QED BY <1>1, <2>1, <2>2, <2>3 DEF workerVars
<1> QED BY <1>5, <1>6, <1>7, <1>8, <1>9 DEF Request

(* What a page or its stream says was said before, or is what the row says. *)
LEMMA PageSays ==
  ASSUME Shape, Replay, NEW c \in Pages, Page(c), NEW e \in Ends, Said(e)'
  PROVE  Said(e) \/ (row.status \in Terminal /\ e = IF row.status = "done" THEN "done" ELSE "error")
<1> USE DEF Shape, Speaking, TypeOK
<1>1. e # "none" /\ e # "status"
  BY DEF Ends
<1>2. ASSUME UNCHANGED <<log, told>>, \A d \in Pages : verdict'[d] \in {verdict[d], "none"} PROVE Said(e)
  BY <1>1, <1>2 DEF Said
<1>3. CASE Connect(c) \/ Disconnect(c) \/ ReadLog(c) \/ Look(c)
  BY <1>2, <1>3 DEF Connect, Disconnect, ReadLog, Look, dbVars, pageVars
<1>4. CASE Abandoned(c) \/ LoopRaises(c)
  BY <1>2, <1>4 DEF Abandoned, LoopRaises, Close, dbVars, pageVars
<1>5. CASE Send(c)
  <2>1. log' = log
    BY <1>5 DEF Send, dbVars
  <2>2. CASE Close(c) /\ UNCHANGED pageVars
    BY <1>2, <2>1, <2>2 DEF Close, pageVars
  <2>3. CASE Went(c)
    BY <1>2, <2>1, <2>3 DEF Went
  <2>4. CASE Ended(c)
    <3> DEFINE i == cursor[c] + 1
    <3>1. i \in 1..Len(log)
      <4>1. cursor[c] < upto[c] /\ upto[c] <= Len(log) /\ cursor[c] \in Nat /\ upto[c] \in Nat /\ Len(log) \in Nat
        BY <1>5 DEF Send, At, Replay
      <4> QED BY <4>1
    <3>2. told' = [told EXCEPT ![c] = log[i]] /\ verdict' = [verdict EXCEPT ![c] = "none"]
      BY <2>4 DEF Ended, Close
    <3> HIDE DEF i
    <3> QED BY <1>1, <2>1, <3>1, <3>2 DEF Said
  <2> QED BY <1>5, <2>2, <2>3, <2>4, SendCases
<1>6. CASE ReadRow(c)
  BY <1>2, <1>6 DEF ReadRow, Said, dbVars, pageVars
<1>7. CASE Persist(c) \/ PersistRaises(c)
  <2>1. told' = told /\ \A d \in Pages : verdict'[d] \in {verdict[d], "none"}
    BY <1>7 DEF Persist, PersistRaises, pageVars
  <2>2. log' = log \/ (log' = Append(log, verdict[c]) /\ verdict[c] \in {"done", "error"})
    BY <1>7 DEF Persist, PersistRaises, At, Ends
  <2>3. CASE log' = Append(log, verdict[c]) /\ verdict[c] \in {"done", "error"}
    <3>1. Len(log') = Len(log) + 1 /\ Len(log) \in Nat
      BY <2>3
    <3>2. \A i \in 1..Len(log') : log'[i] = IF i = Len(log) + 1 THEN verdict[c] ELSE log[i]
      BY <2>3
    <3>3. ASSUME NEW i \in 1..Len(log'), log'[i] = e PROVE Said(e)
      <4>1. CASE i = Len(log) + 1
        BY <3>2, <3>3, <4>1 DEF Said
      <4>2. CASE i # Len(log) + 1
        <5>1. i \in 1..Len(log) /\ log[i] = e
          BY <3>1, <3>2, <3>3, <4>2
        <5> QED BY <5>1 DEF Said
      <4> QED BY <4>1, <4>2
    <3> QED BY <1>1, <2>1, <3>3 DEF Said
  <2> QED BY <1>2, <2>1, <2>2, <2>3
<1>8. CASE Say(c)
  <2>1. log' = log /\ verdict' = [verdict EXCEPT ![c] = "none"] /\ (told' = told \/ told' = [told EXCEPT ![c] = verdict[c]])
    BY <1>8 DEF Say, Close, dbVars
  <2> QED BY <1>1, <2>1 DEF Said
<1> QED BY <1>3, <1>4, <1>5, <1>6, <1>7, <1>8 DEF Page, Stream

(* So pages and streams keep the truth. *)
LEMMA PageTruth == ASSUME Shape, Replay, Truth, NEW c \in Pages, Page(c) PROVE Truth'
<1> USE DEF Truth, RowEnded, Pending, Truthful, PastDone, DoneRow, ErrorRow
<1>1. UNCHANGED <<row, workerVars, aset, note>>
  BY DEF Page, Stream, Connect, Disconnect, Abandoned, ReadLog, Send, ReadRow, Look, Persist,
     LoopRaises, PersistRaises, Say, dbVars, apiVars
<1>2. \A e \in {"done", "error"} :
         Said(e)' => Said(e) \/ (row.status \in Terminal /\ e = IF row.status = "done" THEN "done" ELSE "error")
  BY PageSays DEF Ends
<1> QED BY <1>1, <1>2 DEF workerVars, Terminal

(* No step breaks the truth. *)
LEMMA NextTruth == ASSUME Shape, Replay, Truth, [Next]_vars PROVE Truth'
<1>1. CASE UNCHANGED vars
  BY <1>1, SaidSame DEF vars, dbVars, workerVars, apiVars, streamVars, pageVars,
     Truth, RowEnded, Pending, Truthful, PastDone, DoneRow, ErrorRow
<1> QED BY <1>1, WorkerTruth, RequestTruth, PageTruth DEF Next, Page

(* A page is told the truth about a job that has ended, whoever wrote the   *)
(* event, for any pages, requests, deaths of the worker and errors.         *)
THEOREM TellsTheRowAlways == Spec => []TellsTheRow
<1>1. Spec => [](Shape /\ Replay /\ Truth)
  BY InitShape, InitReplay, InitTruth, NextShape, NextReplay, NextTruth, PTL DEF Spec
<1>2. Shape /\ Truth => TellsTheRow
  BY DEF Truth, Truthful, Said, DoneRow, ErrorRow, TellsTheRow
<1> QED BY <1>1, <1>2, PTL
=============================================================================

-------------------------- MODULE SchemaInit_proofs --------------------------
(***************************************************************************)
(* Proofs about SchemaInit, for any threads, rows, keys and payloads and   *)
(* any number of faults.  SInv is inductive: FileInv relates the committed *)
(* database to the one the open transaction sees, and ThreadInv says how   *)
(* far each thread's init_db has brought its view of the database.         *)
(***************************************************************************)
EXTENDS SchemaInit, TLAPS

View(t) == IF writer = t THEN work ELSE file

Made == {"index", "decisions", "audit", "commit"}

FileInv ==
  /\ Sound(file) /\ Sound(work)
  /\ Grows(file, work)
  /\ work.columns = file.columns /\ Stored(work) = Stored(file)
  /\ writer = Nobody => work = file
  /\ cached => Migrated(file)

Progress(t) ==
  /\ pc[t] \in InitSteps \ {"create_table"} => "id" \in file.columns
  /\ pc[t] \in {"alter_print", "fetch", "update"} \cup Made => "idempotency_key" \in file.columns
  /\ pc[t] \in {"fetch", "update"} \cup Made => "request_fingerprint" \in file.columns
  /\ pc[t] = "update" => Unprinted(View(t)) \subseteq todo[t]
  /\ pc[t] \in Made => Unprinted(View(t)) = {}
  /\ pc[t] \in {"decisions", "audit", "commit"} =>
       "idx_requests_idempotency_key" \in View(t).objects
  /\ pc[t] \in {"audit", "commit"} => "decisions" \in View(t).objects
  /\ pc[t] = "commit" => "audit_events" \in View(t).objects

Bound(t) ==
  pc[t] = "done" /\ call[t] \in CreateCall /\ answer[t].code = 201 =>
    /\ answer[t].id \in Stored(file)
    /\ file.rows[answer[t].id].payload = call[t].payload
    /\ file.rows[answer[t].id].idempotency_key = call[t].key

ThreadInv(t) ==
  /\ seen[t] \subseteq file.columns
  /\ todo[t] \subseteq Stored(file)
  /\ writer = t => pc[t] \in {"update"} \cup Made
  /\ pc[t] # "idle" => call[t] \in CreateCall \cup {Probe}
  /\ pc[t] \in {"lookup", "insert"} => cached /\ call[t] \in CreateCall
  /\ Progress(t)
  /\ Bound(t)

SInv == TypeOK /\ FileInv /\ \A t \in Threads : ThreadInv(t)

USE DEF InitSteps, Made

-----------------------------------------------------------------------------
(***************************************************************************)
(* Facts about databases.                                                  *)
(***************************************************************************)
LEMMA GrowsRefl == ASSUME NEW base \in Database PROVE Grows(base, base)
  BY DEF Grows

(***************************************************************************)
(* A stored row has the fields of one.                                     *)
(***************************************************************************)
LEMMA RowFields ==
  ASSUME NEW base \in Database, NEW i \in Stored(base)
  PROVE  /\ i \in Ids /\ base.rows[i] \in Row
  BY DEF Database, Stored

(***************************************************************************)
(* What a view has, a view it has grown into has too.                      *)
(***************************************************************************)
LEMMA MigratedGrows ==
  ASSUME NEW old \in Database, NEW new \in Database, Migrated(old), Grows(old, new)
  PROVE  Migrated(new)
  BY DEF Migrated, Grows, Database

(***************************************************************************)
(* Adding columns and objects.                                             *)
(***************************************************************************)
LEMMA Widen ==
  ASSUME NEW base \in Database, Sound(base), NEW new \in Database, new.rows = base.rows,
         base.columns \subseteq new.columns, "id" \in new.columns,
         base.objects \subseteq new.objects
  PROVE  Sound(new) /\ Grows(base, new) /\ Stored(new) = Stored(base)
<1>1. new.rows = base.rows
  OBVIOUS
<1>2. Stored(new) = Stored(base) /\ Unprinted(new) = Unprinted(base)
  BY <1>1 DEF Stored, Unprinted
<1>3. \A key : Holders(new, key) = Holders(base, key)
  BY <1>1, <1>2 DEF Holders
<1>4. \A i \in Stored(new) : SoundRow(new, new.rows[i])
  BY <1>1, <1>2 DEF Sound, SoundRow
<1>5. Sound(new)
  BY <1>1, <1>3, <1>4 DEF Sound
<1> QED
  BY <1>1, <1>2, <1>5 DEF Grows

(***************************************************************************)
(* Filling in a fingerprint.                                               *)
(***************************************************************************)
LEMMA Fill ==
  ASSUME NEW base \in Database, Sound(base), "request_fingerprint" \in base.columns,
         NEW i \in Stored(base),
         NEW new, new = [base EXCEPT !.rows[i].request_fingerprint = base.rows[i].payload]
  PROVE  /\ new \in Database /\ Sound(new) /\ Grows(base, new)
         /\ Stored(new) = Stored(base) /\ new.columns = base.columns
         /\ new.objects = base.objects
         /\ Unprinted(new) \subseteq Unprinted(base) \ {i}
<1>1. i \in Ids /\ base.rows[i] \in Row /\ base.rows \in [Ids -> Row \cup {NoRow}]
  BY RowFields DEF Database
<1> DEFINE row == [base.rows[i] EXCEPT !.request_fingerprint = base.rows[i].payload]
<1>2. row \in Row /\ row # NoRow /\ row.idempotency_key = base.rows[i].idempotency_key
      /\ row.payload = base.rows[i].payload /\ row.request_fingerprint = base.rows[i].payload
  BY <1>1, SchemaAssumption DEF Row
<1>3. row.request_fingerprint # NoPrint
  BY <1>1, <1>2, SchemaAssumption DEF Row
<1>4. base.rows[i].request_fingerprint # NoPrint => row = base.rows[i]
  <2> SUFFICES ASSUME base.rows[i].request_fingerprint # NoPrint PROVE row = base.rows[i]
    OBVIOUS
  <2>1. base.rows[i].request_fingerprint = base.rows[i].payload
    BY DEF Sound, SoundRow
  <2> QED
    BY <1>1, <2>1 DEF Row
<1> HIDE DEF row
<1>5. new = [base EXCEPT !.rows = [base.rows EXCEPT ![i] = row]]
  BY <1>1 DEF row, Database
<1>6. /\ new.columns = base.columns /\ new.objects = base.objects
      /\ new.rows = [base.rows EXCEPT ![i] = row] /\ new \in Database
  BY <1>1, <1>2, <1>5 DEF Database
<1>7. new.rows[i] = row /\ \A j \in Ids \ {i} : new.rows[j] = base.rows[j]
  BY <1>1, <1>6
<1>8. Stored(new) = Stored(base)
  BY <1>1, <1>2, <1>7 DEF Stored
<1>9. Unprinted(new) \subseteq Unprinted(base) \ {i}
  BY <1>1, <1>3, <1>7, <1>8 DEF Unprinted, Stored
<1>10. Grows(base, new)
  BY <1>1, <1>2, <1>4, <1>6, <1>7, <1>8, <1>9 DEF Grows, Stored
<1>11. \A key : Holders(new, key) = Holders(base, key)
  BY <1>1, <1>2, <1>7, <1>8 DEF Holders, Stored
<1>12. \A j \in Stored(new) : SoundRow(new, new.rows[j])
  BY <1>1, <1>2, <1>6, <1>7, <1>8 DEF Sound, SoundRow, Stored
<1> QED
  BY <1>6, <1>8, <1>9, <1>10, <1>11, <1>12 DEF Sound

(***************************************************************************)
(* A new row with a free key and its fingerprint.                          *)
(***************************************************************************)
LEMMA NewRow ==
  ASSUME NEW base \in Database, Sound(base), base.columns = Columns,
         NEW i \in Ids \ Stored(base),
         NEW row \in Row, row.idempotency_key \in Keys, row.request_fingerprint = row.payload,
         Holders(base, row.idempotency_key) = {},
         NEW new \in Database, new.columns = base.columns, new.objects = base.objects,
         new.rows[i] = row, \A j \in Ids \ {i} : new.rows[j] = base.rows[j]
  PROVE  Sound(new) /\ Grows(base, new) /\ i \in Stored(new)
<1>1. row # NoRow /\ row.request_fingerprint # NoPrint /\ row.idempotency_key # NoKey
  BY SchemaAssumption DEF Row
<1>2. Stored(new) = Stored(base) \cup {i}
  BY <1>1 DEF Stored
<1>3. Unprinted(new) = Unprinted(base)
  BY <1>1, <1>2 DEF Unprinted, Stored
<1>4. Grows(base, new)
  BY <1>2, <1>3 DEF Grows, Stored
<1>5. \A k \in Keys : \A j, l \in Holders(new, k) : j = l
  <2> SUFFICES ASSUME NEW k \in Keys, NEW j \in Holders(new, k), NEW l \in Holders(new, k)
               PROVE  j = l
    OBVIOUS
  <2>1. \A m \in Holders(new, k) : m = i \/ m \in Holders(base, k)
    BY <1>2 DEF Holders, Stored
  <2>2. i \in Holders(new, k) => k = row.idempotency_key
    BY <1>1 DEF Holders
  <2>3. j \in Holders(base, k) /\ l \in Holders(base, k) => j = l
    BY DEF Sound
  <2> QED
    BY <2>1, <2>2, <2>3
<1>6. \A j \in Stored(new) : SoundRow(new, new.rows[j])
  BY <1>1, <1>2 DEF Sound, SoundRow, Stored, Columns
<1>7. Sound(new)
  BY <1>5, <1>6 DEF Sound, Columns
<1> QED
  BY <1>1, <1>2, <1>4, <1>7

(***************************************************************************)
(* A file that grew twice has grown.                                       *)
(***************************************************************************)
LEMMA GrowsTrans ==
  ASSUME NEW a \in Database, NEW b \in Database, NEW c \in Database, Grows(a, b), Grows(b, c)
  PROVE  Grows(a, c)
<1>1. \A i \in Stored(a) :
        /\ i \in Stored(b) /\ i \in Stored(c)
        /\ c.rows[i].idempotency_key = a.rows[i].idempotency_key
        /\ c.rows[i].payload = a.rows[i].payload
        /\ a.rows[i].request_fingerprint # NoPrint => c.rows[i] = a.rows[i]
  BY DEF Grows
<1> QED
  BY <1>1 DEF Grows

-----------------------------------------------------------------------------
(***************************************************************************)
(* How a step of one thread combines with the others.                      *)
(***************************************************************************)
Apart(t) ==
  \A u \in Threads \ {t} :
    /\ pc'[u] = pc[u] /\ call'[u] = call[u] /\ answer'[u] = answer[u]
    /\ seen'[u] = seen[u] /\ todo'[u] = todo[u]
    /\ writer = u <=> writer' = u
    /\ writer = u => work' = work

FileStep == FileInv' /\ Grows(file, file') /\ (cached => cached')

(***************************************************************************)
(* What a create relies on is not taken away by a file that grows.         *)
(***************************************************************************)
LEMMA BoundKept ==
  ASSUME TypeOK, TypeOK', NEW u \in Threads, Grows(file, file'), Bound(u),
         pc'[u] = pc[u], call'[u] = call[u], answer'[u] = answer[u]
  PROVE  Bound(u)'
  BY DEF Bound, Grows

(***************************************************************************)
(* A step of one thread keeps what the invariant says of another.          *)
(***************************************************************************)
LEMMA OthersKeep ==
  ASSUME SInv, TypeOK', NEW t \in Threads, FileStep, Apart(t), NEW u \in Threads \ {t}
  PROVE  ThreadInv(u)'
<1>1. ThreadInv(u) /\ TypeOK
  BY DEF SInv
<1>2. Bound(u)'
  BY <1>1, BoundKept DEF ThreadInv, FileStep, Apart
<1>3. /\ file.columns \subseteq file'.columns /\ Stored(file) \subseteq Stored(file')
  BY DEF FileStep, Grows
<1>4. Grows(View(u), View(u)')
  <2>1. CASE writer = u
    BY <1>1, <2>1, GrowsRefl DEF Apart, View, TypeOK
  <2>2. CASE writer # u
    BY <2>2 DEF Apart, View, FileStep
  <2> QED
    BY <2>1, <2>2
<1>5. /\ Unprinted(View(u)') \subseteq Unprinted(View(u))
      /\ View(u).objects \subseteq View(u)'.objects
  BY <1>4 DEF Grows
<1>6. Unprinted(View(u))' = Unprinted(View(u)')
  BY DEF Unprinted, Stored
<1>7. Progress(u)'
  BY <1>1, <1>3, <1>5, <1>6 DEF ThreadInv, Progress, Apart
<1> QED
  BY <1>1, <1>2, <1>3, <1>7 DEF ThreadInv, FileStep, Apart, Stored

(***************************************************************************)
(* So a step need only be examined for the thread that takes it.           *)
(***************************************************************************)
LEMMA Combine ==
  ASSUME SInv, TypeOK', NEW t \in Threads, FileStep, Apart(t), ThreadInv(t)'
  PROVE  SInv' /\ Grows(file, file')
<1>1. \A u \in Threads : ThreadInv(u)'
  BY OthersKeep
<1> QED
  BY <1>1 DEF SInv, FileStep

(***************************************************************************)
(* A statement that writes.                                                *)
(***************************************************************************)
LEMMA WriteStep ==
  ASSUME SInv, NEW t \in Threads, NEW base \in Database, Sound(base), Grows(work, base),
         writer = t => base.columns = work.columns /\ Stored(base) = Stored(work),
         Write(t, base), cached' = cached
  PROVE  /\ FileStep /\ work' = base /\ file' \in Database /\ writer' = writer
         /\ View(t) = work /\ View(t)' = base
         /\ writer = Nobody => file' = base
<1>1. /\ file \in Database /\ work \in Database /\ FileInv /\ Nobody \notin Threads
      /\ writer \in {t, Nobody}
  BY SchemaAssumption DEF SInv, TypeOK, Write
<1>2. CASE writer = t /\ file' = file
  <2>1. Grows(file, base)
    BY <1>1, GrowsTrans DEF FileInv
  <2>2. Grows(file, file)
    BY <1>1, GrowsRefl
  <2> QED
    BY <1>1, <1>2, <2>1, <2>2 DEF FileStep, FileInv, Write, View, Sound, Grows, Migrated,
       Stored, SoundRow, Holders, Unprinted
<1>3. CASE writer = Nobody /\ file' = base
  <2>1. work = file
    BY <1>1, <1>3 DEF FileInv
  <2>2. Grows(base, base)
    BY GrowsRefl
  <2>3. cached => Migrated(base)
    BY <1>1, <2>1, MigratedGrows DEF FileInv
  <2> QED
    BY <1>1, <1>3, <2>1, <2>2, <2>3 DEF FileStep, FileInv, Write, View, Sound, Grows,
       Migrated, Stored, SoundRow, Holders, Unprinted
<1> QED
  BY <1>1, <1>2, <1>3 DEF Write

(***************************************************************************)
(* A step that touches neither file nor cache is such a step.              *)
(***************************************************************************)
LEMMA QuietStep ==
  ASSUME SInv, UNCHANGED <<file, work, writer>>, cached' = cached
  PROVE  FileStep
<1>1. Grows(file, file') /\ FileInv
  BY GrowsRefl DEF SInv, TypeOK
<1> QED
  BY <1>1 DEF FileStep, FileInv, Sound, Grows, Migrated, Stored, SoundRow, Holders, Unprinted

-----------------------------------------------------------------------------
(***************************************************************************)
(* One lemma per step of init_db.                                          *)
(***************************************************************************)
LEMMA GetStoreKeeps ==
  ASSUME SInv, NEW t \in Threads, NEW request \in CreateCall \cup {Probe}, get_store(t, request)
  PROVE  SInv' /\ Grows(file, file')
<1>1. FileStep
  BY QuietStep DEF get_store
<1>2. TypeOK'
  BY DEF SInv, TypeOK, get_store, Use, Reply, Goto, Answer
<1>3. Apart(t)
  BY DEF SInv, TypeOK, get_store, Use, Reply, Goto, Apart
<1>4. ThreadInv(t) /\ pc[t] = "idle" /\ writer # t
  BY DEF SInv, ThreadInv, get_store
<1>5. ThreadInv(t)'
  <2>1. CASE ~cached
    BY <1>4, <2>1 DEF SInv, TypeOK, get_store, Goto, ThreadInv, Progress, Bound, Stored
  <2>2. CASE cached /\ request = Probe
    <3>1. Probe \notin CreateCall
      BY SchemaAssumption DEF Probe, CreateCall
    <3> QED
      BY <1>4, <2>2, <3>1 DEF SInv, TypeOK, get_store, Use, Reply, Goto, ThreadInv, Progress,
         Bound, Stored
  <2>3. CASE cached /\ request # Probe
    BY <1>4, <2>3 DEF SInv, TypeOK, get_store, Use, Goto, ThreadInv, Progress, Bound, Stored
  <2> QED
    BY <2>1, <2>2, <2>3
<1> QED
  BY <1>1, <1>2, <1>3, <1>5, Combine

(***************************************************************************)
(* CREATE TABLE makes the newest table or finds an older one.              *)
(***************************************************************************)
LEMMA CreateTableKeeps ==
  ASSUME SInv, NEW t \in Threads, CreateTable(t)
  PROVE  SInv' /\ Grows(file, file')
<1>1. /\ pc[t] = "create_table" /\ ThreadInv(t) /\ TypeOK /\ FileInv /\ writer # t
  BY DEF CreateTable, SInv, ThreadInv
<1>2. CASE file.columns = {}
  <2> DEFINE base == [work EXCEPT !.columns = Columns]
  <2>1. Write(t, base) /\ cached' = cached
    BY <1>2 DEF CreateTable
  <2>2. base \in Database /\ work \in Database
        /\ base.rows = work.rows /\ base.objects = work.objects
    BY <1>1 DEF TypeOK, Database
  <2>3. base.columns = Columns
    BY <1>1 DEF TypeOK, Database
  <2> HIDE DEF base
  <2>4. Sound(base) /\ Grows(work, base)
    BY <1>1, <2>2, <2>3, Widen DEF FileInv, Database, Columns
  <2>5. FileStep /\ file' = base /\ work' = base /\ writer' = writer
    BY <1>1, <2>1, <2>2, <2>4, WriteStep DEF Write
  <2>6. TypeOK'
    BY <1>1, <2>2, <2>5 DEF CreateTable, TypeOK, Goto, locals
  <2>7. Apart(t)
    BY <1>1, <2>1, SchemaAssumption DEF CreateTable, TypeOK, Goto, Apart, Write, locals
  <2>8. ThreadInv(t)'
    BY <1>1, <2>3, <2>5 DEF CreateTable, TypeOK, Goto, ThreadInv, Progress, Bound, Columns, FileStep,
       Grows, locals
  <2> QED
    BY <2>5, <2>6, <2>7, <2>8, Combine
<1>3. CASE file.columns # {}
  <2>1. FileStep /\ UNCHANGED <<file, work, writer>>
    BY <1>3, QuietStep DEF CreateTable
  <2>2. TypeOK' /\ Apart(t)
    BY <1>1, <2>1 DEF CreateTable, TypeOK, Goto, Apart, locals
  <2>3. "id" \in file.columns
    BY <1>1, <1>3 DEF FileInv, Sound
  <2>4. ThreadInv(t)'
    BY <1>1, <2>1, <2>3 DEF CreateTable, TypeOK, Goto, ThreadInv, Progress, Bound, Stored, locals
  <2> QED
    BY <2>1, <2>2, <2>4, Combine
<1> QED
  BY <1>2, <1>3

(***************************************************************************)
(* PRAGMA table_info tells which columns are there.                        *)
(***************************************************************************)
LEMMA ReadColumnsKeeps ==
  ASSUME SInv, NEW t \in Threads, ReadColumns(t)
  PROVE  SInv' /\ Grows(file, file')
<1>1. /\ pc[t] = "table_info" /\ ThreadInv(t) /\ TypeOK
  BY DEF ReadColumns, SInv
<1>2. FileStep
  BY QuietStep DEF ReadColumns
<1>3. TypeOK' /\ Apart(t)
  BY <1>1 DEF ReadColumns, TypeOK, Goto, Apart, Database
<1>4. ThreadInv(t)'
  BY <1>1 DEF ReadColumns, TypeOK, Goto, ThreadInv, Progress, Bound, Stored
<1> QED
  BY <1>2, <1>3, <1>4, Combine

(***************************************************************************)
(* A statement that fails rolls back what is not committed.                *)
(***************************************************************************)
LEMMA FailKeeps ==
  ASSUME SInv, NEW t \in Threads, pc[t] \in InitSteps, Fail(t), faults' \in Nat
  PROVE  SInv' /\ Grows(file, file')
<1>1. /\ ThreadInv(t) /\ TypeOK /\ FileInv
  BY DEF SInv
<1>2. /\ file' = file /\ cached' = cached /\ call' = call
      /\ work' \in {work, file} /\ writer' \in {writer, Nobody}
      /\ writer' # t
      /\ writer = t => work' = file /\ writer' = Nobody
      /\ writer # t => work' = work /\ writer' = writer
  BY SchemaAssumption DEF Fail
<1>3. /\ pc' = [pc EXCEPT ![t] = "done"]
      /\ answer' = [answer EXCEPT ![t] = [code |-> 500]]
      /\ \A u \in Threads : seen'[u] = IF u = t THEN {} ELSE seen[u]
      /\ \A u \in Threads : todo'[u] = IF u = t THEN {} ELSE todo[u]
  BY DEF Fail, Reply, Goto, Forget
<1>4. FileStep
  <2>1. Grows(file, file)
    BY <1>1, GrowsRefl DEF TypeOK
  <2> QED
    BY <1>1, <1>2, <2>1 DEF FileStep, FileInv, Sound, Grows, Migrated, Stored, SoundRow,
       Holders, Unprinted
<1>5. TypeOK'
  <2>1. /\ seen' \in [Threads -> SUBSET Columns] /\ todo' \in [Threads -> SUBSET Ids]
    BY <1>1 DEF TypeOK, Fail, Forget
  <2>2. [code |-> 500] \in Answer
    BY DEF Answer
  <2> QED
    BY <1>1, <1>2, <1>3, <2>1, <2>2 DEF TypeOK
<1>6. Apart(t)
  BY <1>1, <1>2, <1>3, SchemaAssumption DEF TypeOK, Apart
<1>7. ThreadInv(t)'
  BY <1>1, <1>2, <1>3 DEF TypeOK, ThreadInv, Progress, Bound
<1> QED
  BY <1>4, <1>5, <1>6, <1>7, Combine

(***************************************************************************)
(* ALTER TABLE adds its column, or fails as another thread has.            *)
(***************************************************************************)
LEMMA AddColumnKeeps ==
  ASSUME SInv, NEW t \in Threads, NEW step, NEW column, NEW next, AddColumn(t, step, column, next),
         \/ step = "alter_key" /\ column = "idempotency_key" /\ next = "alter_print"
         \/ step = "alter_print" /\ column = "request_fingerprint" /\ next = "fetch"
  PROVE  SInv' /\ Grows(file, file')
<1>1. /\ pc[t] = step /\ ThreadInv(t) /\ TypeOK /\ FileInv /\ writer # t
      /\ faults' = faults /\ column \in Columns /\ "id" \in file.columns
      /\ "id" \in Columns
  BY DEF AddColumn, SInv, ThreadInv, Progress, Columns
<1>2. CASE column \notin seen[t] /\ column \in file.columns
  <2>1. Fail(t)
    BY <1>2 DEF AddColumn
  <2> QED
    BY <1>1, <2>1, FailKeeps DEF TypeOK
<1>3. CASE column \in seen[t]
  <2>1. /\ UNCHANGED <<file, work, writer>> /\ cached' = cached /\ Goto(t, next)
        /\ UNCHANGED <<locals, answer>>
    BY <1>3 DEF AddColumn
  <2>2. FileStep
    BY <2>1, QuietStep
  <2>3. TypeOK' /\ Apart(t)
    BY <1>1, <2>1 DEF TypeOK, Goto, Apart, locals
  <2>4. column \in file.columns
    BY <1>1, <1>3 DEF ThreadInv
  <2>5. ThreadInv(t)'
    BY <1>1, <2>1, <2>4 DEF TypeOK, Goto, ThreadInv, Progress, Bound, Stored, locals
  <2> QED
    BY <2>2, <2>3, <2>5, Combine
<1>4. CASE column \notin seen[t] /\ column \notin file.columns
  <2> DEFINE base == [work EXCEPT !.columns = @ \cup {column}]
  <2>1. /\ Write(t, base) /\ cached' = cached /\ Goto(t, next) /\ UNCHANGED <<locals, answer>>
    BY <1>4 DEF AddColumn
  <2>2. base \in Database /\ work \in Database
        /\ base.rows = work.rows /\ base.objects = work.objects
        /\ base.columns = work.columns \cup {column}
    BY <1>1 DEF TypeOK, Database
  <2> HIDE DEF base
  <2>3. Sound(base) /\ Grows(work, base)
    BY <1>1, <2>2, Widen DEF FileInv, Database
  <2>4. FileStep /\ file' = base /\ work' = base /\ writer' = writer
    BY <1>1, <2>1, <2>2, <2>3, WriteStep DEF Write
  <2>5. TypeOK'
    BY <1>1, <2>1, <2>2, <2>4 DEF TypeOK, Goto, locals
  <2>6. Apart(t)
    BY <1>1, <2>1, SchemaAssumption DEF TypeOK, Goto, Apart, Write, locals
  <2>7. file'.columns = file.columns \cup {column}
    BY <1>1, <2>2, <2>4 DEF FileInv
  <2>8. ThreadInv(t)'
    BY <1>1, <2>1, <2>4, <2>7 DEF TypeOK, Goto, ThreadInv, Progress, Bound, FileStep, Grows, locals
  <2> QED
    BY <2>4, <2>5, <2>6, <2>8, Combine
<1> QED
  BY <1>2, <1>3, <1>4

(***************************************************************************)
(* The backfill fetches every keyed row without a fingerprint.             *)
(***************************************************************************)
LEMMA FetchKeeps ==
  ASSUME SInv, NEW t \in Threads, FetchUnprinted(t)
  PROVE  SInv' /\ Grows(file, file')
<1>1. /\ pc[t] = "fetch" /\ ThreadInv(t) /\ TypeOK /\ writer # t
  BY DEF FetchUnprinted, SInv, ThreadInv
<1>2. FileStep
  BY QuietStep DEF FetchUnprinted
<1>3. Unprinted(file) \subseteq Stored(file) /\ Stored(file) \subseteq Ids
  BY DEF Unprinted, Stored
<1>4. TypeOK' /\ Apart(t)
  BY <1>1, <1>3 DEF FetchUnprinted, TypeOK, Goto, Apart
<1>5. ThreadInv(t)'
  BY <1>1, <1>3 DEF FetchUnprinted, TypeOK, Goto, ThreadInv, Progress, Bound, Stored, View,
     Unprinted
<1> QED
  BY <1>2, <1>4, <1>5, Combine

(***************************************************************************)
(* It gives each of them the fingerprint of its payload.                   *)
(***************************************************************************)
LEMMA BackfillKeeps ==
  ASSUME SInv, NEW t \in Threads, Backfill(t)
  PROVE  SInv' /\ Grows(file, file')
<1>1. /\ pc[t] = "update" /\ ThreadInv(t) /\ TypeOK /\ FileInv
      /\ file' = file /\ cached' = cached
  BY DEF Backfill, SInv
<1>2. CASE todo[t] = {}
  <2>1. UNCHANGED <<file, work, writer, todo, call, seen, answer, faults>> /\ Goto(t, "index")
    BY <1>2 DEF Backfill
  <2>2. FileStep
    BY <1>1, <2>1, QuietStep
  <2>3. TypeOK' /\ Apart(t)
    BY <1>1, <2>1 DEF TypeOK, Goto, Apart
  <2>4. Unprinted(View(t)) = {} /\ Unprinted(View(t)') = Unprinted(View(t))
    BY <1>1, <1>2, <2>1 DEF ThreadInv, Progress, View
  <2>5. ThreadInv(t)'
    BY <1>1, <2>1, <2>4 DEF TypeOK, Goto, ThreadInv, Progress, Bound, Stored, Unprinted
  <2> QED
    BY <2>2, <2>3, <2>5, Combine
<1>3. CASE todo[t] # {}
  <2>1. PICK i \in todo[t] :
          /\ work' = [work EXCEPT !.rows[i].request_fingerprint = work.rows[i].payload]
          /\ todo' = [todo EXCEPT ![t] = @ \ {i}]
    BY <1>3 DEF Backfill
  <2>2. writer \in {t, Nobody} /\ writer' = t /\ UNCHANGED <<pc, call, seen, answer, faults>>
    BY <1>3 DEF Backfill
  <2>3. View(t) = work /\ View(t)' = work'
    BY <1>1, <2>2, SchemaAssumption DEF View, FileInv
  <2>4. /\ work \in Database /\ Sound(work) /\ "request_fingerprint" \in work.columns
        /\ i \in Stored(work)
    BY <1>1, <2>1 DEF TypeOK, FileInv, ThreadInv, Progress
  <2>5. /\ work' \in Database /\ Sound(work') /\ Grows(work, work')
        /\ Stored(work') = Stored(work) /\ work'.columns = work.columns
        /\ work'.objects = work.objects
        /\ Unprinted(work') \subseteq Unprinted(work) \ {i}
    BY <2>1, <2>4, Fill
  <2>6. Grows(file, work') /\ Grows(file, file)
    BY <1>1, <2>5, GrowsTrans, GrowsRefl DEF TypeOK, FileInv
  <2>7. FileStep
    BY <1>1, <2>2, <2>5, <2>6, SchemaAssumption DEF FileStep, FileInv, Sound, Grows, Migrated,
       Stored, SoundRow, Holders, Unprinted
  <2>8. TypeOK'
    BY <1>1, <2>1, <2>2, <2>5 DEF TypeOK
  <2>9. Apart(t)
    BY <1>1, <2>1, <2>2, SchemaAssumption DEF TypeOK, Apart
  <2>10. Unprinted(View(t)') \subseteq todo'[t]
    BY <1>1, <2>1, <2>3, <2>5 DEF ThreadInv, Progress, TypeOK
  <2>11. ThreadInv(t)'
    BY <1>1, <2>1, <2>2, <2>10 DEF TypeOK, ThreadInv, Progress, Bound, Stored, Unprinted
  <2> QED
    BY <2>7, <2>8, <2>9, <2>11, Combine
<1> QED
  BY <1>2, <1>3

(***************************************************************************)
(* The index and the later tables are made where they are missing.         *)
(***************************************************************************)
LEMMA MakeKeeps ==
  ASSUME SInv, NEW t \in Threads, NEW step, NEW object, NEW next, Make(t, step, object, next),
         \/ /\ step = "index" /\ object = "idx_requests_idempotency_key"
            /\ next = "decisions"
         \/ step = "decisions" /\ object = "decisions" /\ next = "audit"
         \/ step = "audit" /\ object = "audit_events" /\ next = "commit"
  PROVE  SInv' /\ Grows(file, file')
<1>1. /\ pc[t] = step /\ ThreadInv(t) /\ TypeOK /\ FileInv /\ object \in Objects
      /\ "id" \in file.columns /\ UNCHANGED <<cached, locals, answer, faults>> /\ Goto(t, next)
  BY DEF Make, SInv, ThreadInv, Progress, Objects
<1>2. CASE UNCHANGED <<file, work, writer>> /\ object \in View(t).objects
  <2>1. FileStep
    BY <1>1, <1>2, QuietStep
  <2>2. TypeOK' /\ Apart(t)
    BY <1>1, <1>2 DEF TypeOK, Goto, Apart, locals
  <2>3. View(t)' = View(t)
    BY <1>2 DEF View
  <2>4. ThreadInv(t)'
    BY <1>1, <1>2, <2>3 DEF TypeOK, Goto, ThreadInv, Progress, Bound, Stored, Unprinted, locals
  <2> QED
    BY <2>1, <2>2, <2>4, Combine
<1>3. CASE Write(t, [work EXCEPT !.objects = @ \cup {object}])
  <2> DEFINE base == [work EXCEPT !.objects = @ \cup {object}]
  <2>1. Write(t, base)
    BY <1>3
  <2>2. base \in Database /\ work \in Database /\ base.columns = work.columns
        /\ base.objects = work.objects \cup {object} /\ base.rows = work.rows
    BY <1>1 DEF TypeOK, Database
  <2> HIDE DEF base
  <2>3. Sound(base) /\ Grows(work, base) /\ Stored(base) = Stored(work)
    BY <1>1, <2>2, Widen DEF FileInv
  <2>4. FileStep /\ work' = base /\ file' \in Database /\ writer' = writer
        /\ View(t) = work /\ View(t)' = base
    BY <1>1, <2>1, <2>2, <2>3, WriteStep
  <2>5. TypeOK'
    BY <1>1, <2>2, <2>4 DEF TypeOK, Goto, locals
  <2>6. Apart(t)
    BY <1>1, <2>1, SchemaAssumption DEF TypeOK, Goto, Apart, Write, locals
  <2>7. Unprinted(View(t)') \subseteq Unprinted(View(t))
    BY <2>3, <2>4 DEF Grows
  <2>8. Bound(t)'
    BY <1>1 DEF Goto, TypeOK, Bound
  <2>9. ThreadInv(t)'
    BY <1>1, <2>2, <2>4, <2>7, <2>8 DEF TypeOK, Goto, ThreadInv, Progress, FileStep, Grows,
       Unprinted, Stored, locals
  <2> QED
    BY <2>4, <2>5, <2>6, <2>9, Combine
<1> QED
  <2>1. CASE object \in file.objects \cup (IF writer = t THEN work.objects ELSE {})
    <3>1. file.objects \subseteq work.objects
      BY <1>1 DEF FileInv, Grows
    <3>2. object \in View(t).objects
      BY <2>1, <3>1 DEF View
    <3> QED
      BY <1>2, <2>1, <3>2 DEF Make
  <2>2. CASE object \notin file.objects \cup (IF writer = t THEN work.objects ELSE {})
    BY <1>3, <2>2 DEF Make
  <2> QED
    BY <2>1, <2>2

(***************************************************************************)
(* The commit of init_db publishes a schema that is complete.              *)
(***************************************************************************)
LEMMA CommitInitKeeps ==
  ASSUME SInv, NEW t \in Threads, CommitInit(t)
  PROVE  SInv' /\ Grows(file, file')
<1>1. /\ pc[t] = "commit" /\ ThreadInv(t) /\ TypeOK /\ FileInv
      /\ work' = work /\ cached' = TRUE /\ call' = call /\ faults' = faults
      /\ Use(t) /\ Forget({t})
  BY DEF CommitInit, SInv
<1>2. /\ file' = View(t) /\ writer' # t
      /\ writer = t => writer' = Nobody
      /\ writer # t => writer' = writer
  BY SchemaAssumption DEF CommitInit, View
<1>3. Migrated(View(t)) /\ View(t) \in Database /\ Sound(View(t))
  <2>1. View(t).columns = Columns
    BY <1>1 DEF FileInv, ThreadInv, Progress, View, Columns, TypeOK, Database
  <2>2. View(t).objects = Objects
    BY <1>1 DEF ThreadInv, Progress, View, Objects, TypeOK, Database
  <2> QED
    BY <1>1, <2>1, <2>2 DEF FileInv, ThreadInv, Progress, View, TypeOK, Migrated
<1>4. Grows(file, file')
  BY <1>1, <1>2, GrowsRefl DEF FileInv, View, TypeOK
<1>5. FileInv'
  <2>1. Sound(file') /\ Migrated(file') /\ Sound(work')
    BY <1>1, <1>2, <1>3 DEF FileInv
  <2>2. /\ Grows(file', work') /\ work'.columns = file'.columns /\ Stored(work') = Stored(file')
        /\ writer' = Nobody => work' = file'
    BY <1>1, <1>2, GrowsRefl DEF FileInv, View, TypeOK
  <2> QED
    BY <2>1, <2>2 DEF FileInv, Sound, Grows, Migrated, Stored, SoundRow, Holders, Unprinted
<1>6. FileStep
  BY <1>1, <1>4, <1>5 DEF FileStep
<1>7. /\ pc' \in [Threads -> {"idle", "lookup", "insert", "done"} \cup InitSteps]
      /\ answer' \in [Threads -> Answer \cup {NoAnswer}]
      /\ pc'[t] \in {"lookup", "done"}
      /\ call[t] = Probe => pc'[t] = "done" /\ answer'[t] = [code |-> 200]
      /\ call[t] # Probe => pc'[t] = "lookup"
      /\ \A u \in Threads \ {t} : pc'[u] = pc[u] /\ answer'[u] = answer[u]
  <2>1. [code |-> 200] \in Answer
    BY DEF Answer
  <2>2. CASE call[t] = Probe
    BY <1>1, <2>1, <2>2 DEF Use, Reply, Goto, TypeOK
  <2>3. CASE call[t] # Probe
    BY <1>1, <2>3 DEF Use, Goto, TypeOK
  <2> QED
    BY <2>2, <2>3
<1>8. /\ \A u \in Threads : seen'[u] = IF u = t THEN {} ELSE seen[u]
      /\ \A u \in Threads : todo'[u] = IF u = t THEN {} ELSE todo[u]
      /\ seen' \in [Threads -> SUBSET Columns] /\ todo' \in [Threads -> SUBSET Ids]
  BY <1>1 DEF Forget, TypeOK
<1>9. TypeOK'
  BY <1>1, <1>2, <1>3, <1>7, <1>8 DEF TypeOK
<1>10. Apart(t)
  BY <1>1, <1>2, <1>7, <1>8, SchemaAssumption DEF Apart, TypeOK
<1>11. ThreadInv(t)'
  <2>1. call[t] \in CreateCall \cup {Probe}
    BY <1>1 DEF ThreadInv
  <2>2. Probe \notin CreateCall
    BY SchemaAssumption DEF Probe, CreateCall
  <2>3. Bound(t)'
    BY <1>1, <1>7, <2>2 DEF Bound
  <2>4. Progress(t)'
    BY <1>7 DEF Progress
  <2> QED
    BY <1>1, <1>2, <1>7, <1>8, <2>1, <2>3, <2>4 DEF ThreadInv
<1> QED
  BY <1>6, <1>9, <1>10, <1>11, Combine

-----------------------------------------------------------------------------
(***************************************************************************)
(* The use of the store, the ends of calls, and crashes.                   *)
(***************************************************************************)
LEMMA ExistingIsBound ==
  ASSUME SInv, NEW t \in Threads, cached, call[t] \in CreateCall, AnswerExisting(t)
  PROVE  /\ pc' = [pc EXCEPT ![t] = "done"]
         /\ answer' = [answer EXCEPT ![t] = answer'[t]] /\ answer'[t] \in Answer
         /\ answer'[t].code = 201 =>
              /\ answer'[t].id \in Stored(file)
              /\ file.rows[answer'[t].id].payload = call[t].payload
              /\ file.rows[answer'[t].id].idempotency_key = call[t].key
<1>1. PICK i \in Holders(file, call[t].key) :
        Reply(t, IF file.rows[i].request_fingerprint \in {NoPrint, call[t].payload}
                 THEN [code |-> 201, id |-> i] ELSE [code |-> 409])
  BY DEF AnswerExisting
<1>2. /\ i \in Stored(file) /\ i \in Ids /\ file.rows[i].idempotency_key = call[t].key
      /\ call[t].key # NoKey
  BY <1>1 DEF Holders, Stored
<1>3. file.rows[i].request_fingerprint # NoPrint
  BY <1>2 DEF SInv, FileInv, Migrated, Unprinted
<1>4. file.rows[i].request_fingerprint = file.rows[i].payload
  BY <1>2, <1>3 DEF SInv, FileInv, Sound, SoundRow
<1>5. CASE file.rows[i].request_fingerprint = call[t].payload
  <2> DEFINE found == [code |-> 201, id |-> i]
  <2>1. found \in Answer /\ found.id = i
    BY <1>2 DEF Answer
  <2>2. /\ answer' = [answer EXCEPT ![t] = found]
        /\ pc' = [pc EXCEPT ![t] = "done"]
    BY <1>1, <1>5 DEF Reply, Goto
  <2> HIDE DEF found
  <2>3. answer'[t] = found
    BY <2>2 DEF SInv, TypeOK
  <2> QED
    BY <1>2, <1>4, <1>5, <2>1, <2>2, <2>3
<1>6. CASE file.rows[i].request_fingerprint # call[t].payload
  <2> DEFINE refused == [code |-> 409]
  <2>1. refused \in Answer /\ refused.code # 201
    BY DEF Answer
  <2>2. /\ answer' = [answer EXCEPT ![t] = refused]
        /\ pc' = [pc EXCEPT ![t] = "done"]
    BY <1>1, <1>3, <1>6 DEF Reply, Goto
  <2> HIDE DEF refused
  <2>3. answer'[t] = refused
    BY <2>2 DEF SInv, TypeOK
  <2> QED
    BY <2>1, <2>2, <2>3
<1> QED
  BY <1>5, <1>6

(***************************************************************************)
(* A create that finds its key finds its own payload's request or refuses. *)
(***************************************************************************)
LEMMA LookupKeeps ==
  ASSUME SInv, NEW t \in Threads, Lookup(t)
  PROVE  SInv' /\ Grows(file, file')
<1>1. /\ pc[t] = "lookup" /\ ThreadInv(t) /\ TypeOK /\ cached /\ call[t] \in CreateCall
      /\ UNCHANGED <<file, work, writer, cached, locals, faults>> /\ writer # t
  BY DEF Lookup, SInv, ThreadInv
<1>2. FileStep
  BY <1>1, QuietStep
<1>3. CASE AnswerExisting(t)
  <2>1. /\ pc' = [pc EXCEPT ![t] = "done"]
        /\ answer' = [answer EXCEPT ![t] = answer'[t]] /\ answer'[t] \in Answer
        /\ answer'[t].code = 201 =>
             /\ answer'[t].id \in Stored(file)
             /\ file.rows[answer'[t].id].payload = call[t].payload
             /\ file.rows[answer'[t].id].idempotency_key = call[t].key
    BY <1>1, <1>3, ExistingIsBound
  <2>2. TypeOK' /\ Apart(t)
    BY <1>1, <2>1 DEF TypeOK, Apart, locals
  <2>3. ThreadInv(t)'
    BY <1>1, <2>1 DEF TypeOK, ThreadInv, Progress, Bound, Stored, locals
  <2> QED
    BY <1>2, <2>2, <2>3, Combine
<1>4. CASE Goto(t, "insert") /\ UNCHANGED answer
  <2>1. TypeOK' /\ Apart(t)
    BY <1>1, <1>4 DEF TypeOK, Goto, Apart, locals
  <2>2. ThreadInv(t)'
    BY <1>1, <1>4 DEF TypeOK, Goto, ThreadInv, Progress, Bound, Stored, locals
  <2> QED
    BY <1>2, <2>1, <2>2, Combine
<1> QED
  BY <1>3, <1>4 DEF Lookup

(***************************************************************************)
(* A create that inserts leaves keys unique and fingerprints right.        *)
(***************************************************************************)
LEMMA InsertKeeps ==
  ASSUME SInv, NEW t \in Threads, Insert(t)
  PROVE  SInv' /\ Grows(file, file')
<1>1. /\ pc[t] = "insert" /\ ThreadInv(t) /\ TypeOK /\ FileInv /\ cached
      /\ call[t] \in CreateCall /\ UNCHANGED <<cached, locals, faults>> /\ writer = Nobody
      /\ writer # t
  BY DEF Insert, SInv, ThreadInv
<1>2. work = file /\ file.columns = Columns /\ "idx_requests_idempotency_key" \in file.objects
  BY <1>1 DEF FileInv, Migrated, Objects
<1>3. CASE Holders(file, call[t].key) # {}
  <2>1. AnswerExisting(t) /\ UNCHANGED <<file, work, writer>>
    BY <1>2, <1>3 DEF Insert
  <2>2. /\ pc' = [pc EXCEPT ![t] = "done"]
        /\ answer' = [answer EXCEPT ![t] = answer'[t]] /\ answer'[t] \in Answer
        /\ answer'[t].code = 201 =>
             /\ answer'[t].id \in Stored(file)
             /\ file.rows[answer'[t].id].payload = call[t].payload
             /\ file.rows[answer'[t].id].idempotency_key = call[t].key
    BY <1>1, <2>1, ExistingIsBound
  <2>3. FileStep
    BY <1>1, <2>1, QuietStep
  <2>4. TypeOK' /\ Apart(t)
    BY <1>1, <2>1, <2>2 DEF TypeOK, Apart, locals
  <2>5. ThreadInv(t)'
    BY <1>1, <2>1, <2>2 DEF TypeOK, ThreadInv, Progress, Bound, Stored, locals
  <2> QED
    BY <2>3, <2>4, <2>5, Combine
<1>4. CASE Holders(file, call[t].key) = {}
  <2>1. PICK i \in Ids \ Stored(file) :
          /\ Write(t, [work EXCEPT !.rows[i] =
               [idempotency_key |-> call[t].key, request_fingerprint |-> call[t].payload,
                payload |-> call[t].payload]])
          /\ Reply(t, [code |-> 201, id |-> i])
    BY <1>4 DEF Insert
  <2> DEFINE row == [idempotency_key |-> call[t].key, request_fingerprint |-> call[t].payload,
                     payload |-> call[t].payload]
             base == [work EXCEPT !.rows[i] = row]
  <2>2. call[t].key \in Keys /\ call[t].payload \in Payloads /\ work \in Database /\ Sound(work)
    BY <1>1 DEF CreateCall, TypeOK, FileInv
  <2>3. /\ base \in Database /\ Sound(base) /\ Grows(work, base)
        /\ i \in Stored(base) /\ base.rows[i].payload = call[t].payload
        /\ base.rows[i].idempotency_key = call[t].key
    <3>1. /\ row \in Row /\ row.idempotency_key = call[t].key
          /\ row.payload = call[t].payload /\ row.request_fingerprint = row.payload
      BY <2>2 DEF Row
    <3>2. Holders(work, call[t].key) = {} /\ i \in Ids \ Stored(work) /\ work.columns = Columns
      BY <1>2, <1>4, <2>1
    <3> HIDE DEF row
    <3>3. /\ base.columns = work.columns /\ base.objects = work.objects
          /\ base.rows[i] = row /\ \A j \in Ids \ {i} : base.rows[j] = work.rows[j]
          /\ base \in Database
      BY <2>2, <3>1, <3>2 DEF Database
    <3> HIDE DEF base
    <3>4. Sound(base) /\ Grows(work, base) /\ i \in Stored(base)
      BY <2>2, <3>1, <3>2, <3>3, NewRow
    <3> QED
      BY <3>1, <3>3, <3>4
  <2>4. Write(t, base)
    BY <2>1
  <2> HIDE DEF base
  <2>5. FileStep /\ work' = base /\ file' = base /\ writer' = writer
    BY <1>1, <2>3, <2>4, WriteStep
  <2>6. [code |-> 201, id |-> i] \in Answer
    BY DEF Answer
  <2>7. TypeOK'
    BY <1>1, <2>1, <2>3, <2>5, <2>6 DEF TypeOK, Reply, Goto, locals
  <2>8. Apart(t)
    BY <1>1, <2>1, <2>5, SchemaAssumption DEF TypeOK, Reply, Goto, Apart, locals
  <2>9. Bound(t)'
    <3>1. /\ answer'[t] = [code |-> 201, id |-> i] /\ call' = call /\ Stored(file)' = Stored(base)
      BY <1>1, <2>1, <2>5 DEF TypeOK, Reply, locals, Stored
    <3> QED
      BY <2>3, <2>5, <3>1 DEF Bound
  <2>10. ThreadInv(t)'
    BY <1>1, <2>1, <2>5, <2>9 DEF TypeOK, Reply, Goto, ThreadInv, Progress, FileStep, Grows,
       locals
  <2> QED
    BY <2>5, <2>7, <2>8, <2>10, Combine
<1> QED
  BY <1>3, <1>4

(***************************************************************************)
(* A client that takes its answer changes no file.                         *)
(***************************************************************************)
LEMMA FinishKeeps ==
  ASSUME SInv, NEW t \in Threads, Finish(t)
  PROVE  SInv' /\ Grows(file, file')
<1>1. /\ pc[t] = "done" /\ ThreadInv(t) /\ TypeOK /\ writer # t
  BY DEF Finish, SInv, ThreadInv
<1>2. FileStep
  BY QuietStep DEF Finish
<1>3. TypeOK' /\ Apart(t)
  BY <1>1 DEF Finish, TypeOK, Goto, Apart
<1>4. ThreadInv(t)'
  BY <1>1 DEF Finish, TypeOK, Goto, ThreadInv, Progress, Bound, Stored
<1> QED
  BY <1>2, <1>3, <1>4, Combine

(***************************************************************************)
(* A crash leaves what is committed.                                       *)
(***************************************************************************)
LEMMA CrashKeeps ==
  ASSUME SInv, Crash
  PROVE  SInv' /\ Grows(file, file')
<1>1. TypeOK /\ FileInv
  BY DEF SInv
<1>2. Grows(file, file) /\ file' = file /\ work' = file /\ cached' = FALSE /\ writer' = Nobody
  BY <1>1, GrowsRefl DEF Crash, TypeOK
<1>3. FileInv'
  BY <1>1, <1>2 DEF FileInv, Sound, Grows, Migrated, Stored, SoundRow, Holders, Unprinted
<1>4. TypeOK'
  <2>1. seen' \in [Threads -> SUBSET Columns] /\ todo' \in [Threads -> SUBSET Ids]
    BY <1>1 DEF TypeOK, Crash, Forget
  <2>2. faults' \in Nat /\ pc' \in [Threads -> {"idle"}] /\ call' \in [Threads -> {NoCall}]
        /\ answer' \in [Threads -> {NoAnswer}]
    BY <1>1 DEF TypeOK, Crash
  <2> QED
    BY <1>1, <1>2, <2>1, <2>2 DEF TypeOK
<1>5. \A t \in Threads : ThreadInv(t)'
  BY <1>2, SchemaAssumption DEF Crash, Forget, ThreadInv, Progress, Bound
<1> QED
  BY <1>2, <1>3, <1>4, <1>5 DEF SInv

-----------------------------------------------------------------------------
(***************************************************************************)
(* The invariant holds at first and is kept by every step, and every step  *)
(* of the program only adds to the committed database.                     *)
(***************************************************************************)
LEMMA SInit == Init => SInv
<1> SUFFICES ASSUME Init PROVE SInv
  OBVIOUS
<1>1. file \in Database /\ Sound(file) /\ Grows(file, file)
  BY GrowsRefl DEF Init, LegacyFile
<1>2. TypeOK
  BY <1>1, SchemaAssumption DEF Init, TypeOK
<1>3. FileInv
  BY <1>1 DEF Init, FileInv
<1>4. \A t \in Threads : ThreadInv(t)
  BY SchemaAssumption DEF Init, ThreadInv, Progress, Bound
<1> QED
  BY <1>2, <1>3, <1>4 DEF SInv

(***************************************************************************)
(* Every step keeps the invariant, and the file only grows.                *)
(***************************************************************************)
LEMMA SStep == SInv /\ [Next]_vars => SInv' /\ Grows(file, file')
<1> SUFFICES ASSUME SInv, [Next]_vars PROVE SInv' /\ Grows(file, file')
  OBVIOUS
<1>1. CASE UNCHANGED vars
  <2>1. Grows(file, file)
    BY GrowsRefl DEF SInv, TypeOK
  <2> QED
    BY <1>1, <2>1 DEF vars, SInv, TypeOK, FileInv, ThreadInv, Progress, Bound, View, Sound, Grows,
       Migrated, Stored, SoundRow, Holders, Unprinted
<1>2. ASSUME NEW t \in Threads, Arrive(t) PROVE SInv' /\ Grows(file, file')
  BY <1>2, GetStoreKeeps DEF Arrive
<1>3. ASSUME NEW t \in Threads, InitDb(t) PROVE SInv' /\ Grows(file, file')
  BY <1>3, CreateTableKeeps, ReadColumnsKeeps, AddColumnKeeps, FetchKeeps, BackfillKeeps,
     MakeKeeps, CommitInitKeeps DEF InitDb
<1>4. ASSUME NEW t \in Threads, StatementFails(t) PROVE SInv' /\ Grows(file, file')
  BY <1>4, FailKeeps DEF StatementFails, SInv, TypeOK
<1> QED
  BY <1>1, <1>2, <1>3, <1>4, LookupKeeps, InsertKeeps, FinishKeeps, CrashKeeps DEF Next

(***************************************************************************)
(* The strengthening of the invariants below.                              *)
(***************************************************************************)
THEOREM SchemaInductive == Spec => []SInv
<1>1. SInv /\ [Next]_vars => SInv'
  BY SStep
<1> QED
  BY <1>1, SInit, PTL DEF Spec

(***************************************************************************)
(* Every variable keeps its type.                                          *)
(***************************************************************************)
THEOREM SchemaTypeCorrect == Spec => []TypeOK
<1>1. SInv => TypeOK
  BY DEF SInv
<1> QED
  BY <1>1, SchemaInductive, PTL

(***************************************************************************)
(* A store in use has the whole schema and every fingerprint under it.     *)
(***************************************************************************)
THEOREM StoreMigrated == Spec => []ReadyMeansMigrated
<1>1. SInv => ReadyMeansMigrated
  BY DEF SInv, FileInv, ReadyMeansMigrated
<1> QED
  BY <1>1, SchemaInductive, PTL

(***************************************************************************)
(* The committed file is sound after any number of broken starts.          *)
(***************************************************************************)
THEOREM FileStaysSound == Spec => []FileSound
<1>1. SInv => FileSound
  BY DEF SInv, FileInv, FileSound
<1> QED
  BY <1>1, SchemaInductive, PTL

(***************************************************************************)
(* A key stays bound to its payload across the migration.                  *)
(***************************************************************************)
THEOREM KeysStayBound == Spec => []KeysBound
<1>1. SInv => KeysBound
  BY DEF SInv, ThreadInv, Bound, KeysBound
<1> QED
  BY <1>1, SchemaInductive, PTL

(***************************************************************************)
(* Starting the store only adds to the file.                               *)
(***************************************************************************)
THEOREM StartsOnlyAdd == Spec => OnlyAdds
<1>1. SInv /\ [Next]_vars => [Grows(file, file')]_vars
  BY SStep
<1> QED
  BY <1>1, SchemaInductive, PTL DEF Spec, OnlyAdds

=============================================================================

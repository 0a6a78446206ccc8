------------------------------- MODULE Catalog -------------------------------
(***************************************************************************)
(* The catalog (internal/catalog): tables and indexes in memory, saved as  *)
(* one document on every change (catalog.go) through a temp file and a     *)
(* rename (store.go).                                                      *)
(*                                                                         *)
(* A method holds the mutex from its first check to its return, so one     *)
(* DDL call is in progress at most; it takes a step per system call,       *)
(* because each may fail and the process or the machine may stop between   *)
(* two.  GetTable and ListTables return copies at one point in time; a     *)
(* history variable keeps the ids that they have shown.  A refused call    *)
(* (an empty name, no columns, a duplicate) changes nothing and is left    *)
(* out.  A relation's file name is its id: fileName is injective.          *)
(***************************************************************************)
EXTENDS Integers, Sequences

CONSTANTS Name,      \* table names
          IndexName, \* index names
          Columns,   \* columns of a schema
          MaxUint32, \* the largest NextID
          MaxID      \* bound: relation files ever created

ASSUME CatalogAssumption ==
  /\ Columns \in Nat \ {0}
  /\ MaxUint32 \in Nat /\ MaxID \in Nat /\ MaxID <= MaxUint32

VARIABLES
  up,          \* a Catalog is open in the process
  state,       \* Catalog.state: NextID and Tables
  call,        \* the DDL call that holds the mutex
  catalogFile, \* catalog.json: a whole document, Half of one, or Missing
  tmpFile,     \* catalog.json.tmp, likewise
  afterCrash,  \* what a machine crash may leave under the name catalog.json
  acked,       \* the ids of the relations whose creation was reported done
  shown,       \* the ids that readers have been shown, until the machine crashes
  crashed      \* the machine has crashed

files == <<catalogFile, tmpFile, afterCrash>>
history == <<acked, shown, crashed>>
vars == <<up, state, call, files, history>>

Missing == [doc |-> "missing"]
Half == [doc |-> "half"]
Document(s) == [doc |-> "whole", state |-> s]

emptyState == [NextID |-> 0, Tables |-> <<>>]
NoCall == [pc |-> "idle"]

Init ==
  /\ up = FALSE /\ state = emptyState /\ call = NoCall
  /\ catalogFile = Missing /\ tmpFile = Missing /\ afterCrash = {Missing}
  /\ acked = {} /\ shown = {} /\ crashed = FALSE

-----------------------------------------------------------------------------
(* Open.                                                                   *)

\* load and parse: no file is an empty catalog, half a document does not parse.
Open ==
  /\ ~up /\ catalogFile # Half
  /\ up' = TRUE
  /\ state' = IF catalogFile = Missing THEN emptyState ELSE catalogFile.state
  /\ UNCHANGED <<call, files, history>>

-----------------------------------------------------------------------------
(* CreateTable and CreateIndex, up to persist.                             *)

Put(f, k, v) == [x \in DOMAIN f \cup {k} |-> IF x = k THEN v ELSE f[x]]
Delete(f, k) == [x \in DOMAIN f \ {k} |-> f[x]]

\* Mutant: the counter is not advanced.
nextIDKept(id) == id
\* NextID is a uint32.
nextID(id) == (id + 1) % (MaxUint32 + 1)

\* Tables[name] becomes tm and the counter moves on; old is what a failed save
\* restores: no entry for a new table, the entry before the append for an index.
Change(name, tm, old) ==
  /\ up /\ call = NoCall /\ state.NextID < MaxID
  /\ state' = [NextID |-> nextID(state.NextID), Tables |-> Put(state.Tables, name, tm)]
  /\ call' = [pc |-> "save", id |-> state.NextID, name |-> name, old |-> old]
  /\ UNCHANGED <<up, files, history>>

CreateTable(name) ==
  /\ name \notin DOMAIN state.Tables
  /\ Change(name, [File |-> state.NextID, Indexes |-> <<>>], <<>>)

\* Mutant: off by one.
InSchemaOrNext(column) == 0 <= column /\ column <= Columns
InSchema(column) == 0 <= column /\ column < Columns

CreateIndex(table, name, column) ==
  /\ table \in DOMAIN state.Tables /\ InSchema(column)
  /\ LET tm == state.Tables[table]
         im == [Name |-> name, Column |-> column, File |-> state.NextID]
     IN  /\ \A i \in DOMAIN tm.Indexes : tm.Indexes[i].Name # name
         /\ Change(table, [tm EXCEPT !.Indexes = Append(@, im)], <<tm>>)

-----------------------------------------------------------------------------
(* persist and save.                                                       *)

At(pc) == call.pc = pc
Goto(pc) == call' = [call EXCEPT !.pc = pc]

\* os.WriteFile truncates the temp file and starts to write.
WriteTemp ==
  /\ At("save") /\ Goto("writing")
  /\ tmpFile' = Half
  /\ UNCHANGED <<up, state, catalogFile, afterCrash, history>>

\* It has written all of the document.
TempWritten ==
  /\ At("writing") /\ Goto("rename")
  /\ tmpFile' = Document(state)
  /\ UNCHANGED <<up, state, catalogFile, afterCrash, history>>

\* Mutant: the error of WriteFile is ignored.
MayRenameAnyway == call.pc \in {"writing", "rename"}
\* save renames only what was written without an error.
MayRename == At("rename")

\* Mutant: the temp file is never renamed.
RenameSkipped == MayRename /\ Goto("return") /\ UNCHANGED files

\* os.Rename.  Neither the document nor the rename is synced: after a machine
\* crash the old file, the new one, or the new name on partial data may be there.
RenameFile ==
  /\ MayRename /\ Goto("return")
  /\ catalogFile' = tmpFile /\ tmpFile' = Missing
  /\ afterCrash' = afterCrash \cup {tmpFile, Half}

Rename == RenameFile /\ UNCHANGED <<up, state, history>>

\* The method reports success and releases the mutex.
Return ==
  /\ At("return")
  /\ call' = NoCall /\ acked' = acked \cup {call.id}
  /\ UNCHANGED <<up, state, files, shown, crashed>>

\* Mutant: the table map is restored, the counter is not.
RollBackTables == [state EXCEPT !.Tables = IF call.old = <<>> THEN Delete(@, call.name)
                                           ELSE Put(@, call.name, call.old[1])]
\* The state after a failed save.
RollBack ==
  [NextID |-> call.id,
   Tables |-> IF call.old = <<>> THEN Delete(state.Tables, call.name)
              ELSE Put(state.Tables, call.name, call.old[1])]

\* WriteFile or Rename fails: the method rolls back and returns the error.
SaveFails ==
  /\ call.pc \in {"save", "writing", "rename"}
  /\ state' = RollBack /\ call' = NoCall
  /\ UNCHANGED <<up, files, history>>

-----------------------------------------------------------------------------
(* The readers.                                                            *)

\* The relations of a state: a table's heap, and each of its indexes by position.
Relations(s) ==
  UNION {{n} \X (0 .. Len(s.Tables[n].Indexes)) : n \in DOMAIN s.Tables}
FileOf(s, r) == IF r[2] = 0 THEN s.Tables[r[1]].File ELSE s.Tables[r[1]].Indexes[r[2]].File
Ids(s) == {FileOf(s, r) : r \in Relations(s)}

\* Mutant: the readers do not take the mutex.
ReadableAnyway == up
\* GetTable and ListTables wait for the mutex, which a DDL call holds.
Readable == up /\ call = NoCall

Show(ids) ==
  /\ shown' = IF crashed THEN shown ELSE shown \cup ids
  /\ UNCHANGED <<up, state, call, files, acked, crashed>>

GetTable(name) ==
  /\ Readable /\ name \in DOMAIN state.Tables
  /\ Show({FileOf(state, r) : r \in {q \in Relations(state) : q[1] = name}})

ListTables == Readable /\ Show(Ids(state))

-----------------------------------------------------------------------------
(* The process and the machine.                                            *)

\* The OS has written everything back to the device.
OSWriteBack ==
  /\ afterCrash' = {catalogFile}
  /\ UNCHANGED <<up, state, call, catalogFile, tmpFile, history>>

Stop == up' = FALSE /\ state' = emptyState /\ call' = NoCall

\* The process ends, between two calls or in the middle of one.
Exit == up /\ Stop /\ UNCHANGED <<files, history>>

\* The machine stops.
Crash ==
  /\ Stop /\ crashed' = TRUE
  /\ \E d \in afterCrash : catalogFile' = d /\ afterCrash' = {d}
  /\ tmpFile' \in {Missing, Half, tmpFile}
  /\ shown' = {} /\ UNCHANGED acked

Next ==
  \/ Open \/ WriteTemp \/ TempWritten \/ Rename \/ Return \/ SaveFails
  \/ OSWriteBack \/ Exit \/ Crash
  \/ ListTables
  \/ \E n \in Name : CreateTable(n) \/ GetTable(n)
  \/ \E t \in Name, n \in IndexName, c \in -1 .. Columns : CreateIndex(t, n, c)

Spec == Init /\ [][Next]_vars

-----------------------------------------------------------------------------
(* Properties.                                                             *)

Index == [Name : IndexName, Column : 0 .. Columns - 1, File : 0 .. MaxID]
IsTable(tm) == tm.File \in 0 .. MaxID /\ tm.Indexes \in Seq(Index)
IsState(s) ==
  /\ s.NextID \in 0 .. MaxID /\ DOMAIN s.Tables \subseteq Name
  /\ \A n \in DOMAIN s.Tables : IsTable(s.Tables[n])
IsFile(f) == f \in {Missing, Half} \/ (f = Document(f.state) /\ IsState(f.state))

\* Types: in particular the stored document has the shape of the state, with
\* the indexes on columns the table has, and a call keeps what it may restore.
TypeOK ==
  /\ up \in BOOLEAN /\ crashed \in BOOLEAN /\ acked \cup shown \subseteq 0 .. MaxID
  /\ IsState(state) /\ IsFile(catalogFile) /\ IsFile(tmpFile)
  /\ \A d \in afterCrash : IsFile(d)
  /\ \/ call = NoCall
     \/ /\ call.pc \in {"save", "writing", "rename", "return"}
        /\ call.id \in 0 .. MaxID /\ call.name \in Name
        /\ call.old = <<>> \/ IsTable(call.old[1])

\* What Open would read from f.
Loaded(f) == IF f.doc = "whole" THEN f.state ELSE emptyState

\* Between calls the catalog in memory is the one in the file, whichever saves
\* failed before (the rollbacks of CreateTable and CreateIndex).
MemoryMatchesFile == up /\ call = NoCall => state = Loaded(catalogFile)

\* No two relations share a file, and no relation has the next one's: in memory
\* and in whatever the file holds after failures, restarts and crashes.
OneFilePerRelation ==
  \A s \in {state, Loaded(catalogFile)} :
    /\ \A r, q \in Relations(s) : FileOf(s, r) = FileOf(s, q) => r = q
    /\ s.NextID \notin Ids(s)

\* A relation whose creation was reported is in the file, and its id is not
\* given out again, however often the process is killed and saves fail.
ReportedIsStored ==
  ~crashed => /\ acked \subseteq Ids(Loaded(catalogFile))
              /\ up => state.NextID \notin acked

\* What GetTable or ListTables has shown is never taken back, short of a machine
\* crash: a table or index whose save may still fail is not visible.
ShownIsStored == ~crashed => shown \subseteq Ids(Loaded(catalogFile))

\* Short of a machine crash the catalog can always be opened again: the process
\* may be killed at any point of a save (store.go, temp file and rename).
AlwaysOpens == ~crashed => catalogFile # Half

\* store.go on blobStore.save: it durably replaces the stored bytes.
SaveIsDurable == acked \subseteq Ids(Loaded(catalogFile))
=============================================================================

---------------------------- MODULE CatalogProofs ----------------------------
(***************************************************************************)
(* The catalog's safety for any names, schema width and number of          *)
(* relations.  The invariant says what a call in progress has already      *)
(* changed in memory and what the files hold meanwhile.                    *)
(***************************************************************************)
EXTENDS Catalog, SequenceTheorems, TLAPS

Table == [File : 0 .. MaxID, Indexes : Seq(Index)]

\* A catalog that DDL calls can have built: every id is below the counter and
\* belongs to one relation.
Sound(s) ==
  /\ s = [NextID |-> s.NextID, Tables |-> s.Tables] /\ s.NextID \in 0 .. MaxID
  /\ DOMAIN s.Tables \subseteq Name /\ s.Tables \in [DOMAIN s.Tables -> Table]
  /\ \A r \in Relations(s) : FileOf(s, r) < s.NextID
  /\ \A r, q \in Relations(s) : FileOf(s, r) = FileOf(s, q) => r = q

SoundFile(f) == f = Missing \/ f = Half \/ \E s : Sound(s) /\ f = Document(s)

Pcs == {"save", "writing", "rename", "return"}
Calls == [pc : Pcs, id : 0 .. MaxID, name : Name, old : {<< >>} \cup {<<tm>> : tm \in Table}]

\* What the DDL call in progress has done: its relation is in memory, and the
\* rollback would restore what the file still holds, until the rename.
Pending ==
  /\ call \in Calls /\ up
  /\ state.NextID = call.id + 1 /\ call.id \in Ids(state)
  /\ call.pc # "return" => RollBack = Loaded(catalogFile) /\ Ids(RollBack) \subseteq Ids(state)
  /\ call.pc = "rename" => tmpFile = Document(state)
  /\ call.pc = "return" => catalogFile = Document(state)

Types ==
  /\ up \in BOOLEAN /\ crashed \in BOOLEAN /\ acked \cup shown \subseteq 0 .. MaxID
  /\ Sound(state) /\ SoundFile(catalogFile) /\ SoundFile(tmpFile)
  /\ \A d \in afterCrash : SoundFile(d)

Control ==
  /\ call # NoCall => Pending
  /\ up /\ call = NoCall => state = Loaded(catalogFile)

\* What was reported or shown is in the file.
Stored == ~crashed => catalogFile # Half /\ acked \cup shown \subseteq Ids(Loaded(catalogFile))

\* The inductive invariant.
KInv == Types /\ Control /\ Stored

-----------------------------------------------------------------------------
(* The operators that the model is built from.                             *)

\* The parts of a document can be told apart.
LEMMA Documents ==
  /\ Missing # Half /\ Missing.doc = "missing" /\ Half.doc = "half"
  /\ \A s : Document(s).doc = "whole" /\ Document(s).state = s
  /\ \A s : Document(s) # Missing /\ Document(s) # Half
<1>1. Missing.doc = "missing" /\ Half.doc = "half" /\ \A s : Document(s).doc = "whole" /\ Document(s).state = s
  BY DEF Missing, Half, Document
<1> QED
  BY <1>1

\* The relations of a catalog, one by one.
LEMMA RelationsOf ==
  ASSUME NEW s
  PROVE  \A r : r \in Relations(s) <=>
           \E n \in DOMAIN s.Tables : \E i \in 0 .. Len(s.Tables[n].Indexes) : r = <<n, i>>
BY DEF Relations

\* The file of a table's heap and of its i-th index.
LEMMA FileOfPair ==
  ASSUME NEW s, NEW n, NEW i
  PROVE  FileOf(s, <<n, i>>) = IF i = 0 THEN s.Tables[n].File ELSE s.Tables[n].Indexes[i].File
BY DEF FileOf

LEMMA EmptySound == Sound(emptyState) /\ Ids(emptyState) = {}
<1>1. /\ emptyState.NextID = 0 /\ emptyState.Tables = << >> /\ DOMAIN << >> = {}
      /\ emptyState = [NextID |-> emptyState.NextID, Tables |-> emptyState.Tables]
  BY DEF emptyState
<1>2. Relations(emptyState) = {}
  BY <1>1, RelationsOf
<1>3. emptyState.Tables \in [DOMAIN emptyState.Tables -> Table]
  BY <1>1
<1> QED
  BY <1>1, <1>2, <1>3, CatalogAssumption DEF Sound, Ids

LEMMA LoadedSound == \A f : SoundFile(f) => Sound(Loaded(f))
BY Documents, EmptySound DEF SoundFile, Loaded

LEMMA NoCallIsNone == NoCall \notin Calls
<1>1. NoCall.pc = "idle"
  BY DEF NoCall
<1>2. \A c \in Calls : c.pc # "idle"
  BY DEF Calls, Pcs
<1> QED
  BY <1>1, <1>2

\* Put and Delete, and that they undo a Put.
LEMMA PutDelete ==
  ASSUME NEW f, f \in [DOMAIN f -> Table], NEW k, NEW v \in Table
  PROVE  /\ Put(f, k, v) \in [DOMAIN f \cup {k} -> Table]
         /\ Put(f, k, v)[k] = v /\ \A x \in DOMAIN f : x # k => Put(f, k, v)[x] = f[x]
         /\ k \notin DOMAIN f => Delete(Put(f, k, v), k) = f
         /\ k \in DOMAIN f => Put(Put(f, k, v), k, f[k]) = f
<1> DEFINE p == Put(f, k, v)
<1>1. p \in [DOMAIN f \cup {k} -> Table] /\ p[k] = v /\ \A x \in DOMAIN f : x # k => p[x] = f[x]
  BY DEF Put
<1>2. ASSUME k \notin DOMAIN f PROVE Delete(p, k) = f
  <2>1. Delete(p, k) = [x \in DOMAIN f |-> p[x]]
    BY <1>1, <1>2 DEF Delete
  <2> QED
    BY <1>1, <1>2, <2>1
<1>3. ASSUME k \in DOMAIN f PROVE Put(p, k, f[k]) = f
  <2>1. Put(p, k, f[k]) = [x \in DOMAIN f |-> IF x = k THEN f[k] ELSE p[x]]
    BY <1>1, <1>3 DEF Put
  <2> QED
    BY <1>1, <1>3, <2>1
<1> QED
  BY <1>1, <1>2, <1>3

LEMMA FileOfIsId ==
  ASSUME NEW s, Sound(s), NEW r \in Relations(s)
  PROVE  FileOf(s, r) \in 0 .. MaxID
<1>1. PICK m \in DOMAIN s.Tables : \E i \in 0 .. Len(s.Tables[m].Indexes) : r = <<m, i>>
  BY RelationsOf
<1>2. PICK i \in 0 .. Len(s.Tables[m].Indexes) : r = <<m, i>>
  BY <1>1
<1>3. s.Tables[m].File \in 0 .. MaxID /\ s.Tables[m].Indexes \in Seq(Index)
  BY DEF Sound, Table
<1>4. i # 0 => s.Tables[m].Indexes[i] \in Index
  BY <1>3, ElementOfSeq, LenProperties
<1>5. i # 0 => s.Tables[m].Indexes[i].File \in 0 .. MaxID
  BY <1>4 DEF Index
<1> QED
  BY <1>2, <1>3, <1>5, FileOfPair

LEMMA DeleteUndoes ==
  ASSUME NEW f, f \in [DOMAIN f -> Table], NEW k, k \notin DOMAIN f, NEW v \in Table
  PROVE  Delete(Put(f, k, v), k) = f
BY PutDelete, Zenon

LEMMA PutUndoes ==
  ASSUME NEW f, f \in [DOMAIN f -> Table], NEW k \in DOMAIN f, NEW v \in Table
  PROVE  Put(Put(f, k, v), k, f[k]) = f
BY PutDelete, Zenon

\* One more relation, with the next id.
Grown(s, s2) ==
  \E r0 : /\ r0 \notin Relations(s) /\ Relations(s2) = Relations(s) \cup {r0}
          /\ FileOf(s2, r0) = s.NextID
          /\ \A r \in Relations(s) : FileOf(s2, r) = FileOf(s, r)

LEMMA GrownSound ==
  ASSUME NEW s, NEW n \in Name, NEW tm \in Table, NEW s2, Sound(s), s.NextID < MaxID,
         s2 = [NextID |-> s.NextID + 1, Tables |-> Put(s.Tables, n, tm)], Grown(s, s2)
  PROVE  Sound(s2) /\ Ids(s2) = Ids(s) \cup {s.NextID}
<1>1. PICK r0 : /\ r0 \notin Relations(s) /\ Relations(s2) = Relations(s) \cup {r0}
                /\ FileOf(s2, r0) = s.NextID
                /\ \A r \in Relations(s) : FileOf(s2, r) = FileOf(s, r)
  BY DEF Grown
<1>2. /\ s.NextID \in 0 .. MaxID /\ DOMAIN s.Tables \subseteq Name
      /\ s.Tables \in [DOMAIN s.Tables -> Table]
      /\ \A r \in Relations(s) : FileOf(s, r) < s.NextID
      /\ \A r, q \in Relations(s) : FileOf(s, r) = FileOf(s, q) => r = q
  BY Zenon DEF Sound
<1>3. s2.NextID = s.NextID + 1 /\ s2.Tables = Put(s.Tables, n, tm) /\ s2 = [NextID |-> s2.NextID, Tables |-> s2.Tables]
  OBVIOUS
<1>4. s2.Tables \in [DOMAIN s.Tables \cup {n} -> Table]
  BY <1>2, <1>3, PutDelete
<1>5. s2.NextID \in 0 .. MaxID
  BY <1>2, <1>3, CatalogAssumption
<1>6. \A r \in Relations(s2) : FileOf(s2, r) < s2.NextID
  <2>1. SUFFICES ASSUME NEW r \in Relations(s2) PROVE FileOf(s2, r) < s2.NextID
    OBVIOUS
  <2>2. CASE r = r0
    BY <1>1, <1>2, <1>3, <2>2
  <2>3. CASE r \in Relations(s)
    <3>1. FileOf(s2, r) = FileOf(s, r) /\ FileOf(s, r) < s.NextID
      BY <1>1, <1>2, <2>3
    <3>2. FileOf(s, r) \in 0 .. MaxID
      BY <2>3, FileOfIsId
    <3> QED
      BY <1>2, <1>3, <3>1, <3>2
  <2> QED
    BY <1>1, <2>2, <2>3
<1>7. \A r, q \in Relations(s2) : FileOf(s2, r) = FileOf(s2, q) => r = q
  <2>1. ASSUME NEW r \in Relations(s) PROVE FileOf(s, r) # s.NextID
    <3>1. FileOf(s, r) \in 0 .. MaxID /\ FileOf(s, r) < s.NextID
      BY <1>2, FileOfIsId
    <3> QED
      BY <1>2, <3>1
  <2>2. SUFFICES ASSUME NEW r \in Relations(s2), NEW q \in Relations(s2), FileOf(s2, r) = FileOf(s2, q)
                 PROVE  r = q
    OBVIOUS
  <2>3. CASE r \in Relations(s) /\ q \in Relations(s)
    BY <1>1, <1>2, <2>2, <2>3
  <2>4. CASE r = r0 /\ q \in Relations(s)
    BY <1>1, <2>1, <2>2, <2>4
  <2>5. CASE r \in Relations(s) /\ q = r0
    BY <1>1, <2>1, <2>2, <2>5
  <2> QED
    BY <1>1, <2>3, <2>4, <2>5
<1>8. Ids(s2) = Ids(s) \cup {s.NextID}
  BY <1>1 DEF Ids
<1> QED
  BY <1>2, <1>3, <1>4, <1>5, <1>6, <1>7, <1>8 DEF Sound

\* A new table is one more relation.
LEMMA TableGrows ==
  ASSUME NEW s, NEW n \in Name, NEW s2, Sound(s), n \notin DOMAIN s.Tables,
         s2 = [NextID |-> s.NextID + 1,
               Tables |-> Put(s.Tables, n, [File |-> s.NextID, Indexes |-> << >>])]
  PROVE  [File |-> s.NextID, Indexes |-> << >>] \in Table /\ Grown(s, s2)
<1> DEFINE tm == [File |-> s.NextID, Indexes |-> << >>]
           D == DOMAIN s.Tables
<1>1. tm \in Table /\ tm.File = s.NextID /\ Len(tm.Indexes) = 0
  <2>1. << >> \in Seq(Index) /\ Len(<< >>) = 0
    BY EmptySeq
  <2>2. s.NextID \in 0 .. MaxID
    BY DEF Sound
  <2> QED
    BY <2>1, <2>2 DEF Table
<1>2. s.Tables \in [D -> Table]
  BY DEF Sound
<1>3. s2.Tables \in [D \cup {n} -> Table] /\ s2.Tables[n] = tm /\ \A x \in D : s2.Tables[x] = s.Tables[x]
  <2>1. s2.Tables = Put(s.Tables, n, tm)
    OBVIOUS
  <2> HIDE DEF tm
  <2>2. /\ Put(s.Tables, n, tm) \in [D \cup {n} -> Table] /\ Put(s.Tables, n, tm)[n] = tm
        /\ \A x \in D : x # n => Put(s.Tables, n, tm)[x] = s.Tables[x]
    BY <1>1, <1>2 DEF Put
  <2>3. \A x \in D : x # n
    OBVIOUS
  <2> QED
    BY <2>1, <2>2, <2>3, Zenon
<1> HIDE DEF tm
<1>4. DOMAIN s2.Tables = D \cup {n}
  BY <1>3
<1>5. <<n, 0>> \notin Relations(s)
  BY RelationsOf
<1>6. Relations(s2) = Relations(s) \cup {<<n, 0>>}
  <2>1. ASSUME NEW r \in Relations(s2) PROVE r \in Relations(s) \cup {<<n, 0>>}
    <3>1. PICK m \in D \cup {n} : \E i \in 0 .. Len(s2.Tables[m].Indexes) : r = <<m, i>>
      BY <1>4, <2>1, RelationsOf
    <3>2. CASE m = n
      BY <1>1, <1>3, <3>1, <3>2
    <3>3. CASE m \in D
      BY <1>3, <3>1, <3>3, RelationsOf
    <3> QED
      BY <3>2, <3>3
  <2>2. ASSUME NEW r \in Relations(s) PROVE r \in Relations(s2)
    <3>1. PICK m \in D : \E i \in 0 .. Len(s.Tables[m].Indexes) : r = <<m, i>>
      BY <2>2, RelationsOf
    <3>2. m \in DOMAIN s2.Tables /\ s2.Tables[m] = s.Tables[m]
      BY <1>3, <1>4
    <3> QED
      BY <3>1, <3>2, RelationsOf
  <2>3. <<n, 0>> \in Relations(s2)
    <3>1. n \in DOMAIN s2.Tables /\ 0 \in 0 .. Len(s2.Tables[n].Indexes)
      BY <1>1, <1>3, <1>4
    <3> QED
      BY <3>1, RelationsOf
  <2> QED
    BY <2>1, <2>2, <2>3
<1>7. FileOf(s2, <<n, 0>>) = s.NextID
  BY <1>1, <1>3, FileOfPair
<1>8. ASSUME NEW r \in Relations(s) PROVE FileOf(s2, r) = FileOf(s, r)
  <2>1. PICK m \in D : \E i \in 0 .. Len(s.Tables[m].Indexes) : r = <<m, i>>
    BY <1>8, RelationsOf
  <2> QED
    BY <1>3, <2>1, FileOfPair
<1> QED
  BY <1>1, <1>5, <1>6, <1>7, <1>8 DEF Grown, tm

LEMMA TableMade ==
  ASSUME NEW id \in 0 .. MaxID, NEW a \in Seq(Index), NEW tm, tm = [File |-> id, Indexes |-> a]
  PROVE  tm \in Table /\ tm.File = id /\ tm.Indexes = a
BY DEF Table

\* In s2 the table n of s has one more index, at the end, with the next id.
Count(s, x) == Len(s.Tables[x].Indexes)
Longer(s, s2, n) ==
  /\ n \in DOMAIN s.Tables /\ DOMAIN s2.Tables = DOMAIN s.Tables
  /\ Count(s, n) \in Nat /\ Count(s2, n) = Count(s, n) + 1
  /\ \A x \in DOMAIN s.Tables : x # n => Count(s2, x) = Count(s, x)
  /\ \A x \in DOMAIN s.Tables : \A i \in 0 .. Count(s, x) : FileOf(s2, <<x, i>>) = FileOf(s, <<x, i>>)
  /\ FileOf(s2, <<n, Count(s, n) + 1>>) = s.NextID

LEMMA IndexAdded ==
  ASSUME NEW s, NEW s2, NEW n, Longer(s, s2, n)
  PROVE  Grown(s, s2)
<1> DEFINE D == DOMAIN s.Tables
           k == Count(s, n) + 1
<1>1. /\ n \in D /\ DOMAIN s2.Tables = D /\ k - 1 = Count(s, n) /\ k \in Nat /\ k > 0
      /\ Count(s, n) \in Nat /\ Count(s2, n) = k
  BY DEF Longer
<1>2. \A x \in D : x # n => Count(s2, x) = Count(s, x)
  BY DEF Longer
<1>3. \A x \in D : \A i \in 0 .. Count(s, x) : FileOf(s2, <<x, i>>) = FileOf(s, <<x, i>>)
  BY DEF Longer
<1>4. FileOf(s2, <<n, k>>) = s.NextID
  BY DEF Longer
<1>5. /\ \A r : r \in Relations(s) <=> \E x \in D : \E i \in 0 .. Count(s, x) : r = <<x, i>>
      /\ \A r : r \in Relations(s2) <=> \E x \in D : \E i \in 0 .. Count(s2, x) : r = <<x, i>>
  BY <1>1, RelationsOf DEF Count
<1> HIDE DEF k, D
<1>6. <<n, k>> \notin Relations(s)
  BY <1>1, <1>5
<1>7. Relations(s2) = Relations(s) \cup {<<n, k>>}
  <2>1. ASSUME NEW r \in Relations(s2) PROVE r \in Relations(s) \cup {<<n, k>>}
    <3>1. PICK x \in D : \E i \in 0 .. Count(s2, x) : r = <<x, i>>
      BY <1>5, <2>1
    <3>2. PICK i \in 0 .. Count(s2, x) : r = <<x, i>>
      BY <3>1
    <3>3. i \in 0 .. Count(s, x) \/ (x = n /\ i = k)
      BY <1>1, <1>2, <3>2
    <3> QED
      BY <1>5, <3>2, <3>3
  <2>2. ASSUME NEW r \in Relations(s) PROVE r \in Relations(s2)
    <3>1. PICK x \in D : \E i \in 0 .. Count(s, x) : r = <<x, i>>
      BY <1>5, <2>2
    <3>2. PICK i \in 0 .. Count(s, x) : r = <<x, i>>
      BY <3>1
    <3>3. i \in 0 .. Count(s2, x)
      BY <1>1, <1>2, <3>2
    <3> QED
      BY <1>5, <3>2, <3>3
  <2>3. k \in 0 .. Count(s2, n)
    BY <1>1
  <2> QED
    BY <1>1, <1>5, <2>1, <2>2, <2>3
<1>8. \A r \in Relations(s) : FileOf(s2, r) = FileOf(s, r)
  BY <1>3, <1>5
<1> QED
  BY <1>4, <1>6, <1>7, <1>8 DEF Grown

\* So is a new index of a table.
LEMMA IndexGrows ==
  ASSUME NEW s, NEW n, NEW im \in Index, NEW tm, NEW s2, Sound(s), n \in DOMAIN s.Tables,
         im.File = s.NextID
  PROVE  /\ tm = [s.Tables[n] EXCEPT !.Indexes = Append(@, im)]
         /\ s2 = [NextID |-> s.NextID + 1, Tables |-> Put(s.Tables, n, tm)]
         => tm \in Table /\ Grown(s, s2)
<1>0. SUFFICES ASSUME tm = [s.Tables[n] EXCEPT !.Indexes = Append(@, im)],
                      s2 = [NextID |-> s.NextID + 1, Tables |-> Put(s.Tables, n, tm)]
               PROVE  tm \in Table /\ Grown(s, s2)
  OBVIOUS
<1> DEFINE D == DOMAIN s.Tables
           old == s.Tables[n]
           k == Len(old.Indexes) + 1
<1>1. s.Tables \in [D -> Table] /\ old \in Table /\ old.Indexes \in Seq(Index) /\ k \in Nat /\ k > 0
  <2>1. s.Tables \in [D -> Table]
    BY DEF Sound
  <2>2. old \in Table /\ old.Indexes \in Seq(Index)
    BY <2>1 DEF Table
  <2> QED
    BY <2>1, <2>2, LenProperties
<1>2. /\ tm \in Table /\ tm.File = old.File /\ Len(tm.Indexes) = k /\ tm.Indexes[k] = im
      /\ \A i \in 1 .. Len(old.Indexes) : tm.Indexes[i] = old.Indexes[i]
  <2> DEFINE a == Append(old.Indexes, im)
  <2>1. tm = [File |-> old.File, Indexes |-> a]
    BY <1>0, <1>1 DEF Table
  <2>2. /\ a \in Seq(Index) /\ Len(a) = k /\ a[k] = im
        /\ \A i \in 1 .. Len(old.Indexes) : a[i] = old.Indexes[i]
    BY <1>1, AppendProperties
  <2>3. old.File \in 0 .. MaxID
    BY <1>1 DEF Table
  <2> HIDE DEF a
  <2>4. tm.File = old.File /\ tm.Indexes = a /\ tm \in Table
    <3> HIDE DEF old
    <3> QED
      BY <2>1, <2>2, <2>3, TableMade
  <2> QED
    BY <2>2, <2>4, Zenon
<1>3. s2.Tables \in [D -> Table] /\ s2.Tables[n] = tm /\ \A x \in D : x # n => s2.Tables[x] = s.Tables[x]
  <2>1. s2.Tables = Put(s.Tables, n, tm)
    BY <1>0
  <2>2. /\ Put(s.Tables, n, tm) \in [D -> Table] /\ Put(s.Tables, n, tm)[n] = tm
        /\ \A x \in D : x # n => Put(s.Tables, n, tm)[x] = s.Tables[x]
    BY <1>1, <1>2 DEF Put
  <2> QED
    BY <2>1, <2>2, Zenon
<1>4. DOMAIN s2.Tables = D
  BY <1>3
<1>5. /\ Count(s, n) \in Nat /\ k = Count(s, n) + 1 /\ Count(s2, n) = k
      /\ \A x \in D : x # n => Count(s2, x) = Count(s, x)
  <2>1. Len(old.Indexes) \in Nat
    BY <1>1, LenProperties
  <2> QED
    BY <1>2, <1>3, <2>1 DEF Count
<1>6. ASSUME NEW x \in D, NEW i \in 0 .. Count(s, x) PROVE FileOf(s2, <<x, i>>) = FileOf(s, <<x, i>>)
  <2>1. CASE x = n
    <3>1. i = 0 \/ i \in 1 .. Len(old.Indexes)
      BY <1>5, <2>1 DEF Count
    <3> HIDE DEF k
    <3> QED
      BY <1>2, <1>3, <2>1, <3>1, FileOfPair
  <2>2. CASE x # n
    BY <1>3, <2>2, FileOfPair
  <2> QED
    BY <2>1, <2>2
<1>7. FileOf(s2, <<n, k>>) = s.NextID
  <2>1. k # 0 /\ s2.Tables[n].Indexes[k].File = s.NextID
    BY <1>1, <1>2, <1>3
  <2> HIDE DEF k
  <2> QED
    BY <2>1, FileOfPair
<1>8. Longer(s, s2, n)
  BY <1>4, <1>5, <1>6, <1>7 DEF Longer
<1> QED
  BY <1>2, <1>8, IndexAdded, Zenon

-----------------------------------------------------------------------------
(* One lemma per action.                                                   *)

\* An id below the bound is not cut by the conversion to uint32.
LEMMA NextIdFits == \A i \in 0 .. MaxID : i < MaxID => nextID(i) = i + 1
<1>1. \A m \in Nat : \A i \in 0 .. m : i % (m + 1) = i
  OBVIOUS
<1>2. \A i \in 0 .. MaxID : i < MaxID => i + 1 \in 0 .. MaxUint32
  BY CatalogAssumption
<1> QED
  BY <1>1, <1>2, CatalogAssumption DEF nextID

\* The common part of CreateTable and CreateIndex.
LEMMA ChangeKInv ==
  ASSUME KInv, NEW n \in Name, NEW tm \in Table, NEW old, Change(n, tm, old),
         \/ n \notin DOMAIN state.Tables /\ old = << >>
         \/ n \in DOMAIN state.Tables /\ old = <<state.Tables[n]>>,
         Grown(state, [NextID |-> state.NextID + 1, Tables |-> Put(state.Tables, n, tm)])
  PROVE  KInv'
<1> DEFINE new == [NextID |-> state.NextID + 1, Tables |-> Put(state.Tables, n, tm)]
<1>1. /\ up /\ call = NoCall /\ state.NextID < MaxID
      /\ state' = [NextID |-> nextID(state.NextID), Tables |-> Put(state.Tables, n, tm)]
      /\ call' = [pc |-> "save", id |-> state.NextID, name |-> n, old |-> old]
      /\ UNCHANGED <<up, catalogFile, tmpFile, afterCrash, acked, shown, crashed>>
  BY Zenon DEF Change, files, history
<1>2. /\ Sound(state) /\ state.NextID \in 0 .. MaxID /\ state.Tables \in [DOMAIN state.Tables -> Table]
      /\ state = [NextID |-> state.NextID, Tables |-> state.Tables]
      /\ state = Loaded(catalogFile)
  <2>1. Sound(state) /\ state = Loaded(catalogFile)
    BY <1>1, Zenon DEF KInv, Types, Control
  <2> QED
    BY <2>1 DEF Sound
<1>3. state' = new
  BY <1>1, <1>2, NextIdFits
<1>4. Sound(state') /\ Ids(state') = Ids(state) \cup {state.NextID}
  <2>1. Grown(state, state')
    BY <1>3
  <2> QED
    BY <1>1, <1>2, <1>3, <2>1, GrownSound
<1>5. state'.NextID = state.NextID + 1 /\ state'.Tables = Put(state.Tables, n, tm)
  BY <1>3
<1>6. /\ call'.pc = "save" /\ call'.id = state.NextID /\ call'.name = n /\ call'.old = old
  BY <1>1
<1>7. call' \in Calls
  <2>1. old \in {<< >>} \cup {<<t>> : t \in Table}
    BY <1>2
  <2> QED
    BY <1>1, <1>2, <2>1 DEF Calls, Pcs
<1>8. RollBack' = state
  <2>1. RollBack' = [NextID |-> state.NextID,
                     Tables |-> IF old = << >> THEN Delete(Put(state.Tables, n, tm), n)
                                ELSE Put(Put(state.Tables, n, tm), n, old[1])]
    BY <1>5, <1>6 DEF RollBack
  <2>2. CASE n \notin DOMAIN state.Tables /\ old = << >>
    <3>1. Delete(Put(state.Tables, n, tm), n) = state.Tables
      BY <1>2, <2>2, DeleteUndoes
    <3> QED
      BY <1>2, <2>1, <2>2, <3>1
  <2>3. CASE n \in DOMAIN state.Tables /\ old = <<state.Tables[n]>>
    <3>1. Put(Put(state.Tables, n, tm), n, state.Tables[n]) = state.Tables
      BY <1>2, <2>3, PutUndoes
    <3>2. old # << >> /\ old[1] = state.Tables[n]
      BY <2>3
    <3> QED
      BY <1>2, <2>1, <3>1, <3>2
  <2> QED
    BY <2>2, <2>3
<1>9. call' # NoCall
  BY <1>7, NoCallIsNone
<1>10. Pending'
  BY <1>1, <1>2, <1>4, <1>5, <1>6, <1>7, <1>8 DEF Pending, Loaded
<1>11. Types'
  BY <1>1, <1>4 DEF KInv, Types, SoundFile
<1>12. Stored'
  BY <1>1, <1>2 DEF KInv, Stored
<1> QED
  BY <1>9, <1>10, <1>11, <1>12 DEF KInv, Control

LEMMA CreateTableKInv == ASSUME KInv, NEW n \in Name, CreateTable(n) PROVE KInv'
<1> DEFINE tm == [File |-> state.NextID, Indexes |-> << >>]
           new == [NextID |-> state.NextID + 1, Tables |-> Put(state.Tables, n, tm)]
<1>1. n \notin DOMAIN state.Tables /\ Change(n, tm, << >>) /\ Sound(state)
  BY Zenon DEF CreateTable, KInv, Types
<1>2. tm \in Table /\ Grown(state, new)
  BY <1>1, TableGrows
<1> QED
  BY <1>1, <1>2, ChangeKInv, Zenon

LEMMA CreateIndexKInv ==
  ASSUME KInv, NEW t \in Name, NEW n \in IndexName, NEW c \in -1 .. Columns, CreateIndex(t, n, c)
  PROVE  KInv'
<1> DEFINE im == [Name |-> n, Column |-> c, File |-> state.NextID]
           tm == [state.Tables[t] EXCEPT !.Indexes = Append(@, im)]
           new == [NextID |-> state.NextID + 1, Tables |-> Put(state.Tables, t, tm)]
<1>1. t \in DOMAIN state.Tables /\ InSchema(c) /\ Change(t, tm, <<state.Tables[t]>>) /\ Sound(state)
  BY Zenon DEF CreateIndex, KInv, Types
<1>2. im \in Index /\ im.File = state.NextID
  <2>1. state.NextID \in 0 .. MaxID
    BY <1>1 DEF Sound
  <2>2. c \in 0 .. Columns - 1
    BY <1>1, CatalogAssumption DEF InSchema
  <2> QED
    BY <2>1, <2>2 DEF Index
<1> HIDE DEF im
<1>3. tm \in Table /\ Grown(state, new)
  BY <1>1, <1>2, IndexGrows, Zenon
<1> HIDE DEF tm
<1> QED
  BY <1>1, <1>3, ChangeKInv, Zenon

\* A call in progress, and what its next step keeps.
LEMMA CallFacts ==
  ASSUME KInv, call.pc \in Pcs
  PROVE  /\ call # NoCall /\ Pending /\ call \in Calls /\ up
         /\ \A pc \in Pcs : [call EXCEPT !.pc = pc] \in Calls
         /\ \A pc \in Pcs : LET c == [call EXCEPT !.pc = pc]
                            IN  c.pc = pc /\ c.id = call.id /\ c.name = call.name /\ c.old = call.old
<1>1. NoCall.pc \notin Pcs
  BY DEF NoCall, Pcs
<1>2. call # NoCall
  BY <1>1
<1>3. Pending
  BY <1>2, Zenon DEF KInv, Control
<1>4. call \in Calls /\ up
  BY <1>3 DEF Pending
<1> QED
  BY <1>2, <1>3, <1>4 DEF Calls

LEMMA OpenKInv == ASSUME KInv, Open PROVE KInv'
<1>1. /\ ~up /\ up' = TRUE /\ catalogFile # Half
      /\ state' = IF catalogFile = Missing THEN emptyState ELSE catalogFile.state
      /\ UNCHANGED <<call, catalogFile, tmpFile, afterCrash, acked, shown, crashed>>
  BY DEF Open, files, history
<1>2. call = NoCall
  BY <1>1 DEF KInv, Control, Pending
<1>3. SoundFile(catalogFile)
  BY DEF KInv, Types
<1>4. state' = Loaded(catalogFile)
  BY <1>1, <1>3, Documents DEF SoundFile, Loaded
<1>5. Sound(state')
  BY <1>3, <1>4, LoadedSound
<1>6. Types' /\ Stored'
  BY <1>1, <1>5 DEF KInv, Types, Stored
<1> QED
  BY <1>1, <1>2, <1>4, <1>6 DEF KInv, Control

LEMMA WriteTempKInv == ASSUME KInv, WriteTemp PROVE KInv'
<1>1. /\ call.pc = "save" /\ call' = [call EXCEPT !.pc = "writing"] /\ tmpFile' = Half
      /\ UNCHANGED <<up, state, catalogFile, afterCrash, acked, shown, crashed>>
  BY DEF WriteTemp, At, Goto, history
<1>2. Pending /\ up
  BY <1>1, CallFacts DEF Pcs
<1>3. /\ call' \in Calls /\ call'.pc = "writing" /\ call'.id = call.id
      /\ call'.name = call.name /\ call'.old = call.old
  BY <1>1, CallFacts DEF Pcs
<1>4. RollBack' = RollBack
  BY <1>1, <1>3 DEF RollBack
<1>5. Pending'
  BY <1>1, <1>2, <1>3, <1>4 DEF Pending
<1>6. call' # NoCall
  BY <1>3, NoCallIsNone
<1>7. Types' /\ Stored'
  BY <1>1 DEF KInv, Types, Stored, SoundFile
<1> QED
  BY <1>5, <1>6, <1>7 DEF KInv, Control

LEMMA TempWrittenKInv == ASSUME KInv, TempWritten PROVE KInv'
<1>1. /\ call.pc = "writing" /\ call' = [call EXCEPT !.pc = "rename"] /\ tmpFile' = Document(state)
      /\ UNCHANGED <<up, state, catalogFile, afterCrash, acked, shown, crashed>>
  BY DEF TempWritten, At, Goto, history
<1>2. Pending /\ up
  BY <1>1, CallFacts DEF Pcs
<1>3. /\ call' \in Calls /\ call'.pc = "rename" /\ call'.id = call.id
      /\ call'.name = call.name /\ call'.old = call.old
  BY <1>1, CallFacts DEF Pcs
<1>4. RollBack' = RollBack
  BY <1>1, <1>3 DEF RollBack
<1>5. Pending'
  BY <1>1, <1>2, <1>3, <1>4 DEF Pending
<1>6. call' # NoCall
  BY <1>3, NoCallIsNone
<1>7. Types' /\ Stored'
  BY <1>1 DEF KInv, Types, Stored, SoundFile
<1> QED
  BY <1>5, <1>6, <1>7 DEF KInv, Control

\* The rename replaces a document by one with a relation more.
LEMMA RenameKInv == ASSUME KInv, Rename PROVE KInv'
<1>1. /\ call.pc = "rename" /\ call' = [call EXCEPT !.pc = "return"]
      /\ catalogFile' = tmpFile /\ tmpFile' = Missing
      /\ afterCrash' = afterCrash \cup {tmpFile, Half}
      /\ UNCHANGED <<up, state, acked, shown, crashed>>
  BY DEF Rename, RenameFile, MayRename, At, Goto, history
<1>2. Pending /\ up
  BY <1>1, CallFacts DEF Pcs
<1>3. /\ call' \in Calls /\ call'.pc = "return" /\ call'.id = call.id
  BY <1>1, CallFacts DEF Pcs
<1>4. catalogFile' = Document(state) /\ Ids(Loaded(catalogFile)) \subseteq Ids(state)
  BY <1>1, <1>2 DEF Pending
<1>5. Loaded(catalogFile') = state /\ catalogFile' # Half
  BY <1>4, Documents DEF Loaded
<1>6. Pending'
  BY <1>1, <1>2, <1>3, <1>4 DEF Pending
<1>7. call' # NoCall
  BY <1>3, NoCallIsNone
<1>8. Types'
  BY <1>1 DEF KInv, Types, SoundFile
<1>9. Stored'
  BY <1>1, <1>4, <1>5 DEF KInv, Stored
<1> QED
  BY <1>6, <1>7, <1>8, <1>9 DEF KInv, Control

LEMMA ReturnKInv == ASSUME KInv, Return PROVE KInv'
<1>1. /\ call.pc = "return" /\ call' = NoCall /\ acked' = acked \cup {call.id}
      /\ UNCHANGED <<up, state, catalogFile, tmpFile, afterCrash, shown, crashed>>
  BY DEF Return, At, files
<1>2. Pending /\ call \in Calls
  BY <1>1, CallFacts DEF Pcs
<1>3. call.id \in Ids(state) /\ call.id \in 0 .. MaxID /\ state = Loaded(catalogFile)
  BY <1>1, <1>2, Documents DEF Pending, Calls, Loaded
<1>4. Types' /\ Stored'
  BY <1>1, <1>3 DEF KInv, Types, Stored, SoundFile
<1> QED
  BY <1>1, <1>3, <1>4 DEF KInv, Control

LEMMA SaveFailsKInv == ASSUME KInv, SaveFails PROVE KInv'
<1>1. /\ call.pc \in Pcs /\ call.pc # "return" /\ state' = RollBack /\ call' = NoCall
      /\ UNCHANGED <<up, catalogFile, tmpFile, afterCrash, acked, shown, crashed>>
  BY DEF SaveFails, Pcs, files, history
<1>2. RollBack = Loaded(catalogFile)
  BY <1>1, CallFacts DEF Pending
<1>3. Sound(state')
  BY <1>1, <1>2, LoadedSound DEF KInv, Types
<1>4. Types' /\ Stored'
  BY <1>1, <1>3 DEF KInv, Types, Stored, SoundFile
<1> QED
  BY <1>1, <1>2, <1>4 DEF KInv, Control

\* A reader is shown relations of a state that is in the file.
LEMMA ShowKInv == ASSUME KInv, Readable, NEW ids, ids \subseteq Ids(state), Show(ids) PROVE KInv'
<1>1. /\ up /\ call = NoCall /\ shown' = IF crashed THEN shown ELSE shown \cup ids
      /\ UNCHANGED <<up, state, call, catalogFile, tmpFile, afterCrash, acked, crashed>>
  BY DEF Readable, Show, files
<1>2. state = Loaded(catalogFile) /\ Sound(state)
  BY <1>1 DEF KInv, Control, Types
<1>3. ids \subseteq 0 .. MaxID
  BY <1>2, FileOfIsId DEF Ids
<1>4. Types' /\ Stored'
  BY <1>1, <1>2, <1>3 DEF KInv, Types, Stored
<1> QED
  BY <1>1, <1>2, <1>4 DEF KInv, Control

LEMMA ReadersKInv == ASSUME KInv, ListTables \/ \E n \in Name : GetTable(n) PROVE KInv'
<1>1. CASE ListTables
  BY <1>1, ShowKInv DEF ListTables
<1>2. CASE \E n \in Name : GetTable(n)
  <2>1. PICK n \in Name : GetTable(n)
    BY <1>2
  <2> DEFINE ids == {FileOf(state, r) : r \in {q \in Relations(state) : q[1] = n}}
  <2>2. Readable /\ Show(ids)
    BY <2>1, Zenon DEF GetTable
  <2>3. ids \subseteq Ids(state)
    BY DEF Ids
  <2> HIDE DEF ids
  <2> QED
    BY <2>2, <2>3, ShowKInv
<1> QED
  BY <1>1, <1>2

\* Everything outside the process: write-back, its end, and a machine crash.
LEMMA OutsideKInv == ASSUME KInv, OSWriteBack \/ Exit \/ Crash PROVE KInv'
<1>1. CASE OSWriteBack
  <2>1. /\ afterCrash' = {catalogFile}
        /\ UNCHANGED <<up, state, call, catalogFile, tmpFile, acked, shown, crashed>>
    BY <1>1 DEF OSWriteBack, history
  <2>2. Types' /\ Stored'
    BY <2>1 DEF KInv, Types, Stored
  <2>3. call # NoCall => Pending'
    BY <2>1 DEF KInv, Control, Pending, RollBack
  <2> QED
    BY <2>1, <2>2, <2>3 DEF KInv, Control
<1>2. CASE Exit
  <2>1. /\ up' = FALSE /\ state' = emptyState /\ call' = NoCall
        /\ UNCHANGED <<catalogFile, tmpFile, afterCrash, acked, shown, crashed>>
    BY <1>2 DEF Exit, Stop, files, history
  <2>2. Types' /\ Stored'
    BY <2>1, EmptySound DEF KInv, Types, Stored, SoundFile
  <2> QED
    BY <2>1, <2>2 DEF KInv, Control
<1>3. CASE Crash
  <2>1. /\ up' = FALSE /\ state' = emptyState /\ call' = NoCall /\ crashed' = TRUE
        /\ shown' = {} /\ acked' = acked /\ tmpFile' \in {Missing, Half, tmpFile}
    BY <1>3 DEF Crash, Stop
  <2>2. PICK d \in afterCrash : catalogFile' = d /\ afterCrash' = {d}
    BY <1>3 DEF Crash
  <2>3. SoundFile(catalogFile') /\ SoundFile(tmpFile') /\ \A f \in afterCrash' : SoundFile(f)
    BY <2>1, <2>2 DEF KInv, Types, SoundFile
  <2>4. Types' /\ Stored'
    BY <2>1, <2>3, EmptySound DEF KInv, Types, Stored
  <2> QED
    BY <2>1, <2>4 DEF KInv, Control
<1> QED
  BY <1>1, <1>2, <1>3

LEMMA InitKInv == ASSUME Init PROVE KInv
<1>1. up = FALSE /\ call = NoCall /\ state = emptyState /\ catalogFile = Missing /\ tmpFile = Missing
      /\ afterCrash = {Missing} /\ acked = {} /\ shown = {} /\ crashed = FALSE
  BY DEF Init
<1>2. Types /\ Stored
  BY <1>1, EmptySound, Documents DEF Types, Stored, SoundFile
<1> QED
  BY <1>1, <1>2 DEF KInv, Control

LEMMA StutterKInv == ASSUME KInv, UNCHANGED vars PROVE KInv'
<1>1. UNCHANGED <<up, state, call, catalogFile, tmpFile, afterCrash, acked, shown, crashed>>
  BY DEF vars, files, history
<1>2. Types' /\ Stored'
  BY <1>1 DEF KInv, Types, Stored
<1>3. Control'
  BY <1>1 DEF KInv, Control, Pending, RollBack
<1> QED
  BY <1>2, <1>3 DEF KInv

LEMMA NextKInv == ASSUME KInv, [Next]_vars PROVE KInv'
<1>1. CASE Open \/ WriteTemp \/ TempWritten \/ Rename \/ Return \/ SaveFails
  BY <1>1, OpenKInv, WriteTempKInv, TempWrittenKInv, RenameKInv, ReturnKInv, SaveFailsKInv
<1>2. CASE OSWriteBack \/ Exit \/ Crash
  BY <1>2, OutsideKInv
<1>3. CASE ListTables \/ \E n \in Name : CreateTable(n) \/ GetTable(n)
  BY <1>3, ReadersKInv, CreateTableKInv
<1>4. CASE \E t \in Name, n \in IndexName, c \in -1 .. Columns : CreateIndex(t, n, c)
  BY <1>4, CreateIndexKInv
<1>5. CASE UNCHANGED vars
  BY <1>5, StutterKInv
<1> QED
  BY <1>1, <1>2, <1>3, <1>4, <1>5 DEF Next

-----------------------------------------------------------------------------
(* The theorems.                                                           *)

\* KInv holds in every reachable state.
THEOREM CatalogInductive == Spec => []KInv
BY InitKInv, NextKInv, PTL DEF Spec

LEMMA SoundIsState == \A s : Sound(s) => IsState(s)
BY DEF Sound, IsState, IsTable, Table

\* State, documents and the call in progress have the shape that catalog.go
\* gives them, whatever the names and the number of columns.
THEOREM TypeCorrect == Spec => []TypeOK
<1>1. ASSUME KInv PROVE TypeOK
  <2>1. ASSUME NEW f, SoundFile(f) PROVE IsFile(f)
    BY <2>1, Documents, SoundIsState DEF SoundFile, IsFile
  <2>2. \/ call = NoCall
        \/ /\ call.pc \in {"save", "writing", "rename", "return"}
           /\ call.id \in 0 .. MaxID /\ call.name \in Name
           /\ call.old = << >> \/ IsTable(call.old[1])
    <3>1. call # NoCall => call \in Calls
      BY <1>1 DEF KInv, Control, Pending
    <3>2. ASSUME call \in Calls
          PROVE  /\ call.pc \in Pcs /\ call.id \in 0 .. MaxID /\ call.name \in Name
                 /\ call.old = << >> \/ \E tm \in Table : call.old = <<tm>>
      BY <3>2 DEF Calls
    <3>3. ASSUME NEW tm \in Table, call.old = <<tm>> PROVE IsTable(call.old[1])
      BY <3>3 DEF Table, IsTable
    <3> QED
      BY <3>1, <3>2, <3>3 DEF Pcs
  <2> QED
    BY <1>1, <2>1, <2>2, SoundIsState DEF KInv, Types, TypeOK
<1>2. KInv => TypeOK
  BY <1>1
<1> QED
  BY <1>2, CatalogInductive, PTL

\* Between calls memory and file agree, however many saves have failed before.
THEOREM RollbacksRestore == Spec => []MemoryMatchesFile
<1>1. KInv => MemoryMatchesFile
  BY DEF KInv, Control, MemoryMatchesFile
<1> QED
  BY <1>1, CatalogInductive, PTL

\* No file is given to two relations, nor is the next one's taken: in memory
\* and in the stored document, after failures, restarts and machine crashes.
THEOREM FilesAreUnique == Spec => []OneFilePerRelation
<1>1. ASSUME KInv PROVE OneFilePerRelation
  <2>1. SUFFICES ASSUME NEW s, Sound(s)
                 PROVE  /\ \A r, q \in Relations(s) : FileOf(s, r) = FileOf(s, q) => r = q
                        /\ s.NextID \notin Ids(s)
    BY <1>1, LoadedSound DEF KInv, Types, OneFilePerRelation
  <2>2. ASSUME NEW r \in Relations(s) PROVE FileOf(s, r) # s.NextID
    <3>1. FileOf(s, r) \in 0 .. MaxID /\ FileOf(s, r) < s.NextID /\ s.NextID \in 0 .. MaxID
      BY <2>1, FileOfIsId DEF Sound
    <3> QED
      BY <3>1
  <2>3. s.NextID \notin Ids(s)
    BY <2>2 DEF Ids
  <2> QED
    BY <2>1, <2>3 DEF Sound
<1>2. KInv => OneFilePerRelation
  BY <1>1
<1> QED
  BY <1>2, CatalogInductive, PTL

\* A reported relation stays in the file and keeps its id, however often the
\* process is killed in the middle of a save and saves fail.
THEOREM ReportsAreKept == Spec => []ReportedIsStored
<1>1. ASSUME KInv PROVE ReportedIsStored
  <2>1. SUFFICES ASSUME ~crashed
                 PROVE  /\ acked \subseteq Ids(Loaded(catalogFile))
                        /\ up => state.NextID \notin acked
    BY DEF ReportedIsStored
  <2>2. acked \subseteq Ids(Loaded(catalogFile))
    BY <1>1, <2>1 DEF KInv, Stored
  <2>3. ASSUME up PROVE Ids(Loaded(catalogFile)) \subseteq Ids(state)
    <3>1. CASE call = NoCall
      BY <1>1, <2>3, <3>1 DEF KInv, Control
    <3>2. CASE call # NoCall
      <4>1. Pending
        BY <1>1, <3>2 DEF KInv, Control
      <4>2. CASE call.pc # "return"
        BY <4>1, <4>2 DEF Pending
      <4>3. CASE call.pc = "return"
        <5>1. catalogFile = Document(state)
          BY <4>1, <4>3 DEF Pending
        <5> QED
          BY <5>1, Documents DEF Loaded
      <4> QED
        BY <4>2, <4>3
    <3> QED
      BY <3>1, <3>2
  <2>4. ASSUME NEW r \in Relations(state) PROVE FileOf(state, r) # state.NextID
    <3>1. Sound(state)
      BY <1>1 DEF KInv, Types
    <3>2. /\ FileOf(state, r) \in 0 .. MaxID /\ FileOf(state, r) < state.NextID
          /\ state.NextID \in 0 .. MaxID
      BY <3>1, FileOfIsId DEF Sound
    <3> QED
      BY <3>2
  <2>5. state.NextID \notin Ids(state)
    BY <2>4 DEF Ids
  <2> QED
    BY <2>2, <2>3, <2>5
<1>2. KInv => ReportedIsStored
  BY <1>1
<1> QED
  BY <1>2, CatalogInductive, PTL

\* No reader sees a relation whose save may still fail.
THEOREM NoDirtyRead == Spec => []ShownIsStored
<1>1. KInv => ShownIsStored
  BY DEF KInv, Stored, ShownIsStored
<1> QED
  BY <1>1, CatalogInductive, PTL

\* The process may be killed at any point of a save: the next Open parses.
THEOREM NeverHalf == Spec => []AlwaysOpens
<1>1. KInv => AlwaysOpens
  BY DEF KInv, Stored, AlwaysOpens
<1> QED
  BY <1>1, CatalogInductive, PTL
=============================================================================

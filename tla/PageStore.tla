------------------------------ MODULE PageStore ------------------------------
(***************************************************************************)
(* What the buffer pool promises its callers, with no frame, no eviction   *)
(* and no disk in sight: a set of files that grow page by page.  A caller  *)
(* holds a page from the call that gave it out (FetchPage or NewPage) to   *)
(* UnpinPage, and whatever it stores through the pointer is what every     *)
(* holder of that page, now or later, finds there.                         *)
(***************************************************************************)
EXTENDS Integers

CONSTANTS
  Holder,   \* one element per pin that can be outstanding at a time
  Value,    \* page images a caller can store
  Blank,    \* the image of a page that was allocated and never written
  Torn,     \* an image that mixes the bytes of two others
  MaxFiles, \* bound on the number of registered files
  MaxPages  \* bound on the pages of a file

FileID == 0..MaxFiles-1
PageID == 0..MaxPages-1
Key    == FileID \X PageID
NoKey  == <<-1, -1>>
Image  == Value \cup {Blank, Torn}

VARIABLES
  files,     \* the number of registered files
  numPages,  \* numPages[i]: the number of pages of file i
  store,     \* store[k]: the current image of page k
  held,      \* held[h]: the page that holder h has pinned, or NoKey
  wrote      \* wrote[h]: h stored something since it got the page

vars == <<files, numPages, store, held, wrote>>

Exists(k) == k[1] < files /\ k[2] < numPages[k[1]]

Init ==
  /\ files = 0
  /\ numPages = [i \in FileID |-> 0]
  /\ store = [k \in Key |-> Blank]
  /\ held = [h \in Holder |-> NoKey]
  /\ wrote = [h \in Holder |-> FALSE]

Register(n) ==
  /\ files < MaxFiles
  /\ files' = files + 1
  /\ numPages' = [numPages EXCEPT ![files] = n]
  /\ UNCHANGED <<store, held, wrote>>

Fetch(h, k) ==
  /\ Exists(k)
  /\ held[h] = NoKey
  /\ held' = [held EXCEPT ![h] = k]
  /\ UNCHANGED <<files, numPages, store, wrote>>

NewPage(h, i) ==
  LET k == <<i, numPages[i]>> IN
  /\ i < files /\ numPages[i] < MaxPages
  /\ held[h] = NoKey
  /\ held' = [held EXCEPT ![h] = k]
  /\ numPages' = [numPages EXCEPT ![i] = @ + 1]
  /\ store' = [store EXCEPT ![k] = Blank]
  /\ UNCHANGED <<files, wrote>>

Store(h, v) ==
  /\ held[h] # NoKey
  /\ store' = [store EXCEPT ![held[h]] = v]
  /\ wrote' = [wrote EXCEPT ![h] = TRUE]
  /\ UNCHANGED <<files, numPages, held>>

Release(h) ==
  /\ held[h] # NoKey
  /\ held' = [held EXCEPT ![h] = NoKey]
  /\ wrote' = [wrote EXCEPT ![h] = FALSE]
  /\ UNCHANGED <<files, numPages, store>>

Next ==
  \/ \E n \in 0..MaxPages : Register(n)
  \/ \E h \in Holder :
       \/ \E k \in Key : Fetch(h, k)
       \/ \E i \in FileID : NewPage(h, i)
       \/ \E v \in Value : Store(h, v)
       \/ Release(h)

Spec == Init /\ [][Next]_vars
=============================================================================

---------------------------- MODULE CatalogProofs ---------------------------
(* Proofs about Catalog, for every set of rows, admins, URLs and paths.      *)
EXTENDS Catalog, TLAPS

USE CatalogAssumption

\* A stack that was loaded stays.
Kept == \A u \in Admin :
            edits[u].kind = "stack" /\ edits[u].row # NoRow => stacks[edits[u].stack] # NoRow

TypeInv == CatalogTypeOK /\ Kept /\ LinksExist

\* What a request has loaded is as it was, unless it is stale.
FreshSource(u) ==
    edits[u].kind = "source" => sources[edits[u].source] \in {edits[u].row, Deleted}

FreshStack(u) ==
    edits[u].kind = "stack" =>
        /\ stacks[edits[u].stack] = edits[u].row
        /\ \/ sources[edits[u].source] = Deleted
           \/ /\ sources[edits[u].source] \in SourceRow
              /\ edits[u].git = (sources[edits[u].source].url # NULL)
        /\ runtimes[edits[u].runtime] \in {edits[u].executor, Deleted}

Fresh == \A u \in Admin \ stale : FreshSource(u) /\ FreshStack(u)

-----------------------------------------------------------------------------
(* Rows and requests.                                                      *)

SourceEdit == [kind : {"source"}, source : Source, row : SourceRow]
RuntimeEdit == [kind : {"runtime"}, runtime : Runtime, row : Executor]
StackEdit == [kind : {"stack"}, stack : Stack, row : StackRow \cup {NoRow},
              source : Source, runtime : Runtime, git : BOOLEAN, executor : Executor]

\* The kind of a request tells what it holds.
LEMMA EditKinds ==
    ASSUME CatalogTypeOK, NEW u \in Admin
    PROVE  /\ edits[u].kind = "source" => edits[u] \in SourceEdit
           /\ edits[u].kind = "runtime" => edits[u] \in RuntimeEdit
           /\ edits[u].kind = "stack" => edits[u] \in StackEdit
BY DEF CatalogTypeOK, Edit, NoEdit, SourceEdit, RuntimeEdit, StackEdit

LEMMA MergedIsRow ==
    ASSUME NEW now \in SourceRow, NEW row \in SourceRow, NEW form \in SourceForm
    PROVE  Merged(now, row, form) \in SourceRow
BY DEF Merged, Column, HasKey, SourceRow, SourceForm

\* Merged into the row it was made from, a form that passes is a sound row.
LEMMA MergedIsSound ==
    ASSUME NEW row \in SourceRow, NEW form \in SourceForm, Valid(form, row)
    PROVE  LET new == Merged(row, row, form) IN
           /\ (new.url = NULL) # (new.path = NULL)
           /\ new.key => new.url \in SshUrl
BY DEF Merged, Column, HasKey, SourceRow, SourceForm, Valid

LEMMA NewSourceIsRow == NewSource \in SourceRow
BY DEF NewSource, SourceRow

LEMMA ExistingRows ==
    ASSUME CatalogTypeOK
    PROVE  /\ \A s \in Source : Exists(sources[s]) => sources[s] \in SourceRow
           /\ \A r \in Runtime : Exists(runtimes[r]) => runtimes[r] \in Executor
           /\ \A k \in Stack : Exists(stacks[k]) => stacks[k] \in StackRow
BY DEF CatalogTypeOK, Exists

LEMMA SavedIsRow ==
    ASSUME TypeInv, NEW u \in Admin, edits[u].kind = "stack", NEW pinned \in BOOLEAN
    PROVE  SavedStack(u, pinned) \in StackRow
<1>1. edits[u] \in StackEdit
  BY EditKinds DEF TypeInv
<1>2. CASE edits[u].row = NoRow
  BY <1>1, <1>2 DEF SavedStack, StackEdit, StackRow
<1>3. CASE edits[u].row # NoRow
  <2>1. edits[u].row \in StackRow /\ stacks[edits[u].stack] \in StackRow
    BY <1>1, <1>3 DEF StackEdit, TypeInv, CatalogTypeOK, Kept
  <2> QED
    BY <1>1, <1>3, <2>1 DEF SavedStack, Column, StackEdit, StackRow
<1> QED
  BY <1>2, <1>3

-----------------------------------------------------------------------------
(* Type correctness, and links.                                            *)

LEMMA TypeInit == Init => TypeInv
BY DEF Init, TypeInv, CatalogTypeOK, Kept, LinksExist, Edit, NoEdit, Executor, Exists

LEMMA TypeNext == TypeInv /\ [Next]_vars => TypeInv'
<1> SUFFICES ASSUME TypeInv, [Next]_vars
             PROVE  TypeInv'
  OBVIOUS
<1> USE DEF TypeInv
<1>1. ASSUME NEW s \in Source, NEW f \in SourceForm, CreateSource(s, f)
      PROVE  TypeInv'
  <2>1. sources' \in [Source -> SourceRow \cup {NoRow, Deleted}]
    BY <1>1, NewSourceIsRow, MergedIsRow DEF CreateSource, CatalogTypeOK
  <2>2. CatalogTypeOK' /\ Kept'
    BY <1>1, <2>1 DEF CreateSource, CatalogTypeOK, Kept
  <2>3. LinksExist'
    BY <1>1 DEF CreateSource, LinksExist, Exists, CatalogTypeOK, StackRow
  <2> QED
    BY <2>2, <2>3
<1>2. ASSUME NEW s \in Source, DeleteSource(s)
      PROVE  TypeInv'
  <2>1. CatalogTypeOK' /\ Kept'
    BY <1>2 DEF DeleteSource, CatalogTypeOK, Kept
  <2>2. LinksExist'
    BY <1>2 DEF DeleteSource, LinksExist, Exists, CatalogTypeOK, StackRow, Using, Uses
  <2> QED
    BY <2>1, <2>2
<1>3. ASSUME NEW r \in Runtime, NEW x \in Executor, CreateRuntime(r, x)
      PROVE  TypeInv'
  <2>1. CatalogTypeOK' /\ Kept'
    BY <1>3 DEF CreateRuntime, CatalogTypeOK, Kept
  <2>2. LinksExist'
    BY <1>3 DEF CreateRuntime, LinksExist, Exists, CatalogTypeOK, StackRow
  <2> QED
    BY <2>1, <2>2
<1>4. ASSUME NEW r \in Runtime, DeleteRuntime(r)
      PROVE  TypeInv'
  <2>1. CatalogTypeOK' /\ Kept'
    BY <1>4 DEF DeleteRuntime, CatalogTypeOK, Kept
  <2>2. LinksExist'
    BY <1>4 DEF DeleteRuntime, LinksExist, Exists, CatalogTypeOK, StackRow, Using, Uses
  <2> QED
    BY <2>1, <2>2
<1>5. ASSUME NEW u \in Admin, NEW s \in Source, LoadSource(u, s)
      PROVE  TypeInv'
  <2>1. [kind |-> "source", source |-> s, row |-> sources[s]] \in Edit
    BY <1>5, ExistingRows DEF LoadSource, Edit
  <2> QED
    BY <1>5, <2>1 DEF LoadSource, Begin, tables, CatalogTypeOK, Kept, LinksExist, Exists
<1>6. ASSUME NEW u \in Admin, NEW r \in Runtime, LoadRuntime(u, r)
      PROVE  TypeInv'
  <2>1. [kind |-> "runtime", runtime |-> r, row |-> runtimes[r]] \in Edit
    BY <1>6, ExistingRows DEF LoadRuntime, Edit
  <2> QED
    BY <1>6, <2>1 DEF LoadRuntime, Begin, tables, CatalogTypeOK, Kept, LinksExist, Exists
<1>7. ASSUME NEW u \in Admin, NEW k \in Stack, NEW s \in Source, NEW r \in Runtime,
             LoadStack(u, k, s, r)
      PROVE  TypeInv'
  <2> DEFINE e == [kind |-> "stack", stack |-> k, row |-> stacks[k], source |-> s,
                   runtime |-> r, git |-> sources[s].url # NULL, executor |-> runtimes[r]]
  <2>1. e \in Edit
    BY <1>7, ExistingRows DEF LoadStack, CatalogTypeOK, Edit
  <2> QED
    BY <1>7, <2>1 DEF LoadStack, Begin, tables, CatalogTypeOK, Kept, LinksExist, Exists
<1>8. ASSUME NEW u \in Admin, NEW f \in SourceForm, SaveSource(u, f)
      PROVE  TypeInv'
  <2>1. edits[u].source \in Source /\ edits[u].row \in SourceRow
    BY <1>8, EditKinds DEF SaveSource, SourceEdit
  <2>2. sources[edits[u].source] \in SourceRow
    BY <1>8, <2>1, ExistingRows DEF SaveSource
  <2>3. /\ sources' \in [Source -> SourceRow \cup {NoRow, Deleted}]
        /\ \A s \in Source : Exists(sources[s]) => Exists(sources'[s])
    BY <1>8, <2>1, <2>2, MergedIsRow DEF SaveSource, CatalogTypeOK, Exists
  <2>4. stale' \subseteq Admin /\ tainted' \subseteq Source \cup Stack
    BY <1>8, <2>1 DEF SaveSource, Commit, Loading, Using, CatalogTypeOK
  <2>5. CatalogTypeOK' /\ Kept'
    BY <1>8, <2>3, <2>4 DEF SaveSource, Commit, CatalogTypeOK, Kept, Edit, NoEdit
  <2>6. LinksExist'
    BY <1>8, <2>1, <2>3 DEF SaveSource, LinksExist, Exists, CatalogTypeOK, StackRow
  <2> QED
    BY <2>5, <2>6
<1>9. ASSUME NEW u \in Admin, NEW x \in Executor, SaveRuntime(u, x)
      PROVE  TypeInv'
  <2>1. edits[u].runtime \in Runtime
    BY <1>9, EditKinds DEF SaveRuntime, RuntimeEdit
  <2>2. runtimes[edits[u].runtime] \in Executor
    BY <1>9, <2>1, ExistingRows DEF SaveRuntime
  <2>3. /\ runtimes' \in [Runtime -> Executor \cup {NoRow, Deleted}]
        /\ \A r \in Runtime : Exists(runtimes[r]) => Exists(runtimes'[r])
    BY <1>9, <2>1, <2>2 DEF SaveRuntime, Column, CatalogTypeOK, Exists
  <2>4. stale' \subseteq Admin /\ tainted' \subseteq Source \cup Stack
    BY <1>9, <2>1 DEF SaveRuntime, Commit, Loading, Using, CatalogTypeOK
  <2>5. CatalogTypeOK' /\ Kept'
    BY <1>9, <2>3, <2>4 DEF SaveRuntime, Commit, CatalogTypeOK, Kept, Edit, NoEdit
  <2>6. LinksExist'
    BY <1>9, <2>1, <2>3 DEF SaveRuntime, LinksExist, Exists, CatalogTypeOK, StackRow
  <2> QED
    BY <2>5, <2>6
<1>10. ASSUME NEW u \in Admin, NEW pinned \in BOOLEAN, SaveStack(u, pinned)
       PROVE  TypeInv'
  <2>1. edits[u].stack \in Stack /\ SavedStack(u, pinned) \in StackRow
    BY <1>10, EditKinds, SavedIsRow DEF SaveStack, StackEdit
  <2>2. stacks' \in [Stack -> StackRow \cup {NoRow}]
    BY <1>10, <2>1 DEF SaveStack, CatalogTypeOK
  <2>3. stale' \subseteq Admin /\ tainted' \subseteq Source \cup Stack
    BY <1>10, <2>1 DEF SaveStack, Commit, Loading, CatalogTypeOK
  <2>4. CatalogTypeOK'
    BY <1>10, <2>2, <2>3 DEF SaveStack, Commit, CatalogTypeOK, Edit, NoEdit
  <2>5. \A k \in Stack : stacks[k] # NoRow => stacks'[k] # NoRow
    BY <1>10, <2>1 DEF SaveStack, CatalogTypeOK
  <2>6. \A v \in Admin : edits'[v] \in {edits[v], NoEdit}
    BY <1>10 DEF SaveStack, Commit, CatalogTypeOK
  <2>7. Kept'
    BY <2>5, <2>6, EditKinds DEF Kept, NoEdit, StackEdit
  <2>8. LinksExist'
    BY <1>10, <2>1 DEF SaveStack, LinksExist, Exists, CatalogTypeOK
  <2> QED
    BY <2>4, <2>7, <2>8
<1>11. ASSUME NEW u \in Admin, Refuse(u)
       PROVE  TypeInv'
  BY <1>11 DEF Refuse, tables, CatalogTypeOK, Kept, LinksExist, Exists, Edit, NoEdit
<1>12. CASE UNCHANGED vars
  BY <1>12 DEF vars, tables, CatalogTypeOK, Kept, LinksExist, Exists
<1> QED
  BY <1>1, <1>2, <1>3, <1>4, <1>5, <1>6, <1>7, <1>8, <1>9, <1>10, <1>11, <1>12
     DEF Next

\* Rows and requests keep their types.
THEOREM CatalogTypeCorrect == Spec => []CatalogTypeOK
<1>1. TypeInv => CatalogTypeOK
  BY DEF TypeInv
<1> QED
  BY <1>1, TypeInit, TypeNext, PTL DEF Spec

\* Deleting a source or a runtime never leaves a stack without it, whatever
\* else is saved at the time.
THEOREM StacksKeepTheirLinks == Spec => []LinksExist
<1>1. TypeInv => LinksExist
  BY DEF TypeInv
<1> QED
  BY <1>1, TypeInit, TypeNext, PTL DEF Spec

-----------------------------------------------------------------------------
(* What a request that is not stale knows is true.                         *)

LEMMA FreshInit == Init => Fresh
BY DEF Init, Fresh, FreshSource, FreshStack, NoEdit

\* A request that has just loaded is fresh.
LEMMA FreshBegin ==
    ASSUME Fresh, CatalogTypeOK, NEW u \in Admin, NEW edit, Begin(u, edit), FreshSource(u)',
           FreshStack(u)'
    PROVE  Fresh'
<1>1. \A v \in Admin \ {u} : edits'[v] = edits[v]
  BY DEF Begin, CatalogTypeOK
<1> QED
  BY <1>1 DEF Begin, tables, Fresh, FreshSource, FreshStack

\* Those that remain of a committed request's readers have not loaded its row.
LEMMA CommitEffect ==
    ASSUME CatalogTypeOK, NEW u \in Admin, NEW readers, Commit(u, readers)
    PROVE  /\ edits'[u] = NoEdit
           /\ \A v \in (Admin \ stale') \ {u} :
                  v \notin stale /\ v \notin readers /\ edits'[v] = edits[v]
BY DEF Commit, CatalogTypeOK

LEMMA FreshNext == TypeInv /\ Fresh /\ [Next]_vars => Fresh'
<1> SUFFICES ASSUME TypeInv, Fresh, [Next]_vars
             PROVE  Fresh'
  OBVIOUS
<1> USE DEF TypeInv
<1>1. ASSUME NEW s \in Source, NEW f \in SourceForm, CreateSource(s, f)
      PROVE  Fresh'
  <2>1. \A t \in Source : sources[t] # NoRow => sources'[t] = sources[t]
    BY <1>1 DEF CreateSource, CatalogTypeOK
  <2>2. \A v \in Admin \ stale :
            /\ edits[v].kind = "source" => sources[edits[v].source] # NoRow
            /\ edits[v].kind = "stack" => sources[edits[v].source] # NoRow
    <3>1. Deleted # NoRow /\ NoRow \notin SourceRow
      OBVIOUS
    <3> QED
      BY <3>1, EditKinds DEF Fresh, FreshSource, FreshStack, SourceEdit
  <2> QED
    BY <1>1, <2>1, <2>2, EditKinds
       DEF CreateSource, Fresh, FreshSource, FreshStack, SourceEdit, StackEdit
<1>2. ASSUME NEW s \in Source, DeleteSource(s)
      PROVE  Fresh'
  BY <1>2, EditKinds
     DEF DeleteSource, CatalogTypeOK, Fresh, FreshSource, FreshStack, SourceEdit, StackEdit
<1>3. ASSUME NEW r \in Runtime, NEW x \in Executor, CreateRuntime(r, x)
      PROVE  Fresh'
  <2>1. \A t \in Runtime : runtimes[t] # NoRow => runtimes'[t] = runtimes[t]
    BY <1>3 DEF CreateRuntime, CatalogTypeOK
  <2>2. \A v \in Admin \ stale : edits[v].kind = "stack" => runtimes[edits[v].runtime] # NoRow
    BY EditKinds DEF Fresh, FreshStack, StackEdit
  <2> QED
    BY <1>3, <2>1, <2>2, EditKinds
       DEF CreateRuntime, Fresh, FreshSource, FreshStack, SourceEdit, StackEdit
<1>4. ASSUME NEW r \in Runtime, DeleteRuntime(r)
      PROVE  Fresh'
  BY <1>4, EditKinds
     DEF DeleteRuntime, CatalogTypeOK, Fresh, FreshSource, FreshStack, SourceEdit, StackEdit
<1>5. ASSUME NEW u \in Admin, NEW s \in Source, LoadSource(u, s)
      PROVE  Fresh'
  <2>1. FreshSource(u)' /\ FreshStack(u)'
    BY <1>5 DEF LoadSource, Begin, tables, CatalogTypeOK, FreshSource, FreshStack
  <2> QED
    BY <1>5, <2>1, FreshBegin DEF LoadSource
<1>6. ASSUME NEW u \in Admin, NEW r \in Runtime, LoadRuntime(u, r)
      PROVE  Fresh'
  <2>1. FreshSource(u)' /\ FreshStack(u)'
    BY <1>6 DEF LoadRuntime, Begin, tables, CatalogTypeOK, FreshSource, FreshStack
  <2> QED
    BY <1>6, <2>1, FreshBegin DEF LoadRuntime
<1>7. ASSUME NEW u \in Admin, NEW k \in Stack, NEW s \in Source, NEW r \in Runtime,
             LoadStack(u, k, s, r)
      PROVE  Fresh'
  <2>1. FreshSource(u)' /\ FreshStack(u)'
    BY <1>7, ExistingRows
       DEF LoadStack, Begin, tables, CatalogTypeOK, FreshSource, FreshStack
  <2> QED
    BY <1>7, <2>1, FreshBegin DEF LoadStack
<1>8. ASSUME NEW u \in Admin, NEW f \in SourceForm, SaveSource(u, f)
      PROVE  Fresh'
  <2> DEFINE s == edits[u].source
  <2>1. \A t \in Source \ {s} : sources'[t] = sources[t]
    BY <1>8 DEF SaveSource, CatalogTypeOK
  <2>2. \A v \in (Admin \ stale') \ {u} :
            ~ Loaded(v, "source", s) /\ v \notin stale /\ edits'[v] = edits[v]
    BY <1>8, CommitEffect DEF SaveSource, Loading
  <2>3. \A v \in (Admin \ stale') \ {u} : FreshSource(v)' /\ FreshStack(v)'
    BY <1>8, <2>1, <2>2, EditKinds
       DEF SaveSource, Loaded, Fresh, FreshSource, FreshStack, SourceEdit, StackEdit
  <2> QED
    BY <1>8, <2>3, CommitEffect DEF SaveSource, Fresh, FreshSource, FreshStack, NoEdit
<1>9. ASSUME NEW u \in Admin, NEW x \in Executor, SaveRuntime(u, x)
      PROVE  Fresh'
  <2> DEFINE r == edits[u].runtime
  <2>1. \A t \in Runtime \ {r} : runtimes'[t] = runtimes[t]
    BY <1>9 DEF SaveRuntime, CatalogTypeOK
  <2>2. \A v \in (Admin \ stale') \ {u} :
            ~ Loaded(v, "runtime", r) /\ v \notin stale /\ edits'[v] = edits[v]
    BY <1>9, CommitEffect DEF SaveRuntime, Loading
  <2>3. \A v \in (Admin \ stale') \ {u} : FreshSource(v)' /\ FreshStack(v)'
    BY <1>9, <2>1, <2>2, EditKinds
       DEF SaveRuntime, Loaded, Fresh, FreshSource, FreshStack, SourceEdit, StackEdit
  <2> QED
    BY <1>9, <2>3, CommitEffect DEF SaveRuntime, Fresh, FreshSource, FreshStack, NoEdit
<1>10. ASSUME NEW u \in Admin, NEW pinned \in BOOLEAN, SaveStack(u, pinned)
       PROVE  Fresh'
  <2> DEFINE k == edits[u].stack
  <2>1. \A j \in Stack \ {k} : stacks'[j] = stacks[j]
    BY <1>10 DEF SaveStack, CatalogTypeOK
  <2>2. \A v \in (Admin \ stale') \ {u} :
            ~ Loaded(v, "stack", k) /\ v \notin stale /\ edits'[v] = edits[v]
    BY <1>10, CommitEffect DEF SaveStack, Loading
  <2>3. UNCHANGED <<sources, runtimes>>
    BY <1>10 DEF SaveStack
  <2>4. \A v \in (Admin \ stale') \ {u} : FreshSource(v)'
    BY <2>2, <2>3 DEF Fresh, FreshSource
  <2>5. \A v \in (Admin \ stale') \ {u} : FreshStack(v)'
    <3> SUFFICES ASSUME NEW v \in (Admin \ stale') \ {u}, edits[v].kind = "stack"
                 PROVE  FreshStack(v)'
      BY <2>2 DEF FreshStack
    <3>1. edits[v].stack \in Stack \ {k}
      BY <2>2, EditKinds DEF Loaded, StackEdit
    <3>2. FreshStack(v)
      BY <2>2 DEF Fresh
    <3> QED
      BY <2>1, <2>2, <2>3, <3>1, <3>2 DEF FreshStack
  <2>6. FreshSource(u)' /\ FreshStack(u)'
    BY <1>10, CommitEffect DEF SaveStack, FreshSource, FreshStack, NoEdit
  <2> QED
    BY <2>4, <2>5, <2>6 DEF Fresh
<1>11. ASSUME NEW u \in Admin, Refuse(u)
       PROVE  Fresh'
  BY <1>11 DEF Refuse, tables, CatalogTypeOK, Fresh, FreshSource, FreshStack, NoEdit
<1>12. CASE UNCHANGED vars
  BY <1>12 DEF vars, tables, Fresh, FreshSource, FreshStack
<1> QED
  BY <1>1, <1>2, <1>3, <1>4, <1>5, <1>6, <1>7, <1>8, <1>9, <1>10, <1>11, <1>12 DEF Next

-----------------------------------------------------------------------------
(* Sources.                                                                *)

LEMMA SourcesInit == Init => SourcesAreSound
BY DEF Init, SourcesAreSound, Exists

LEMMA SourcesNext == TypeInv /\ Fresh /\ SourcesAreSound /\ [Next]_vars => SourcesAreSound'
<1> SUFFICES ASSUME TypeInv, Fresh, SourcesAreSound, [Next]_vars
             PROVE  SourcesAreSound'
  OBVIOUS
<1> USE DEF TypeInv
<1>1. ASSUME NEW s \in Source, NEW f \in SourceForm, CreateSource(s, f)
      PROVE  SourcesAreSound'
  <2>1. \A t \in Source \ {s} : sources'[t] = sources[t]
    BY <1>1 DEF CreateSource, CatalogTypeOK
  <2>2. sources'[s] = Merged(NewSource, NewSource, f)
    BY <1>1 DEF CreateSource, CatalogTypeOK
  <2> QED
    BY <1>1, <2>1, <2>2, NewSourceIsRow, MergedIsSound
       DEF CreateSource, SourcesAreSound, KeyHasSsh, Exists
<1>2. ASSUME NEW u \in Admin, NEW f \in SourceForm, SaveSource(u, f)
      PROVE  SourcesAreSound'
  <2> PICK s \in Source : s = edits[u].source
    BY <1>2, EditKinds DEF SaveSource, SourceEdit
  <2>1. edits[u].row \in SourceRow
    BY <1>2, EditKinds DEF SaveSource, SourceEdit
  <2>2. \A t \in Source \ {s} : sources'[t] = sources[t]
    BY <1>2 DEF SaveSource, CatalogTypeOK
  <2>3. \A t \in (Source \ {s}) \ tainted' : t \notin tainted
    BY <1>2 DEF SaveSource
  <2>4. ASSUME u \notin stale
        PROVE  /\ (sources'[s].url = NULL) # (sources'[s].path = NULL)
               /\ KeyHasSsh(s)'
    <3>1. sources[s] = edits[u].row
      BY <1>2, <2>4 DEF SaveSource, Fresh, FreshSource, Exists
    <3>2. sources'[s] = Merged(edits[u].row, edits[u].row, f)
      BY <1>2, <2>1, <3>1 DEF SaveSource, CatalogTypeOK
    <3> QED
      BY <1>2, <2>1, <3>2, MergedIsSound DEF SaveSource, KeyHasSsh
  <2>5. u \in stale => s \in tainted'
    BY <1>2 DEF SaveSource
  <2> QED
    BY <2>2, <2>3, <2>4, <2>5 DEF SourcesAreSound, KeyHasSsh, Exists
<1>3. ASSUME NEW s \in Source, DeleteSource(s)
      PROVE  SourcesAreSound'
  BY <1>3 DEF DeleteSource, CatalogTypeOK, SourcesAreSound, KeyHasSsh, Exists
<1>4. ASSUME NEW u \in Admin, NEW pinned \in BOOLEAN, SaveStack(u, pinned)
      PROVE  SourcesAreSound'
  <2>1. edits[u].stack \notin Source
    BY <1>4, EditKinds DEF SaveStack, StackEdit
  <2> QED
    BY <1>4, <2>1 DEF SaveStack, SourcesAreSound, KeyHasSsh, Exists
<1>5. ASSUME NEW u \in Admin, NEW x \in Executor, SaveRuntime(u, x)
      PROVE  SourcesAreSound'
  BY <1>5 DEF SaveRuntime, SourcesAreSound, KeyHasSsh, Exists
<1>6. CASE UNCHANGED <<sources, tainted>>
  BY <1>6 DEF SourcesAreSound, KeyHasSsh, Exists
<1> QED
  BY <1>1, <1>2, <1>3, <1>4, <1>5, <1>6
     DEF Next, CreateRuntime, DeleteRuntime, LoadSource, LoadRuntime, LoadStack, Begin, Refuse,
         tables, vars

\* The rules of a source hold unless overlapping requests have written it.
THEOREM SourcesKeepTheirRules == Spec => []SourcesAreSound
BY TypeInit, TypeNext, FreshInit, FreshNext, SourcesInit, SourcesNext, PTL DEF Spec

-----------------------------------------------------------------------------
(* Stacks.                                                                 *)

LEMMA StacksInit == Init => StacksAreSound
BY DEF Init, StacksAreSound, Exists

\* A stack whose row, source and runtime stay as they are stays sound.
Untouched(k) ==
    /\ k \notin tainted
    /\ stacks'[k] = stacks[k]
    /\ Exists(stacks[k]) => /\ sources'[stacks[k].source] = sources[stacks[k].source]
                            /\ runtimes'[stacks[k].runtime] = runtimes[stacks[k].runtime]

Sound(k) ==
    Exists(stacks[k]) =>
        Fits(ExecutorOf(k), sources[stacks[k].source].url # NULL, stacks[k].pinned)

LEMMA UntouchedIsSound ==
    ASSUME StacksAreSound, NEW k \in Stack, Untouched(k)
    PROVE  Sound(k)'
BY DEF StacksAreSound, Untouched, Sound, Exists, Fits, ExecutorOf

LEMMA StacksNext == TypeInv /\ Fresh /\ StacksAreSound /\ [Next]_vars => StacksAreSound'
<1> SUFFICES ASSUME TypeInv, Fresh, StacksAreSound, [Next]_vars,
                    NEW k \in Stack \ tainted'
             PROVE  Sound(k)'
  BY DEF StacksAreSound, Sound
<1> USE DEF TypeInv
<1>1. Exists(stacks[k]) => /\ stacks[k].source \in Source /\ Exists(sources[stacks[k].source])
                           /\ stacks[k].runtime \in Runtime /\ Exists(runtimes[stacks[k].runtime])
  BY ExistingRows DEF LinksExist, StackRow
<1>2. ASSUME NEW s \in Source, (\E f \in SourceForm : CreateSource(s, f)) \/ DeleteSource(s)
      PROVE  Sound(k)'
  <2>1. Exists(stacks[k]) => stacks[k].source # s
    BY <1>1, <1>2 DEF CreateSource, DeleteSource, Using, Uses, Exists
  <2> QED
    BY <1>1, <1>2, <2>1, UntouchedIsSound
       DEF CreateSource, DeleteSource, CatalogTypeOK, Untouched
<1>3. ASSUME NEW r \in Runtime, (\E x \in Executor : CreateRuntime(r, x)) \/ DeleteRuntime(r)
      PROVE  Sound(k)'
  <2>1. Exists(stacks[k]) => stacks[k].runtime # r
    BY <1>1, <1>3 DEF CreateRuntime, DeleteRuntime, Using, Uses, Exists
  <2> QED
    BY <1>1, <1>3, <2>1, UntouchedIsSound
       DEF CreateRuntime, DeleteRuntime, CatalogTypeOK, Untouched
<1>4. ASSUME NEW u \in Admin, NEW f \in SourceForm, SaveSource(u, f)
      PROVE  Sound(k)'
  <2>1. edits[u].source \in Source
    BY <1>4, EditKinds DEF SaveSource, SourceEdit
  <2>2. k \notin tainted /\ ~ Uses(k, "source", edits[u].source)
    BY <1>4, <2>1 DEF SaveSource, Using
  <2> QED
    BY <1>1, <1>4, <2>2, UntouchedIsSound DEF SaveSource, CatalogTypeOK, Untouched, Uses
<1>5. ASSUME NEW u \in Admin, NEW x \in Executor, SaveRuntime(u, x)
      PROVE  Sound(k)'
  <2>1. k \notin tainted /\ ~ Uses(k, "runtime", edits[u].runtime)
    BY <1>5 DEF SaveRuntime, Using
  <2> QED
    BY <1>1, <1>5, <2>1, UntouchedIsSound DEF SaveRuntime, CatalogTypeOK, Untouched, Uses
<1>6. ASSUME NEW u \in Admin, NEW pinned \in BOOLEAN, SaveStack(u, pinned)
      PROVE  Sound(k)'
  <2> DEFINE e == edits[u]
  <2>1. e \in StackEdit
    BY <1>6, EditKinds DEF SaveStack
  <2>2. CASE k # e.stack
    BY <1>6, <2>2, UntouchedIsSound DEF SaveStack, CatalogTypeOK, Untouched
  <2>3. CASE k = e.stack
    <3>1. u \notin stale
      BY <1>6, <2>3 DEF SaveStack
    <3>2. stacks'[k] = SavedStack(u, pinned) /\ stacks[k] = e.row
      BY <1>6, <2>3, <3>1 DEF SaveStack, CatalogTypeOK, Fresh, FreshStack
    <3>3. stacks'[k] = [source |-> e.source, runtime |-> e.runtime, pinned |-> pinned]
      <4>1. CASE e.row = NoRow
        BY <3>2, <4>1 DEF SavedStack
      <4>2. CASE e.row # NoRow
        <5>1. e.row \in StackRow
          BY <2>1, <4>2 DEF StackEdit
        <5> QED
          BY <2>3, <3>2, <4>2, <5>1 DEF SavedStack, Column, StackRow
      <4> QED
        BY <4>1, <4>2
    <3>4. Exists(sources[e.source]) /\ Exists(runtimes[e.runtime])
      BY <1>6, <2>3, <3>3 DEF SaveStack
    <3>5. /\ e.git = (sources[e.source].url # NULL)
          /\ e.executor = runtimes[e.runtime]
      BY <1>6, <3>1, <3>4 DEF SaveStack, Fresh, FreshStack, Exists
    <3>6. /\ runtimes[e.runtime] = "kubernetes" => sources[e.source].url # NULL
          /\ pinned => sources[e.source].url # NULL
      BY <1>6, <3>5 DEF SaveStack, Fits
    <3>7. UNCHANGED <<sources, runtimes>>
      BY <1>6 DEF SaveStack
    <3> HIDE DEF e
    <3> QED
      BY <3>3, <3>6, <3>7 DEF Sound, Fits, ExecutorOf
  <2> QED
    BY <2>2, <2>3
<1>7. CASE UNCHANGED <<tables, tainted>>
  BY <1>7, UntouchedIsSound DEF tables, Untouched
<1> QED
  BY <1>2, <1>3, <1>4, <1>5, <1>6, <1>7
     DEF Next, LoadSource, LoadRuntime, LoadStack, Begin, Refuse,
         tables, vars

\* A stack fits its source and its runtime unless one of them was written since
\* it was saved, or while it was.
THEOREM StacksKeepTheirRules == Spec => []StacksAreSound
BY TypeInit, TypeNext, FreshInit, FreshNext, StacksInit, StacksNext, PTL DEF Spec
=============================================================================

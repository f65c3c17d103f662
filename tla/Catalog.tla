------------------------------ MODULE Catalog -------------------------------
(***************************************************************************)
(* Sources, runtimes and the stacks that link them, as admins edit them     *)
(* (sources/service.py, runtimes/service.py, save_stack).                   *)
(*                                                                         *)
(* A request loads the rows its form is about, checks the form against      *)
(* them, and updates the columns that differ from what it loaded, under no  *)
(* lock: two requests may overlap, and each overwrites only its own columns.*)
(* Names, whose uniqueness the database keeps, are left out.                *)
(***************************************************************************)
CONSTANTS
    Source, Runtime, Stack,
    Admin,          \* requests that may be under way together
    Url, SshUrl,    \* git URLs, and those a deploy key can be used with
    Path,           \* local paths
    NULL, NoRow, Deleted

VARIABLES
    sources, runtimes, stacks,      \* the tables
    edits,          \* the request each admin has under way
    stale,          \* admins whose request has loaded what was written since
    tainted         \* sources and stacks last written by such a request, and
                    \* stacks whose source or runtime was written since they were

tables == <<sources, runtimes, stacks>>
vars == <<tables, edits, stale, tainted>>

-----------------------------------------------------------------------------
SourceRow == [url : Url \cup {NULL}, path : Path \cup {NULL}, key : BOOLEAN]
Executor == {"local", "kubernetes"}
\* pinned: the stack has a git ref of its own.
StackRow == [source : Source, runtime : Runtime, pinned : BOOLEAN]

\* A pasted key is encrypted, so that it differs from any key before it.
SourceForm == [url : Url \cup {NULL}, path : Path \cup {NULL},
               key : {"keep", "paste", "clear"}]

NoEdit == [kind |-> "none"]

\* row: as it was loaded; git, executor: as the source and the runtime were.
Edit ==
    {NoEdit}
    \cup [kind : {"source"}, source : Source, row : SourceRow]
    \cup [kind : {"runtime"}, runtime : Runtime, row : Executor]
    \cup [kind : {"stack"}, stack : Stack, row : StackRow \cup {NoRow},
          source : Source, runtime : Runtime, git : BOOLEAN, executor : Executor]

ASSUME CatalogAssumption ==
    /\ SshUrl \subseteq Url
    /\ NULL \notin Url \cup Path
    /\ Source \cap Stack = {}
    /\ NoRow \notin StackRow
    /\ NoRow # Deleted
    /\ {NoRow, Deleted} \cap (SourceRow \cup Executor) = {}

CatalogTypeOK ==
    /\ sources \in [Source -> SourceRow \cup {NoRow, Deleted}]
    /\ runtimes \in [Runtime -> Executor \cup {NoRow, Deleted}]
    /\ stacks \in [Stack -> StackRow \cup {NoRow}]
    /\ edits \in [Admin -> Edit]
    /\ stale \subseteq Admin
    /\ tainted \subseteq Source \cup Stack

Init ==
    /\ sources = [s \in Source |-> NoRow]
    /\ runtimes = [r \in Runtime |-> NoRow]
    /\ stacks = [k \in Stack |-> NoRow]
    /\ edits = [u \in Admin |-> NoEdit]
    /\ stale = {}
    /\ tainted = {}

Exists(row) == row \notin {NoRow, Deleted}
Uses(k, kind, id) == Exists(stacks[k]) /\ stacks[k][kind] = id
Using(kind, id) == {k \in Stack : Uses(k, kind, id)}

\* The requests that have loaded a source, a runtime or a stack.
Loaded(u, kind, id) ==
    CASE kind = "source" -> edits[u].kind \in {"source", "stack"} /\ edits[u].source = id
      [] kind = "runtime" -> edits[u].kind \in {"runtime", "stack"} /\ edits[u].runtime = id
      [] kind = "stack" -> edits[u].kind = "stack" /\ edits[u].stack = id

Loading(kind, id) == {u \in Admin : Loaded(u, kind, id)}

Begin(u, edit) ==
    /\ edits[u] = NoEdit
    /\ edits' = [edits EXCEPT ![u] = edit]
    /\ UNCHANGED <<tables, stale, tainted>>

\* u's request is committed; what it wrote makes `readers` stale.
Commit(u, readers) ==
    /\ edits' = [edits EXCEPT ![u] = NoEdit]
    /\ stale' = (stale \cup readers) \ {u}

\* An UPDATE writes the columns whose value is not the loaded one.
Column(now, old, new) == IF new = old THEN now ELSE new

-----------------------------------------------------------------------------
(* Sources.                                                                *)

HasKey(form, row) == form.key = "paste" \/ (form.key = "keep" /\ row.key)

\* A key is looked at only when it is pasted.
BugValid(form, row) ==
    /\ (form.url = NULL) # (form.path = NULL)
    /\ form.key = "paste" => form.url \in SshUrl

Valid(form, row) ==
    /\ (form.url = NULL) # (form.path = NULL)
    /\ HasKey(form, row) => form.url \in SshUrl

NewSource == [url |-> NULL, path |-> NULL, key |-> FALSE]

Merged(now, row, form) ==
    [url |-> Column(now.url, row.url, form.url),
     path |-> Column(now.path, row.path, form.path),
     key |-> IF form.key = "paste" THEN TRUE ELSE Column(now.key, row.key, HasKey(form, row))]

CreateSource(s, form) ==
    /\ sources[s] = NoRow
    /\ Valid(form, NewSource)
    /\ sources' = [sources EXCEPT ![s] = Merged(NewSource, NewSource, form)]
    /\ UNCHANGED <<runtimes, stacks, edits, stale, tainted>>

LoadSource(u, s) ==
    /\ Exists(sources[s])
    /\ Begin(u, [kind |-> "source", source |-> s, row |-> sources[s]])

SaveSource(u, form) ==
    LET s == edits[u].source IN
    /\ edits[u].kind = "source"
    /\ Exists(sources[s])
    /\ Valid(form, edits[u].row)
    /\ sources' = [sources EXCEPT ![s] = Merged(@, edits[u].row, form)]
    /\ Commit(u, Loading("source", s))
    /\ tainted' = (IF u \in stale THEN tainted \cup {s} ELSE tainted \ {s})
                  \cup Using("source", s)
    /\ UNCHANGED <<runtimes, stacks>>

\* The ORM lets go of a deleted row's stacks, where their columns allow NULL.
BugDeleteSource(s) ==
    /\ Exists(sources[s])
    /\ sources' = [sources EXCEPT ![s] = Deleted]
    /\ stacks' = [k \in Stack |-> IF Uses(k, "source", s)
                                  THEN [stacks[k] EXCEPT !.source = NULL] ELSE stacks[k]]
    /\ UNCHANGED <<runtimes, edits, stale, tainted>>

\* Foreign keys are not enforced, and the count is an earlier one.
BugDeleteLinked(s) ==
    /\ Exists(sources[s])
    /\ sources' = [sources EXCEPT ![s] = Deleted]
    /\ UNCHANGED <<runtimes, stacks, edits, stale, tainted>>

\* The count of stacks gives a better message; the foreign key decides.
DeleteSource(s) ==
    /\ Exists(sources[s])
    /\ Using("source", s) = {}
    /\ sources' = [sources EXCEPT ![s] = Deleted]
    /\ UNCHANGED <<runtimes, stacks, edits, stale, tainted>>

-----------------------------------------------------------------------------
(* Runtimes.                                                               *)

CreateRuntime(r, executor) ==
    /\ runtimes[r] = NoRow
    /\ runtimes' = [runtimes EXCEPT ![r] = executor]
    /\ UNCHANGED <<sources, stacks, edits, stale, tainted>>

LoadRuntime(u, r) ==
    /\ Exists(runtimes[r])
    /\ Begin(u, [kind |-> "runtime", runtime |-> r, row |-> runtimes[r]])

SaveRuntime(u, executor) ==
    LET r == edits[u].runtime IN
    /\ edits[u].kind = "runtime"
    /\ Exists(runtimes[r])
    /\ runtimes' = [runtimes EXCEPT ![r] = Column(@, edits[u].row, executor)]
    /\ Commit(u, Loading("runtime", r))
    /\ tainted' = tainted \cup Using("runtime", r)
    /\ UNCHANGED <<sources, stacks>>

DeleteRuntime(r) ==
    /\ Exists(runtimes[r])
    /\ Using("runtime", r) = {}
    /\ runtimes' = [runtimes EXCEPT ![r] = Deleted]
    /\ UNCHANGED <<sources, stacks, edits, stale, tainted>>

-----------------------------------------------------------------------------
(* Stacks.  No route deletes one.                                          *)

\* A new stack has an id of its own.
LoadStack(u, k, s, r) ==
    /\ stacks[k] = NoRow => Loading("stack", k) = {}
    /\ Exists(sources[s]) /\ Exists(runtimes[r])
    /\ Begin(u, [kind |-> "stack", stack |-> k, row |-> stacks[k], source |-> s,
                 runtime |-> r, git |-> sources[s].url # NULL, executor |-> runtimes[r]])

\* The columns of a saved stack.
SavedStack(u, pinned) ==
    LET e == edits[u]
        now == stacks[e.stack] IN
    IF e.row = NoRow
    THEN [source |-> e.source, runtime |-> e.runtime, pinned |-> pinned]
    ELSE [source |-> Column(now.source, e.row.source, e.source),
          runtime |-> Column(now.runtime, e.row.runtime, e.runtime),
          pinned |-> Column(now.pinned, e.row.pinned, pinned)]

ExecutorOf(k) == runtimes[stacks[k].runtime]

\* What save_stack asks of a stack.
Fits(executor, git, pinned) ==
    /\ executor = "kubernetes" => git
    /\ pinned => git

\* Only a new stack is checked.
BugSaveStack(u, pinned) ==
    LET e == edits[u] IN
    /\ e.kind = "stack"
    /\ e.row = NoRow => Fits(e.executor, e.git, pinned)
    /\ stacks' = [stacks EXCEPT ![e.stack] = SavedStack(u, pinned)]
    /\ Exists(sources[stacks'[e.stack].source]) /\ Exists(runtimes[stacks'[e.stack].runtime])
    /\ Commit(u, Loading("stack", e.stack))
    /\ tainted' = IF u \in stale THEN tainted \cup {e.stack} ELSE tainted \ {e.stack}
    /\ UNCHANGED <<sources, runtimes>>

\* The foreign keys refuse a source or a runtime that was deleted meanwhile.
SaveStack(u, pinned) ==
    LET e == edits[u] IN
    /\ e.kind = "stack"
    /\ Fits(e.executor, e.git, pinned)
    /\ stacks' = [stacks EXCEPT ![e.stack] = SavedStack(u, pinned)]
    /\ Exists(sources[stacks'[e.stack].source]) /\ Exists(runtimes[stacks'[e.stack].runtime])
    /\ Commit(u, Loading("stack", e.stack))
    /\ tainted' = IF u \in stale THEN tainted \cup {e.stack} ELSE tainted \ {e.stack}
    /\ UNCHANGED <<sources, runtimes>>

\* Any form may be refused, and any request may fail.
Refuse(u) ==
    /\ edits[u] # NoEdit
    /\ edits' = [edits EXCEPT ![u] = NoEdit]
    /\ stale' = stale \ {u}
    /\ UNCHANGED <<tables, tainted>>

-----------------------------------------------------------------------------
Next ==
    \/ \E s \in Source : DeleteSource(s) \/ \E f \in SourceForm : CreateSource(s, f)
    \/ \E r \in Runtime : DeleteRuntime(r) \/ \E x \in Executor : CreateRuntime(r, x)
    \/ \E u \in Admin :
          \/ \E s \in Source : LoadSource(u, s)
          \/ \E r \in Runtime : LoadRuntime(u, r)
          \/ \E k \in Stack, s \in Source, r \in Runtime : LoadStack(u, k, s, r)
          \/ \E f \in SourceForm : SaveSource(u, f)
          \/ \E x \in Executor : SaveRuntime(u, x)
          \/ \E pinned \in BOOLEAN : SaveStack(u, pinned)
          \/ Refuse(u)

Spec == Init /\ [][Next]_vars

-----------------------------------------------------------------------------
(* Properties.                                                             *)

\* "A deploy key requires an SSH git URL" (sources/service.py:43)
KeyHasSsh(s) == sources[s].key => sources[s].url \in SshUrl

\* A source keeps both rules as long as no request overwrites what another one
\* wrote after the first had loaded it, and is mended by the next one that is
\* alone (sources/service.py:36-55).
SourcesAreSound ==
    \A s \in Source \ tainted :
        Exists(sources[s]) =>
            /\ (sources[s].url = NULL) # (sources[s].path = NULL)
            /\ KeyHasSsh(s)

\* A stack fits its source and its runtime as long as neither was written since
\* it was saved, nor between its load and its save (stacks/service.py:79-84).
StacksAreSound ==
    \A k \in Stack \ tainted :
        Exists(stacks[k]) =>
            Fits(ExecutorOf(k), sources[stacks[k].source].url # NULL, stacks[k].pinned)

\* A stack is never left without its source or its runtime, whoever deletes
\* them while it is saved (sources/service.py:61-73, runtimes/service.py:45-59).
LinksExist ==
    \A k \in Stack :
        Exists(stacks[k]) =>
            Exists(sources[stacks[k].source]) /\ Exists(runtimes[stacks[k].runtime])
=============================================================================

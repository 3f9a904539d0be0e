----------------------- MODULE IncrementalIndexProofs -----------------------
(***************************************************************************)
(* Proofs about IncrementalIndex for any files, texts and limits:          *)
(* the type invariant, and, for workspaces where no file crosses the size  *)
(* cap, that the rows are truthful and that the incremental index is the   *)
(* full one.                                                               *)
(***************************************************************************)
EXTENDS IncrementalIndex, FiniteSetTheorems, TLAPS

\* A file is over the size cap with all of its texts or with none of them.
StableSize ==
    \A f \in Files : \A t, u \in Texts[f] \ {None} : t.big = u.big

\* No import names the stem of two files.
UnambiguousImports ==
    \A f \in Files : \A t \in Texts[f] \ {None} : \A r \in t.raws :
        IsImport(r) => \A g, h \in Files :
                         Stem[g] = r.name /\ Stem[h] = r.name => g = h

-----------------------------------------------------------------------------
(* The invariants. *)

\* Rows record texts that the provider accepted, and only such files are
\* extracted.
Recorded ==
    /\ \A f \in Files : disk[f] \in Texts[f] /\ row[f] \in Texts[f] \cup {None}
    /\ \A f \in Supported : row[f] # None => ~row[f].big /\ row[f].ok
    /\ \A f \in todo : /\ f \in Supported
                       /\ \A t \in Texts[f] \ {None} : ~t.big

\* Every definition and every raw edge belongs to a file that has a row.
Owned ==
    /\ \A n \in Definitions(nodes) : n.file \in Supported /\ row[n.file] # None
    /\ \A r \in raws : r.file \in Supported /\ row[r.file] # None

\* A run visits its entries: what it leaves out of them has no row.
Visited ==
    /\ active \cap over = {} /\ todo \subseteq active
    /\ \A f \in Files : row[f] # None => f \in active
    /\ pc = "idle" => /\ todo = {} /\ changed = {} /\ ~full
                     /\ \A f \in Files : failed[f] = None
    /\ ~full => todo \subseteq changed

\* What the stat identities stand for, which is what the file diff trusts.
Trusted ==
    \A f \in Files :
        /\ rowStat[f] /\ row[f] # None => row[f] = disk[f]
        /\ skipStat[f] /\ skip[f] = "unsupported_language"
             => f \notin Supported

\* In a run without edits, a file that is done has the row of its text, or it
\* was given up.
UpToDate ==
    clean => /\ \A f \in active : disk[f] # None
             /\ \A f \in (active \cap Supported) \ todo : ~disk[f].big =>
                    row[f] = disk[f] \/ failed[f] # None \/ GivenUp(f)

\* The definitions that the edges in the store were resolved against.
Base == IF pc = "idle" THEN Definitions(nodes) ELSE before

\* A run keeps the definitions of the files it does not change.
Kept ==
    ~full => {n \in Definitions(nodes) : n.file \notin changed}
               = {n \in Base : n.file \notin changed}

SpineEdge(e) ==
    \/ \E f \in Files :
          e = Edge(FolderNode(Parent[f]), FileNode(f), "CONTAINS_FILE")
    \/ \E f \in Files : \E d \in Ancestors[f] :
          e = Edge(FolderNode(Parent[d]), FolderNode(d), "CONTAINS_FOLDER")
    \/ /\ e.tgt.label \notin Spine
       /\ e = Edge(FileNode(e.tgt.file), e.tgt, "DEFINES")

\* The edge an import that names no definition has to a file it names.
FileImport(N, r, e) ==
    /\ IsImport(r) /\ ResolveImport(N, r) = {}
    /\ e.tgt.label = "File" /\ Stem[e.tgt.file] = r.name
    /\ e = Edge(r.src, e.tgt, r.type)

\* Every edge is one that a resolution of the raw edges of the store gives ...
Explained ==
    \A e \in edges :
        \/ SpineEdge(e)
        \/ ~full /\ e \in ResolveAll(Base, raws)
        \/ ~full /\ \E r \in raws : FileImport(Base, r, e)

\* ... and every such edge that the run cannot have touched is there.
Complete ==
    ~full => \A e \in ResolveAll(Base, raws) :
                /\ e.type # "USAGE"
                /\ e.src.file \notin changed /\ e.tgt.file \notin changed
                => e \in edges

-----------------------------------------------------------------------------
(* Typing. *)

\* What the constructors of nodes and edges put into their fields.
LEMMA Fields ==
    /\ \A f, label, owner, name :
        /\ Node(f, label, owner, name).file = f
        /\ Node(f, label, owner, name).label = label
        /\ Node(f, label, owner, name).name = name
    /\ \A s, t, type :
        /\ Edge(s, t, type).src = s /\ Edge(s, t, type).tgt = t
        /\ Edge(s, t, type).type = type
<1> QED
  BY DEF Node, Edge

\* The structural edges connect nodes of the spine and definitions.
LEMMA SpineClosed ==
    ASSUME NEW N, NEW act \in SUBSET Files, NEW e \in SpineEdges(N, act)
    PROVE  e.src \in BuildNodes(N, act) /\ e.tgt \in BuildNodes(N, act)
<1>1. \A f \in act : /\ FileNode(f) \in SpineNodes(act)
                     /\ FolderNode(Parent[f]) \in SpineNodes(act)
                     /\ \A d \in Ancestors[f] :
                          /\ FolderNode(d) \in SpineNodes(act)
                          /\ FolderNode(Parent[d]) \in SpineNodes(act)
  BY TreeAssumption DEF SpineNodes
<1>2. CASE \E f \in act :
             e = Edge(FolderNode(Parent[f]), FileNode(f), "CONTAINS_FILE")
  BY <1>1, <1>2, Fields DEF BuildNodes
<1>3. CASE \E d \in UNION {Ancestors[f] : f \in act} :
             e = Edge(FolderNode(Parent[d]), FolderNode(d), "CONTAINS_FOLDER")
  <2>1. PICK f \in act : \E d \in Ancestors[f] :
             e = Edge(FolderNode(Parent[d]), FolderNode(d), "CONTAINS_FOLDER")
    BY <1>3
  <2> QED
    BY <1>1, <2>1, Fields DEF BuildNodes
<1>4. CASE \E n \in {n \in N : n.file \in act /\ n.label \notin Spine} :
             e = Edge(FileNode(n.file), n, "DEFINES")
  BY <1>1, <1>4, Fields DEF BuildNodes, Definitions
<1> QED
  BY <1>2, <1>3, <1>4 DEF SpineEdges

\* An import of a file connects nodes that are there.
LEMMA FileImportsClosed ==
    ASSUME NEW N, NEW R, NEW e \in FileImports(N, R)
    PROVE  e.src \in N /\ e.tgt \in N
<1> DEFINE named(r) == {n \in N : n.label = "File" /\ Stem[n.file] = r.name}
<1>1. PICK r : /\ r.src \in N
               /\ \E t \in named(r) : e = Edge(r.src, t, r.type)
  BY DEF FileImports
<1> QED
  BY <1>1, Fields

\* The types that need no relation between the tables.
Typed ==
    /\ disk \in [Files -> UNION {Texts[f] : f \in Files}]
    /\ row \in [Files -> (UNION {Texts[f] : f \in Files}) \cup {None}]
    /\ rowStat \in [Files -> BOOLEAN] /\ skipStat \in [Files -> BOOLEAN]
    /\ skip \in [Files -> {None, "oversize", "unreadable", "parse_failed",
                            "file_limit", "unsupported_language"}]
    /\ failed \in [Files -> {None, "unreadable", "parse_failed"}]
    /\ pc \in {"idle", "extract"} /\ full \in BOOLEAN /\ clean \in BOOLEAN
    /\ active \cup over \cup todo \cup changed \subseteq Files

\* No edge has an endpoint that is not in the node table.
Closed == \A e \in edges : e.src \in nodes /\ e.tgt \in nodes

\* A file limit only leaves files out.
LEMMA PrefixPresent == ASSUME NEW k PROVE Prefix(disk, k) \subseteq Present(disk)
<1> QED
  BY DEF Prefix

\* Every step keeps those types.
LEMMA TypedStep == Typed /\ [Next]_vars => Typed'
<1> SUFFICES ASSUME Typed, [Next]_vars PROVE Typed'
  OBVIOUS
<1> USE DEF Typed
<1> DEFINE AllTexts == UNION {Texts[f] : f \in Files}
<1>1. ASSUME NEW f \in Files, NEW text \in Texts[f], Edit(f, text)
      PROVE  Typed'
  BY <1>1 DEF Edit, run, graph
<1>2. ASSUME NEW k \in Limits, BeginFull(k) PROVE Typed'
  <2>1. Prefix(disk, k) \subseteq Files /\ Present(disk) \subseteq Files
    BY PrefixPresent DEF Present
  <2> QED
    BY <1>2, <2>1 DEF BeginFull, Begin, Disposition, graph
<1>3. ASSUME NEW k \in Limits, BeginIncremental(k) PROVE Typed'
  <2>1. Prefix(disk, k) \subseteq Files /\ Present(disk) \subseteq Files
    BY PrefixPresent DEF Present
  <2>2. /\ Drifted(Prefix(disk, k)) \subseteq Files
        /\ Deleted(Prefix(disk, k)) \subseteq Files
    BY <2>1 DEF Drifted, Deleted
  <2>3. PICK D, U, O : Disposition(D, U, O)
    BY <1>3 DEF BeginIncremental
  <2>4. /\ row' \in [Files -> (UNION {Texts[f] : f \in Files}) \cup {None}]
        /\ rowStat' \in [Files -> BOOLEAN] /\ skipStat' \in [Files -> BOOLEAN]
        /\ skip' \in [Files -> {None, "oversize", "unreadable", "parse_failed",
                                "file_limit", "unsupported_language"}]
    <3> HIDE DEF AllTexts
    <3>1. row \in [Files -> AllTexts \cup {None}] /\ disk \in [Files -> AllTexts]
      BY DEF AllTexts
    <3>2. row' \in [Files -> AllTexts \cup {None}]
      BY <2>3, <3>1 DEF Disposition
    <3>3. rowStat' \in [Files -> BOOLEAN]
      BY <2>3 DEF Disposition
    <3>4. skipStat' \in [Files -> BOOLEAN]
      BY <2>3 DEF Disposition
    <3>5. skip' \in [Files -> {None, "oversize", "unreadable", "parse_failed",
                              "file_limit", "unsupported_language"}]
      BY <2>3 DEF Disposition
    <3> QED
      BY <3>2, <3>3, <3>4, <3>5 DEF AllTexts
  <2>5. active' \cup over' \cup todo' \cup changed' \subseteq Files
    BY <1>3, <2>1, <2>2 DEF BeginIncremental, Begin
  <2>6. disk' = disk /\ failed' = failed /\ pc' = "extract" /\ full' = FALSE /\ clean' = TRUE
    BY <1>3 DEF BeginIncremental, Begin
  <2> QED
    BY <2>4, <2>5, <2>6
<1>4. ASSUME NEW f \in Files, Extract(f) PROVE Typed'
  BY <1>4 DEF Extract
<1>5. ASSUME NEW f \in Files, ReadFails(f) \/ Rejected(f) PROVE Typed'
  BY <1>5 DEF ReadFails, Rejected, GivesUp, rows
<1>6. ASSUME NEW f \in Files, RecordSkip(f) PROVE Typed'
  BY <1>6 DEF RecordSkip
<1>7. ASSUME Finish PROVE Typed'
  <2>1. /\ row' = [f \in Files |-> IF f \in over THEN None ELSE row[f]]
        /\ skip' = [f \in Files |-> IF f \in over THEN "file_limit" ELSE skip[f]]
        /\ skipStat' = [f \in Files |-> f \in over \/ skipStat[f]]
        /\ pc' = "idle" /\ full' = FALSE /\ changed' = {}
        /\ UNCHANGED <<disk, rowStat, active, over, todo, failed, clean>>
    BY <1>7 DEF Finish
  <2>2. row' \in [Files -> AllTexts \cup {None}]
    <3> HIDE DEF AllTexts
    <3>1. row \in [Files -> AllTexts \cup {None}]
      BY DEF AllTexts
    <3> QED
      BY <2>1, <3>1
  <2>3. skipStat' \in [Files -> BOOLEAN]
    BY <2>1
  <2>4. skip' \in [Files -> {None, "oversize", "unreadable", "parse_failed",
                            "file_limit", "unsupported_language"}]
    BY <2>1
  <2> QED
    BY <2>1, <2>2, <2>3, <2>4
<1>8. CASE UNCHANGED vars
  BY <1>8 DEF vars, rows, graph, run
<1> QED
  BY <1>1, <1>2, <1>3, <1>4, <1>5, <1>6, <1>7, <1>8 DEF Next

\* Removing the nodes of some files with the edges that touch them.
LEMMA WithoutClosed ==
    ASSUME NEW N, NEW E, NEW S,
           \A e \in E : e.src \in N /\ e.tgt \in N
    PROVE  \A e \in EdgesWithout(E, S) :
             e.src \in NodesWithout(N, S) /\ e.tgt \in NodesWithout(N, S)
<1> QED
  BY DEF EdgesWithout, NodesWithout

\* The edges that the last step of a run writes, before the limit cuts them.
Resolved == IF full THEN edges \cup ResolveAll(nodes, raws)
            ELSE ResolveIncremental(nodes, edges, raws, changed, before)
Linked == BuildEdges(nodes, Resolved, active)
            \cup FileImports(BuildNodes(nodes, active), raws)

\* The tables at the end of a run: rebuilt, linked, and without the files over
\* the limit.
LEMMA FinishGraph ==
    ASSUME Finish
    PROVE  /\ nodes' = NodesWithout(BuildNodes(nodes, active), over)
           /\ edges' = EdgesWithout(Linked, over)
           /\ raws' = RawsWithout(raws, over)
<1> QED
  BY DEF Finish, Linked, Resolved

\* The rebuilt edges connect rebuilt nodes.
LEMMA LinkedClosed ==
    ASSUME Typed
    PROVE  \A e \in Linked : /\ e.src \in BuildNodes(nodes, active)
                             /\ e.tgt \in BuildNodes(nodes, active)
<1>1. active \in SUBSET Files
  BY DEF Typed
<1> QED
  BY <1>1, SpineClosed, FileImportsClosed DEF Linked, BuildEdges, Cascade

\* No step leaves an edge without one of its endpoints.
LEMMA ClosedStep == Typed /\ Closed /\ [Next]_vars => Closed'
<1> SUFFICES ASSUME Typed, Closed, [Next]_vars PROVE Closed'
  OBVIOUS
<1>1. ASSUME UNCHANGED graph PROVE Closed'
  BY <1>1 DEF Closed, graph
<1>2. ASSUME NEW k \in Limits, BeginIncremental(k) PROVE Closed'
  BY <1>2, WithoutClosed DEF BeginIncremental, Closed
<1>3. ASSUME NEW f \in Files, Extract(f) PROVE Closed'
  <2>1. \A e \in EdgesWithout(edges, {f}) :
          e.src \in NodesWithout(nodes, {f}) /\ e.tgt \in NodesWithout(nodes, {f})
    BY WithoutClosed DEF Closed
  <2> QED
    BY <1>3, <2>1 DEF Extract, Closed
<1>4. ASSUME Finish PROVE Closed'
  <2>1. /\ nodes' = NodesWithout(BuildNodes(nodes, active), over)
        /\ edges' = EdgesWithout(Linked, over)
    BY <1>4, FinishGraph
  <2>2. \A e \in Linked : /\ e.src \in BuildNodes(nodes, active)
                          /\ e.tgt \in BuildNodes(nodes, active)
    BY LinkedClosed
  <2> QED
    BY <2>1, <2>2, WithoutClosed DEF Closed
<1> QED
  BY <1>1, <1>2, <1>3, <1>4
  DEF Next, vars, Edit, BeginFull, ReadFails, Rejected, GivesUp, RecordSkip

\* An empty store has its types and no dangling edge.
LEMMA InitTyped == Init => Typed /\ Closed
<1> SUFFICES ASSUME Init PROVE Typed /\ Closed
  OBVIOUS
<1>1. disk \in [Files -> UNION {Texts[f] : f \in Files}]
  BY DEF Init
<1>2. /\ row = [f \in Files |-> None] /\ rowStat = [f \in Files |-> FALSE]
      /\ skip = [f \in Files |-> None] /\ skipStat = [f \in Files |-> FALSE]
      /\ edges = {} /\ pc = "idle" /\ full = FALSE /\ clean = FALSE
      /\ active = {} /\ over = {} /\ todo = {} /\ changed = {}
      /\ failed = [f \in Files |-> None]
  BY DEF Init
<1>3. /\ row \in [Files -> (UNION {Texts[f] : f \in Files}) \cup {None}]
      /\ rowStat \in [Files -> BOOLEAN] /\ skipStat \in [Files -> BOOLEAN]
      /\ skip \in [Files -> {None, "oversize", "unreadable", "parse_failed",
                              "file_limit", "unsupported_language"}]
      /\ failed \in [Files -> {None, "unreadable", "parse_failed"}]
  BY <1>2
<1> QED
  BY <1>1, <1>2, <1>3 DEF Typed, Closed

\* The tables stay within their types, and no edge dangles: the cascades of a
\* deleted file, the re-resolution and the rebuilt spine leave every edge with
\* both of its endpoints in the node table.
THEOREM Typing == Spec => []TypeOK
<1>1. Typed /\ Closed => TypeOK
  BY DEF Typed, Closed, TypeOK
<1> QED
  BY <1>1, InitTyped, TypedStep, ClosedStep, PTL DEF Spec

-----------------------------------------------------------------------------
(* The file_state and index_skips rows, and what the store holds for them. *)

StoreInv ==
    /\ Typed /\ Recorded /\ Owned /\ Visited /\ Trusted /\ UpToDate
    /\ RowsTruthful

\* What dropping D, recording the unsupported U and skipping the oversize O does
\* to the rows of one file.
LEMMA DispositionAt ==
    ASSUME NEW D, NEW U, NEW O, Disposition(D, U, O), NEW g \in Files
    PROVE  /\ row'[g] = IF g \in D THEN None
                        ELSE IF g \in U THEN disk[g] ELSE row[g]
           /\ rowStat'[g] <=> g \in U \/ (g \notin D /\ rowStat[g])
           /\ skip'[g] = IF g \in D THEN None
                         ELSE IF g \in U THEN "unsupported_language"
                         ELSE IF g \in O THEN "oversize" ELSE skip[g]
           /\ skipStat'[g] <=> g \in U \cup O \/ (g \notin D /\ skipStat[g])
<1> QED
  BY DEF Disposition

\* What a file defines, with its module node.
DefsOf(f, t) == {ModuleNode(f)} \cup t.defs

\* A module node belongs to its file and is not part of the spine.
LEMMA ModuleFields == ASSUME NEW f
                      PROVE  ModuleNode(f).file = f /\ ModuleNode(f).label \notin Spine
<1> QED
  BY Fields DEF ModuleNode, Spine

\* What is extracted from a text belongs to its file.
LEMMA TextOwns ==
    ASSUME NEW f \in Files, NEW t \in Texts[f], t # None
    PROVE  /\ \A n \in DefsOf(f, t) : n.file = f /\ n.label \notin Spine
           /\ \A r \in t.raws : r.file = f
<1> QED
  BY ModuleFields, TextsAssumption DEF DefsOf

\* An edit invalidates the stat identities that vouched for the old text.
LEMMA EditStep ==
    ASSUME StoreInv, NEW f \in Files, NEW text \in Texts[f], Edit(f, text)
    PROVE  StoreInv'
<1>1. Typed'
  BY TypedStep DEF StoreInv, Next
<1>2. /\ UNCHANGED <<row, skip, nodes, edges, raws, pc, full, active, over, todo,
                     failed, changed, before>>
      /\ disk' = [disk EXCEPT ![f] = text] /\ clean' = FALSE
      /\ rowStat' = [rowStat EXCEPT ![f] = FALSE]
      /\ skipStat' = [skipStat EXCEPT ![f] = FALSE]
  BY DEF Edit, graph, run
<1>3. /\ disk' [f] = text
      /\ \A g \in Files \ {f} : /\ disk'[g] = disk[g]
                                /\ rowStat'[g] = rowStat[g]
                                /\ skipStat'[g] = skipStat[g]
      /\ ~rowStat'[f] /\ ~skipStat'[f]
  BY <1>2 DEF StoreInv, Typed
<1>4. Recorded'
  BY <1>2, <1>3 DEF StoreInv, Recorded
<1>5. Owned' /\ Visited' /\ RowsTruthful'
  BY <1>2 DEF StoreInv, Owned, Visited, RowsTruthful, Definitions
<1>6. Trusted' /\ UpToDate'
  BY <1>2, <1>3 DEF StoreInv, Trusted, UpToDate
<1> QED
  BY <1>1, <1>4, <1>5, <1>6 DEF StoreInv

\* A full run starts from empty tables and extracts every file it can.
LEMMA BeginFullStep ==
    ASSUME StableSize, StoreInv, NEW k \in Limits, BeginFull(k)
    PROVE  StoreInv'
<1> DEFINE act == Prefix(disk, k)
           U == act \ Supported
           O == {f \in act \cap Supported : Big(f)}
<1>1. Typed'
  BY TypedStep DEF StoreInv, Next
<1>2. act \subseteq Present(disk) /\ Present(disk) \subseteq Files
  BY PrefixPresent DEF Present
<1>3. /\ active' = act /\ over' = Present(disk) \ act /\ disk' = disk
      /\ pc' = "extract" /\ full' = TRUE /\ clean' = TRUE
      /\ todo' = act \ (U \cup O) /\ UNCHANGED <<nodes, raws, failed>>
      /\ Disposition({}, U, O)
      /\ \A f \in Files : row[f] = None
  BY DEF BeginFull, Begin, Indexed, graph
<1> HIDE DEF act
<1>4. \A g \in Files :
        /\ row'[g] = IF g \in U THEN disk[g] ELSE None
        /\ rowStat'[g] <=> g \in U \/ rowStat[g]
        /\ skip'[g] = IF g \in U THEN "unsupported_language"
                      ELSE IF g \in O THEN "oversize" ELSE skip[g]
        /\ skipStat'[g] <=> g \in U \cup O \/ skipStat[g]
  BY <1>3, DispositionAt
<1>5. Definitions(nodes) = {} /\ raws = {}
  BY <1>3, TextsAssumption DEF StoreInv, Owned
<1>6. Recorded'
  <2>1. \A f \in Files : disk'[f] \in Texts[f] /\ row'[f] \in Texts[f] \cup {None}
    BY <1>3, <1>4 DEF StoreInv, Recorded
  <2>2. \A f \in Supported : row'[f] = None
    BY <1>4, TextsAssumption
  <2>3. ASSUME NEW f \in todo'
        PROVE  f \in Supported /\ \A t \in Texts[f] \ {None} : ~t.big
    <3>1. f \in Supported /\ ~disk[f].big /\ f \in Present(disk)
      BY <1>2, <1>3, <2>3 DEF Big
    <3>2. f \in Files /\ disk[f] \in Texts[f] \ {None}
      BY <3>1 DEF Present, StoreInv, Recorded
    <3> QED
      BY <3>1, <3>2 DEF StableSize
  <2> QED
    BY <2>1, <2>2, <2>3 DEF Recorded
<1>7. Owned' /\ RowsTruthful'
  <2>1. Definitions(nodes)' = {} /\ raws' = {}
    BY <1>3, <1>5 DEF Definitions
  <2>2. \A f \in Supported : row'[f] = None
    BY <1>4, TextsAssumption
  <2> QED
    BY <2>1, <2>2 DEF Owned, RowsTruthful
<1>8. Visited'
  BY <1>2, <1>3, <1>4 DEF Visited
<1>9. Trusted'
  BY <1>3, <1>4 DEF StoreInv, Trusted
<1>10. UpToDate'
  <2>1. \A f \in act : disk[f] # None
    BY <1>2 DEF Present
  <2>2. \A f \in (act \cap Supported) \ todo' : disk[f].big
    BY <1>3 DEF Big
  <2> QED
    BY <1>3, <2>1, <2>2 DEF UpToDate
<1> QED
  BY <1>1, <1>6, <1>7, <1>8, <1>9, <1>10 DEF StoreInv

\* An entry that the diff reports as unchanged has the row of its text, or a skip
\* row gives it up as it is.
LEMMA UnchangedIsDone ==
    ASSUME StoreInv, NEW f \in Supported, Unchanged(f), disk[f] # None, ~disk[f].big
    PROVE  row[f] = disk[f] \/ GivenUp(f)
<1>1. f \in Files
  BY TextsAssumption
<1>2. CASE ~Indexed(f) /\ SkipMatches(f)
  <2>1. /\ skipStat[f] /\ skip[f] \notin {None, "file_limit", "oversize"}
    BY <1>2 DEF SkipMatches, Big
  <2>2. skip[f] \in {"unreadable", "parse_failed", "unsupported_language"}
    BY <1>1, <2>1 DEF StoreInv, Typed
  <2>3. skip[f] = "unsupported_language" => f \notin Supported
    BY <1>1, <2>1 DEF StoreInv, Trusted
  <2> QED
    BY <2>1, <2>2, <2>3 DEF GivenUp
<1>3. CASE Indexed(f) /\ rowStat[f]
  BY <1>1, <1>3 DEF StoreInv, Trusted, Indexed
<1> QED
  BY <1>2, <1>3 DEF Unchanged

\* The diff of an incremental run drops rows and what belongs to them together.
LEMMA BeginIncrementalStep ==
    ASSUME StableSize, StoreInv, NEW k \in Limits, BeginIncremental(k)
    PROVE  StoreInv'
<1> DEFINE act == Prefix(disk, k)
           D == Deleted(act)
           M == Drifted(act)
           U == M \ Supported
           O == {f \in M \cap Supported : Big(f)}
           gone == D \cup U \cup O
<1>1. Typed'
  BY TypedStep DEF StoreInv, Next
<1>2. /\ act \subseteq Present(disk) /\ Present(disk) \subseteq Files
      /\ M \subseteq act /\ D \subseteq Files \ act
      /\ \A f \in Files \ act : row[f] # None => f \in D
      /\ \A f \in act \ M : Unchanged(f)
  BY PrefixPresent DEF Present, Deleted, Drifted, Indexed
<1>3. /\ active' = act /\ over' = Present(disk) \ act /\ disk' = disk
      /\ pc' = "extract" /\ full' = FALSE /\ clean' = TRUE
      /\ todo' = M \ (U \cup O) /\ changed' = D \cup M /\ failed' = failed
      /\ nodes' = NodesWithout(nodes, gone) /\ raws' = RawsWithout(raws, gone)
      /\ Disposition(D, U, O)
  BY DEF BeginIncremental, Begin
<1> HIDE DEF act, D, M
<1>4. \A g \in Files :
        /\ row'[g] = IF g \in D THEN None
                     ELSE IF g \in U THEN disk[g] ELSE row[g]
        /\ rowStat'[g] <=> g \in U \/ (g \notin D /\ rowStat[g])
        /\ skip'[g] = IF g \in D THEN None
                      ELSE IF g \in U THEN "unsupported_language"
                      ELSE IF g \in O THEN "oversize" ELSE skip[g]
        /\ skipStat'[g] <=> g \in U \cup O \/ (g \notin D /\ skipStat[g])
  <2>1. Disposition(D, U, O)
    BY <1>3
  <2> HIDE DEF U, O
  <2> QED
    BY <2>1, DispositionAt
<1>5. \A f \in O : row[f] = None
  <2> SUFFICES ASSUME NEW f \in O, row[f] # None PROVE FALSE
    OBVIOUS
  <2>1. f \in Files /\ f \in Supported /\ disk[f].big /\ disk[f] # None
    BY <1>2 DEF Big, Present
  <2>2. disk[f] \in Texts[f] \ {None} /\ row[f] \in Texts[f] \ {None} /\ ~row[f].big
    BY <2>1 DEF StoreInv, Recorded
  <2> QED
    BY <2>1, <2>2 DEF StableSize
<1>6. Recorded'
  <2>1. \A f \in Files : disk'[f] \in Texts[f] /\ row'[f] \in Texts[f] \cup {None}
    BY <1>3, <1>4 DEF StoreInv, Recorded
  <2>2. \A f \in Supported : row'[f] # None => ~row'[f].big /\ row'[f].ok
    BY <1>4, TextsAssumption DEF StoreInv, Recorded
  <2>3. ASSUME NEW f \in todo'
        PROVE  f \in Supported /\ \A t \in Texts[f] \ {None} : ~t.big
    <3>1. f \in Supported /\ ~disk[f].big /\ f \in Present(disk)
      BY <1>2, <1>3, <2>3 DEF Big
    <3>2. f \in Files /\ disk[f] \in Texts[f] \ {None}
      BY <3>1 DEF Present, StoreInv, Recorded
    <3> QED
      BY <3>1, <3>2 DEF StableSize
  <2> QED
    BY <2>1, <2>2, <2>3 DEF Recorded
<1>7. /\ Definitions(nodes)' = {n \in Definitions(nodes) : n.file \notin gone}
      /\ raws' = {r \in raws : r.file \notin gone}
  BY <1>3 DEF Definitions, NodesWithout, RawsWithout
<1>8. \A f \in Supported : row'[f] # None => row'[f] = row[f] /\ f \notin gone
  BY <1>4, <1>5, TextsAssumption
<1>9. \A f \in Supported \ gone : row'[f] = row[f]
  BY <1>4, TextsAssumption
<1> HIDE DEF gone
<1>10. Owned'
  BY <1>7, <1>9 DEF StoreInv, Owned
<1>11. RowsTruthful'
  <2> SUFFICES ASSUME NEW f \in Supported, row'[f] # None
               PROVE  /\ {n \in Definitions(nodes)' : n.file = f}
                           = {ModuleNode(f)} \cup row'[f].defs
                      /\ {r \in raws' : r.file = f} = row'[f].raws
    BY DEF RowsTruthful
  <2>1. /\ {n \in Definitions(nodes)' : n.file = f}
             = {n \in Definitions(nodes) : n.file = f}
        /\ {r \in raws' : r.file = f} = {r \in raws : r.file = f}
    BY <1>7, <1>8
  <2> QED
    BY <1>8, <2>1 DEF StoreInv, RowsTruthful
<1>12. Visited'
  <2>1. \A f \in Files : row'[f] # None => f \in act
    BY <1>2, <1>4
  <2> QED
    BY <1>2, <1>3, <2>1 DEF Visited
<1>13. Trusted'
  BY <1>2, <1>3, <1>4 DEF StoreInv, Trusted
<1>14. UpToDate'
  <2>1. \A f \in act : disk[f] # None
    BY <1>2 DEF Present
  <2>2. ASSUME NEW f \in (act \cap Supported) \ todo', ~disk[f].big
        PROVE  row'[f] = disk[f] \/ GivenUp(f)'
    <3>1. f \in Files /\ f \notin D /\ f \notin M
      BY <1>2, <1>3, <2>2 DEF Big
    <3>2. row[f] = disk[f] \/ GivenUp(f)
      BY <1>2, <2>1, <2>2, <3>1, UnchangedIsDone
    <3> QED
      BY <1>3, <1>4, <3>1, <3>2 DEF GivenUp
  <2> QED
    BY <1>3, <2>1, <2>2 DEF UpToDate
<1> QED
  BY <1>1, <1>6, <1>10, <1>11, <1>12, <1>13, <1>14 DEF StoreInv

\* An extraction replaces the row, the definitions and the raw edges of one file.
LEMMA ExtractStep ==
    ASSUME StoreInv, NEW f \in Files, Extract(f)
    PROVE  StoreInv'
<1>1. Typed'
  BY TypedStep DEF StoreInv, Next
<1>2. /\ f \in todo /\ disk[f] # None /\ disk[f].ok
      /\ nodes' = NodesWithout(nodes, {f}) \cup DefsOf(f, disk[f])
      /\ raws' = RawsWithout(raws, {f}) \cup disk[f].raws
      /\ todo' = todo \ {f}
      /\ UNCHANGED <<disk, pc, full, active, over, failed, changed, before, clean>>
  BY DEF Extract, DefsOf
<1>3. /\ row'[f] = disk[f] /\ rowStat'[f] /\ ~skipStat'[f]
      /\ \A g \in Files \ {f} : /\ row'[g] = row[g] /\ rowStat'[g] = rowStat[g]
                                /\ skip'[g] = skip[g]
                                /\ skipStat'[g] = skipStat[g]
  BY DEF Extract, StoreInv, Typed
<1>4. f \in Supported /\ disk[f] \in Texts[f] /\ ~disk[f].big /\ f \in active
  BY <1>2 DEF StoreInv, Recorded, Visited
<1>5. /\ \A n \in DefsOf(f, disk[f]) : n.file = f /\ n.label \notin Spine
      /\ \A r \in disk[f].raws : r.file = f
  BY <1>2, <1>4, TextOwns
<1>6. Recorded'
  <2>1. \A g \in Files : disk'[g] \in Texts[g] /\ row'[g] \in Texts[g] \cup {None}
    BY <1>2, <1>3, <1>4 DEF StoreInv, Recorded
  <2>2. \A g \in Supported : row'[g] # None => ~row'[g].big /\ row'[g].ok
    BY <1>2, <1>3, <1>4, TextsAssumption DEF StoreInv, Recorded
  <2> QED
    BY <1>2, <2>1, <2>2 DEF StoreInv, Recorded
<1>7. Definitions(nodes)' = {n \in Definitions(nodes) : n.file # f}
                              \cup DefsOf(f, disk[f])
  BY <1>2, <1>5 DEF Definitions, NodesWithout
<1>8. Owned'
  <2>1. \A g \in Supported : row[g] # None \/ g = f => row'[g] # None
    BY <1>2, <1>3, TextsAssumption
  <2>2. \A n \in Definitions(nodes)' : n.file \in Supported /\ row'[n.file] # None
    BY <1>4, <1>5, <1>7, <2>1 DEF StoreInv, Owned
  <2>3. \A r \in raws' : r.file \in Supported /\ row'[r.file] # None
    BY <1>2, <1>4, <1>5, <2>1 DEF StoreInv, Owned, RawsWithout
  <2> QED
    BY <2>2, <2>3 DEF Owned
<1>9. RowsTruthful'
  <2> SUFFICES ASSUME NEW g \in Supported, row'[g] # None
               PROVE  /\ {n \in Definitions(nodes)' : n.file = g}
                           = {ModuleNode(g)} \cup row'[g].defs
                      /\ {r \in raws' : r.file = g} = row'[g].raws
    BY DEF RowsTruthful
  <2>1. CASE g = f
    <3>1. {n \in Definitions(nodes)' : n.file = f} = DefsOf(f, disk[f])
      BY <1>5, <1>7
    <3>2. {r \in raws' : r.file = f} = disk[f].raws
      BY <1>2, <1>5 DEF RawsWithout
    <3> QED
      BY <1>3, <2>1, <3>1, <3>2 DEF DefsOf
  <2>2. CASE g # f
    <3>1. {n \in Definitions(nodes)' : n.file = g}
            = {n \in Definitions(nodes) : n.file = g}
      BY <1>5, <1>7, <2>2
    <3>2. {r \in raws' : r.file = g} = {r \in raws : r.file = g}
      BY <1>2, <1>5, <2>2 DEF RawsWithout
    <3>3. row'[g] = row[g]
      BY <1>3, <2>2, TextsAssumption
    <3> QED
      BY <3>1, <3>2, <3>3 DEF StoreInv, RowsTruthful
  <2> QED
    BY <2>1, <2>2
<1>10. Visited'
  BY <1>2, <1>3, <1>4 DEF StoreInv, Visited
<1>11. Trusted'
  BY <1>2, <1>3 DEF StoreInv, Trusted
<1>12. UpToDate'
  BY <1>2, <1>3, TextsAssumption DEF StoreInv, UpToDate, GivenUp
<1> QED
  BY <1>1, <1>6, <1>8, <1>9, <1>10, <1>11, <1>12 DEF StoreInv

\* A file that the parallel phase gives up on leaves the store as it was.
LEMMA GivesUpStep ==
    ASSUME StoreInv, NEW f \in Files, ReadFails(f) \/ Rejected(f)
    PROVE  StoreInv'
<1>1. Typed'
  BY TypedStep DEF StoreInv, Next
<1>2. /\ pc = "extract" /\ f \in todo /\ todo' = todo \ {f}
      /\ UNCHANGED <<disk, row, rowStat, skip, skipStat, nodes, edges, raws, pc,
                     full, active, over, changed, before, clean>>
  BY DEF ReadFails, Rejected, GivesUp, rows, graph
<1>3. failed'[f] # None /\ \A g \in Files \ {f} : failed'[g] = failed[g]
  BY NoneIsNoReason DEF ReadFails, Rejected, GivesUp, StoreInv, Typed
<1>4. Recorded' /\ Visited'
  BY <1>2 DEF StoreInv, Recorded, Visited
<1>5. Owned' /\ RowsTruthful'
  BY <1>2 DEF StoreInv, Owned, RowsTruthful, Definitions
<1>6. Trusted'
  BY <1>2 DEF StoreInv, Trusted
<1>7. UpToDate'
  BY <1>2, <1>3, TextsAssumption DEF StoreInv, UpToDate, GivenUp
<1> QED
  BY <1>1, <1>4, <1>5, <1>6, <1>7 DEF StoreInv

\* Recording that touches the skip row only: in a run without edits the identity
\* recorded is the one of the file that was given up.
LEMMA RecordSkipStep ==
    ASSUME StoreInv, NEW f \in Files, RecordSkip(f)
    PROVE  StoreInv'
<1>1. Typed'
  BY TypedStep DEF StoreInv, Next
<1>2. /\ pc = "extract" /\ failed[f] # None
      /\ UNCHANGED <<disk, row, rowStat, nodes, edges, raws, pc, full, active,
                     over, todo, changed, before, clean>>
  BY DEF RecordSkip, graph
<1>3. /\ skip'[f] \in {"unreadable", "parse_failed"}
      /\ skipStat'[f] <=> disk[f] # None
      /\ \A g \in Files \ {f} : /\ skip'[g] = skip[g] /\ failed'[g] = failed[g]
                                /\ skipStat'[g] = skipStat[g]
  BY <1>2 DEF RecordSkip, StoreInv, Typed
<1>4. Recorded' /\ Visited'
  BY <1>2 DEF StoreInv, Recorded, Visited
<1>5. Owned' /\ RowsTruthful'
  BY <1>2 DEF StoreInv, Owned, RowsTruthful, Definitions
<1>6. Trusted'
  BY <1>2, <1>3 DEF StoreInv, Trusted
<1>7. UpToDate'
  BY <1>2, <1>3, TextsAssumption DEF StoreInv, UpToDate, GivenUp
<1> QED
  BY <1>1, <1>4, <1>5, <1>6, <1>7 DEF StoreInv

\* Rebuilding the spine leaves the definitions alone.
LEMMA BuildKeepsDefinitions ==
    ASSUME NEW N, NEW act
    PROVE  Definitions(BuildNodes(N, act)) = Definitions(N)
<1>1. \A n \in SpineNodes(act) : n.label \in Spine
  BY Fields DEF SpineNodes, FileNode, FolderNode, Spine
<1> QED
  BY <1>1 DEF BuildNodes, Definitions

\* The rows the last step of a run leaves: the graph tables lose nothing, for
\* the files that the limit leaves out have no row and so no nodes.
LEMMA FinishRows ==
    ASSUME StoreInv, Finish
    PROVE  /\ Definitions(nodes)' = Definitions(nodes) /\ raws' = raws
           /\ \A f \in Files : row'[f] = row[f]
           /\ nodes' = BuildNodes(nodes, active)
           /\ \A n \in BuildNodes(nodes, active) : n.file \notin over
<1>1. /\ nodes' = NodesWithout(BuildNodes(nodes, active), over)
      /\ raws' = RawsWithout(raws, over)
      /\ row' = [f \in Files |-> IF f \in over THEN None ELSE row[f]]
  BY DEF Finish
<1>2. \A f \in Files : row[f] # None => f \notin over
  BY DEF StoreInv, Visited
<1>3. raws' = raws
  BY <1>1, <1>2, TextsAssumption DEF StoreInv, Owned, RawsWithout
<1>4. \A n \in Definitions(nodes) : n.file \notin over
  BY <1>2, TextsAssumption DEF StoreInv, Owned
<1>5. \A n \in SpineNodes(active) : n.file \notin over
  <2>1. /\ \A f \in active : f \in Files /\ f \notin over
        /\ \A f \in active : \A d \in Ancestors[f] : d \notin over
        /\ Root \notin over
    BY TreeAssumption DEF StoreInv, Typed, Visited
  <2> QED
    BY <2>1, Fields DEF SpineNodes, FileNode, FolderNode
<1>6. /\ nodes' = BuildNodes(nodes, active)
      /\ \A n \in BuildNodes(nodes, active) : n.file \notin over
  BY <1>1, <1>4, <1>5 DEF BuildNodes, NodesWithout
<1>7. Definitions(nodes)' = Definitions(nodes)
  BY <1>6, BuildKeepsDefinitions DEF Definitions
<1> QED
  BY <1>1, <1>2, <1>3, <1>6, <1>7

\* The end of a run keeps what the rows vouch for.
LEMMA FinishStep == ASSUME StoreInv, Finish PROVE StoreInv'
<1>1. Typed'
  BY TypedStep DEF StoreInv, Next
<1>2. /\ todo = {} /\ pc' = "idle" /\ full' = FALSE /\ changed' = {}
      /\ skip' = [f \in Files |-> IF f \in over THEN "file_limit" ELSE skip[f]]
      /\ skipStat' = [f \in Files |-> f \in over \/ skipStat[f]]
      /\ UNCHANGED <<disk, rowStat, active, over, todo, failed, clean>>
      /\ \A f \in Files : failed[f] = None
  BY DEF Finish
<1>3. \A f \in Files :
        \/ skip'[f] = "file_limit"
        \/ skip'[f] = skip[f] /\ (skipStat'[f] <=> skipStat[f])
  BY <1>2
<1>4. Recorded'
  BY <1>2, FinishRows, TextsAssumption DEF StoreInv, Recorded
<1>5. Owned' /\ RowsTruthful'
  BY FinishRows, TextsAssumption DEF StoreInv, Owned, RowsTruthful
<1>6. Visited'
  BY <1>2, FinishRows DEF StoreInv, Visited
<1>7. Trusted'
  BY <1>2, <1>3, FinishRows DEF StoreInv, Trusted
<1>8. UpToDate'
  <2>1. \A f \in active : f \in Files /\ f \notin over
    BY DEF StoreInv, Typed, Visited
  <2>2. \A f \in active : skip'[f] = skip[f] /\ (skipStat'[f] <=> skipStat[f])
    BY <1>2, <2>1
  <2>3. \A f \in active : row'[f] = row[f] /\ (GivenUp(f)' <=> GivenUp(f))
    BY <1>2, <2>1, <2>2, FinishRows DEF GivenUp
  <2> QED
    BY <1>2, <2>1, <2>3 DEF StoreInv, UpToDate
<1> QED
  BY <1>1, <1>4, <1>5, <1>6, <1>7, <1>8 DEF StoreInv

\* Every step keeps the rows and the tables in agreement.
LEMMA StoreStep == ASSUME StableSize PROVE StoreInv /\ [Next]_vars => StoreInv'
<1> SUFFICES ASSUME StoreInv, [Next]_vars PROVE StoreInv'
  OBVIOUS
<1>1. CASE UNCHANGED vars
  BY <1>1 DEF vars, rows, graph, run, StoreInv, Typed, Recorded, Owned, Visited,
              Trusted, UpToDate, GivenUp, RowsTruthful, Definitions
<1> QED
  BY <1>1, EditStep, BeginFullStep, BeginIncrementalStep, ExtractStep,
     GivesUpStep, RecordSkipStep, FinishStep
  DEF Next

\* They agree in every reachable state.
LEMMA StoreInvariant == ASSUME StableSize PROVE Spec => []StoreInv
<1>1. Init => StoreInv
  <2> SUFFICES ASSUME Init PROVE StoreInv
    OBVIOUS
  <2>1. Typed
    BY InitTyped
  <2>2. /\ disk \in {d \in [Files -> UNION {Texts[f] : f \in Files}] :
                       \A f \in Files : d[f] \in Texts[f]}
        /\ row = [f \in Files |-> None] /\ skipStat = [f \in Files |-> FALSE]
        /\ nodes = {} /\ raws = {} /\ full = FALSE /\ clean = FALSE
        /\ active = {} /\ over = {} /\ todo = {} /\ changed = {}
        /\ failed = [f \in Files |-> None]
    BY DEF Init
  <2>3. \A f \in Files : /\ disk[f] \in Texts[f] /\ row[f] = None /\ ~skipStat[f]
                         /\ failed[f] = None
    BY <2>2
  <2>4. Recorded /\ Owned /\ Visited /\ Trusted /\ UpToDate /\ RowsTruthful
    BY <2>2, <2>3, TextsAssumption
    DEF Recorded, Owned, Visited, Trusted, UpToDate, RowsTruthful, Definitions
  <2> QED
    BY <2>1, <2>4 DEF StoreInv
<1> QED
  BY <1>1, StoreStep, PTL DEF Spec

\* In a workspace where no file crosses the size cap, the nodes and the raw
\* edges kept for a file are those of the text whose hash its row records, in
\* every state of every run, whatever was edited, rejected or removed meanwhile.
THEOREM RowsAreTruthful == ASSUME StableSize PROVE Spec => []RowsTruthful
<1>1. StoreInv => RowsTruthful
  BY DEF StoreInv
<1> QED
  BY <1>1, StoreInvariant, PTL

-----------------------------------------------------------------------------
(* The resolver. *)

\* What resolve_unique makes of the definitions found under a name.
Choice(found, imp, file) ==
    LET local == {n \in found : n.file = file}
        imported == found \cap imp
    IN CASE Cardinality(local) = 1 -> local
         [] Cardinality(local) # 1 /\ Cardinality(found) = 1 -> found
         [] OTHER ->
              IF Cardinality(imported) = 1 THEN imported
              ELSE IF found # {} /\ \A m, n \in found : m.file = n.file
                   THEN {CHOOSE n \in found : TRUE} ELSE {}

\* resolve_unique depends on the node table only through the definitions found
\* under the name.
LEMMA UniqueChoice ==
    ASSUME NEW N, NEW imp, NEW labels, NEW name, NEW file
    PROVE  ResolveUnique(N, imp, labels, name, file)
             = Choice(DefsNamed(N, labels, name), imp, file)
<1> QED
  BY DEF ResolveUnique, Choice

\* It answers with one of them or with nothing.
LEMMA ChoiceFound ==
    ASSUME NEW found, NEW imp, NEW file
    PROVE  Choice(found, imp, file) \subseteq found
<1> DEFINE local == {n \in found : n.file = file}
<1>1. found # {} => (CHOOSE n \in found : TRUE) \in found
  OBVIOUS
<1>2. CASE Cardinality(local) = 1
  BY <1>2 DEF Choice
<1>3. CASE Cardinality(local) # 1 /\ Cardinality(found) = 1
  BY <1>3 DEF Choice
<1>4. CASE ~(Cardinality(local) = 1) /\ ~(Cardinality(found) = 1)
  BY <1>1, <1>4 DEF Choice
<1> QED
  BY <1>2, <1>3, <1>4

\* So its answer has the name and a label that was asked for.
LEMMA UniqueFound ==
    ASSUME NEW N, NEW imp, NEW labels, NEW name, NEW file
    PROVE  ResolveUnique(N, imp, labels, name, file) \subseteq DefsNamed(N, labels, name)
<1> QED
  BY UniqueChoice, ChoiceFound

\* A method found through its receiver is in the table and has the name.
LEMMA ReceiverFound ==
    ASSUME NEW N, NEW file, NEW owner, NEW name
    PROVE  \A t \in ResolveReceiver(N, file, owner, name) : t \in N /\ t.name = name
<1> QED
  BY Fields DEF ResolveReceiver

\* A call resolves to a node of that name, ...
LEMMA CallFound ==
    ASSUME NEW N, NEW imp, NEW r
    PROVE  \A t \in ResolveCall(N, imp, r) : t \in N /\ t.name = r.name
<1> DEFINE guess == Node(r.file, "Function", None, r.name)
<1>1. CASE r.owner # None
  BY <1>1, ReceiverFound DEF ResolveCall
<1>2. CASE r.owner = None /\ guess \in N
  BY <1>2, Fields DEF ResolveCall
<1>3. CASE r.owner = None /\ guess \notin N
  <2>1. \/ ResolveCall(N, imp, r) = ResolveUnique(N, imp, Callable, r.name, r.file)
        \/ ResolveCall(N, imp, r)
             = ResolveUnique(N, imp, Constructable, r.name, r.file)
    BY <1>3 DEF ResolveCall
  <2> QED
    BY <2>1, UniqueFound DEF DefsNamed
<1> QED
  BY <1>1, <1>2, <1>3

\* A resolved type is in the table.
LEMMA TypeFound ==
    ASSUME NEW N, NEW imp, NEW r
    PROVE  ResolveType(N, imp, r) \subseteq N
<1> QED
  BY UniqueFound DEF ResolveType, DefsNamed

\* ... any reference to a node of the table, and an edge that is not persisted
\* as a usage and not a call stays within its file.
LEMMA ReferenceFound ==
    ASSUME NEW N, NEW imp, NEW r
    PROVE  \A t \in ResolveReference(N, imp, r) :
             /\ t \in N
             /\ r.type = "CALLS" => t.name = r.name
             /\ r.type # "CALLS" /\ PersistLabel(r.type) # "USAGE" => t.file = r.file
<1>1. CASE r.type = "CALLS"
  <2>1. ResolveReference(N, imp, r) = ResolveCall(N, imp, r)
    BY <1>1 DEF ResolveReference
  <2> QED
    BY <1>1, <2>1, CallFound
<1>2. CASE r.type = "TYPE_REF"
  <2>1. ResolveReference(N, imp, r) = ResolveType(N, imp, r)
    BY <1>2 DEF ResolveReference
  <2> QED
    BY <1>2, <2>1, TypeFound DEF PersistLabel
<1>3. CASE r.type = "USES"
  <2>1. ResolveReference(N, imp, r)
          = ResolveUnique(N, imp, Callable \cup Types, r.name, r.file)
    BY <1>3 DEF ResolveReference
  <2> QED
    BY <1>3, <2>1, UniqueFound DEF PersistLabel, DefsNamed
<1>4. CASE r.type = "USAGE"
  <2>1. ResolveReference(N, imp, r) = ResolveUnique(N, imp, Usable, r.name, r.file)
    BY <1>4 DEF ResolveReference
  <2> QED
    BY <1>4, <2>1, UniqueFound DEF PersistLabel, DefsNamed
<1>5. CASE r.type \notin {"CALLS", "TYPE_REF", "USES", "USAGE"}
  <2>1. ResolveReference(N, imp, r) = {Node(r.file, "Method", r.owner, r.name)} \cap N
    BY <1>5 DEF ResolveReference
  <2> QED
    BY <1>5, <2>1, Fields
<1> QED
  BY <1>1, <1>2, <1>3, <1>4, <1>5

\* A resolved import is in the table and has the imported name.
LEMMA ImportFound ==
    ASSUME NEW N, NEW r
    PROVE  \A t \in ResolveImport(N, r) : t \in N /\ t.name = r.name
<1> QED
  BY DEF ResolveImport, DefsNamed

\* The spine is invisible to the resolver.
LEMMA NamedDefinitions ==
    ASSUME NEW N, NEW labels, NEW name, labels \cap Spine = {}
    PROVE  DefsNamed(N, labels, name) = DefsNamed(Definitions(N), labels, name)
<1> QED
  BY DEF DefsNamed, Definitions

\* No label the resolver looks for is one of the spine's.
LEMMA LabelsDisjoint ==
    /\ Callable \cap Spine = {} /\ Constructable \cap Spine = {}
    /\ Types \cap Spine = {} /\ Usable \cap Spine = {}
    /\ Importable \cap Spine = {} /\ (Callable \cup Types) \cap Spine = {}
<1> QED
  BY DEF Callable, Constructable, Types, Usable, Importable, Spine

\* resolve_unique does not see the spine ...
LEMMA UniqueDefinitions ==
    ASSUME NEW N, NEW imp, NEW labels, NEW name, NEW file, labels \cap Spine = {}
    PROVE  ResolveUnique(N, imp, labels, name, file)
             = ResolveUnique(Definitions(N), imp, labels, name, file)
<1> QED
  BY UniqueChoice, NamedDefinitions

\* ... nor does the look-up of a definition by its qualified name ...
LEMMA NodeDefinitions ==
    ASSUME NEW N, NEW f, NEW owner, NEW name, NEW label, label \notin Spine
    PROVE  Node(f, label, owner, name) \in N
             <=> Node(f, label, owner, name) \in Definitions(N)
<1> QED
  BY Fields DEF Definitions

\* ... nor the resolution of imports ...
LEMMA ImportDefinitions ==
    ASSUME NEW N, NEW r
    PROVE  ResolveImport(N, r) = ResolveImport(Definitions(N), r)
<1>1. DefsNamed(N, Importable, r.name) = DefsNamed(Definitions(N), Importable, r.name)
  BY NamedDefinitions, LabelsDisjoint
<1> DEFINE found == DefsNamed(N, Importable, r.name)
           matched(S) == {n \in S : r.seg # None /\ Stem[n.file] = r.seg}
           answer(S) == IF Cardinality(S) = 1 THEN S
                        ELSE IF Cardinality(matched(S)) = 1 THEN matched(S) ELSE {}
<1>2. \A M : ResolveImport(M, r) = answer(DefsNamed(M, Importable, r.name))
  BY DEF ResolveImport
<1> HIDE DEF answer
<1> QED
  BY <1>1, <1>2

\* ... nor that of references.
LEMMA ReferenceDefinitions ==
    ASSUME NEW N, NEW imp, NEW r
    PROVE  ResolveReference(N, imp, r) = ResolveReference(Definitions(N), imp, r)
<1> DEFINE D == Definitions(N)
<1>1. ResolveReceiver(N, r.file, r.owner, r.name)
        = ResolveReceiver(D, r.file, r.owner, r.name)
  <2>1. {n \in N : n.label = "Method" /\ n.owner = r.owner /\ n.name = r.name}
          = {n \in D : n.label = "Method" /\ n.owner = r.owner /\ n.name = r.name}
    BY DEF Definitions, Spine
  <2>2. Node(r.file, "Method", r.owner, r.name) \in N
          <=> Node(r.file, "Method", r.owner, r.name) \in D
    BY NodeDefinitions DEF Spine
  <2> HIDE DEF D
  <2> QED
    BY <2>1, <2>2 DEF ResolveReceiver
<1>2. ResolveCall(N, imp, r) = ResolveCall(D, imp, r)
  <2>1. Node(r.file, "Function", None, r.name) \in N
          <=> Node(r.file, "Function", None, r.name) \in D
    BY NodeDefinitions DEF Spine
  <2>2. /\ DefsNamed(N, Callable, r.name) = DefsNamed(D, Callable, r.name)
        /\ ResolveUnique(N, imp, Callable, r.name, r.file)
             = ResolveUnique(D, imp, Callable, r.name, r.file)
        /\ ResolveUnique(N, imp, Constructable, r.name, r.file)
             = ResolveUnique(D, imp, Constructable, r.name, r.file)
    BY NamedDefinitions, UniqueDefinitions, LabelsDisjoint
  <2> HIDE DEF D
  <2> QED
    BY <1>1, <2>1, <2>2 DEF ResolveCall
<1>3. ResolveType(N, imp, r) = ResolveType(D, imp, r)
  <2>1. Node(r.file, "Class", None, r.name) \in N
          <=> Node(r.file, "Class", None, r.name) \in D
    BY NodeDefinitions DEF Spine
  <2>2. ResolveUnique(N, imp, Types, r.name, r.file)
          = ResolveUnique(D, imp, Types, r.name, r.file)
    BY UniqueDefinitions, LabelsDisjoint
  <2> HIDE DEF D
  <2> QED
    BY <2>1, <2>2 DEF ResolveType
<1>4. /\ ResolveUnique(N, imp, Callable \cup Types, r.name, r.file)
           = ResolveUnique(D, imp, Callable \cup Types, r.name, r.file)
      /\ ResolveUnique(N, imp, Usable, r.name, r.file)
           = ResolveUnique(D, imp, Usable, r.name, r.file)
  BY UniqueDefinitions, LabelsDisjoint
<1>5. {Node(r.file, "Method", r.owner, r.name)} \cap N
        = {Node(r.file, "Method", r.owner, r.name)} \cap D
  BY NodeDefinitions DEF Spine
<1> HIDE DEF D
<1> QED
  BY <1>2, <1>3, <1>4, <1>5 DEF ResolveReference, D

\* What the import edges I give the file f to tell homonyms apart.
Imported(I, f) == {e.tgt : e \in {e \in I : e.src.file = f}}

\* The raw edge r gives the edge e.
ByImport(N, r, e) ==
    /\ IsImport(r) /\ r.src \in N
    /\ \E t \in ResolveImport(N, r) \ {r.src} : e = Edge(r.src, t, r.type)
ByReference(N, I, r, e) ==
    /\ ~IsImport(r) /\ r.src \in N
    /\ \E t \in ResolveReference(N, Imported(I, r.file), r) :
          /\ t # r.src \/ r.type = "CALLS"
          /\ e = Edge(r.src, t, PersistLabel(r.type))

\* Import edges come from single raw edges.
LEMMA ImportEdgesBy ==
    ASSUME NEW N, NEW R, NEW e
    PROVE  e \in ImportEdges(N, R) <=> \E r \in R : ByImport(N, r, e)
<1> QED
  BY DEF ImportEdges, ByImport

\* Reference edges come from single raw edges, given the import edges.
LEMMA ReferenceEdgesBy ==
    ASSUME NEW N, NEW R, NEW I, NEW e
    PROVE  e \in ReferenceEdges(N, R, I) <=> \E r \in R : ByReference(N, I, r, e)
<1> DEFINE imp(f) == {x.tgt : x \in {x \in I : x.src.file = f}}
           made(r) == {Edge(r.src, t, PersistLabel(r.type)) :
                         t \in {t \in ResolveReference(N, imp(r.file), r) :
                                   t # r.src \/ r.type = "CALLS"}}
<1>1. ReferenceEdges(N, R, I)
        = UNION {made(r) : r \in {r \in R : ~IsImport(r) /\ r.src \in N}}
  BY DEF ReferenceEdges
<1>2. \A r : e \in made(r) /\ ~IsImport(r) /\ r.src \in N <=> ByReference(N, I, r, e)
  BY DEF ByReference, Imported
<1> HIDE DEF made
<1> QED
  BY <1>1, <1>2

\* So do all the edges of a full resolution.
LEMMA ResolveAllBy ==
    ASSUME NEW N, NEW R, NEW e
    PROVE  e \in ResolveAll(N, R)
             <=> \E r \in R : \/ ByImport(N, r, e)
                              \/ ByReference(N, ImportEdges(N, R), r, e)
<1> QED
  BY ImportEdgesBy, ReferenceEdgesBy DEF ResolveAll

\* Raw edges of which each starts at a definition of its file.
Sourced(R) == \A r \in R : r.src.file = r.file /\ r.src.label \notin Spine

\* An edge starts at the source of its raw edge and connects nodes of the table.
LEMMA ByFields ==
    ASSUME NEW N, NEW I, NEW r, NEW e,
           ByImport(N, r, e) \/ ByReference(N, I, r, e)
    PROVE  e.src = r.src /\ e.src \in N /\ e.tgt \in N
<1> QED
  BY Fields, ImportFound, ReferenceFound DEF ByImport, ByReference

\* What a file imports depends on its own raw edges only.
LEMMA ImportedLocal ==
    ASSUME NEW N, NEW R, NEW Q, NEW f,
           {r \in R : r.src.file = f} = {r \in Q : r.src.file = f}
    PROVE  Imported(ImportEdges(N, R), f) = Imported(ImportEdges(N, Q), f)
<1>1. ASSUME NEW e, e.src.file = f
      PROVE  e \in ImportEdges(N, R) <=> e \in ImportEdges(N, Q)
  <2>1. \A r : ByImport(N, r, e) => r.src.file = f
    BY <1>1, Fields DEF ByImport
  <2>2. \A r : r.src.file = f => (r \in R <=> r \in Q)
    OBVIOUS
  <2> QED
    BY <2>1, <2>2, ImportEdgesBy
<1>2. {e \in ImportEdges(N, R) : e.src.file = f}
        = {e \in ImportEdges(N, Q) : e.src.file = f}
  BY <1>1
<1> QED
  BY <1>2 DEF Imported

\* A reference depends on the import edges of its own file only.
LEMMA ByReferenceLocal ==
    ASSUME NEW N, NEW I, NEW J, NEW r, NEW e,
           Imported(I, r.file) = Imported(J, r.file)
    PROVE  ByReference(N, I, r, e) <=> ByReference(N, J, r, e)
<1> QED
  BY DEF ByReference

\* So does the resolution of an edge: two tables of raw edges that agree on the
\* file it starts in give it both or neither.
LEMMA ResolveLocal ==
    ASSUME NEW N, NEW R, NEW Q, Sourced(R), Sourced(Q), NEW e \in ResolveAll(N, R),
           \A r : r.file = e.src.file => (r \in R => r \in Q),
           \A r : r.file = e.src.file => (r \in Q => r \in R)
    PROVE  e \in ResolveAll(N, Q)
<1>1. PICK r \in R : ByImport(N, r, e) \/ ByReference(N, ImportEdges(N, R), r, e)
  BY ResolveAllBy
<1>2. r.file = e.src.file /\ r \in Q
  <2>1. e.src = r.src
    BY <1>1, ByFields
  <2>2. r.src.file = r.file
    BY DEF Sourced
  <2> QED
    BY <2>1, <2>2
<1>3. {q \in R : q.src.file = r.file} = {q \in Q : q.src.file = r.file}
  BY <1>2 DEF Sourced
<1>4. Imported(ImportEdges(N, R), r.file) = Imported(ImportEdges(N, Q), r.file)
  BY <1>3, ImportedLocal
<1>5. ByImport(N, r, e) \/ ByReference(N, ImportEdges(N, Q), r, e)
  BY <1>1, <1>4, ByReferenceLocal
<1> QED
  BY <1>2, <1>5, ResolveAllBy

\* The import edges depend on the definitions only ...
LEMMA ImportEdgesDefinitions ==
    ASSUME NEW N, NEW R, Sourced(R)
    PROVE  ImportEdges(N, R) = ImportEdges(Definitions(N), R)
<1>1. \A r \in R : \A e : ByImport(N, r, e) <=> ByImport(Definitions(N), r, e)
  <2> TAKE r \in R
  <2>1. r.src \in N <=> r.src \in Definitions(N)
    BY DEF Sourced, Definitions
  <2> QED
    BY <2>1, ImportDefinitions DEF ByImport
<1>2. \A e : e \in ImportEdges(N, R) <=> e \in ImportEdges(Definitions(N), R)
  BY <1>1, ImportEdgesBy
<1>3. /\ ImportEdges(N, R) \subseteq ImportEdges(Definitions(N), R)
      /\ ImportEdges(Definitions(N), R) \subseteq ImportEdges(N, R)
  BY <1>2
<1> QED
  BY <1>3

\* ... and so does the edge of one reference ...
LEMMA ReferenceByDefinitions ==
    ASSUME NEW N, NEW I, NEW e, NEW r, r.src.label \notin Spine
    PROVE  ByReference(N, I, r, e) <=> ByReference(Definitions(N), I, r, e)
<1>1. r.src \in N <=> r.src \in Definitions(N)
  BY DEF Definitions
<1> QED
  BY <1>1, ReferenceDefinitions DEF ByReference

\* ... or of one import ...
LEMMA ImportByDefinitions ==
    ASSUME NEW N, NEW e, NEW r, r.src.label \notin Spine
    PROVE  ByImport(N, r, e) <=> ByImport(Definitions(N), r, e)
<1>1. r.src \in N <=> r.src \in Definitions(N)
  BY DEF Definitions
<1> QED
  BY <1>1, ImportDefinitions DEF ByImport

\* ... and the whole resolution.
LEMMA ResolveDefinitions ==
    ASSUME NEW N, NEW R, Sourced(R), NEW e
    PROVE  e \in ResolveAll(N, R) <=> e \in ResolveAll(Definitions(N), R)
<1>1. \A r \in R : r.src.label \notin Spine
  BY DEF Sourced
<1> QED
  BY <1>1, ImportEdgesDefinitions, ResolveAllBy, ImportByDefinitions,
     ReferenceByDefinitions

\* The raw edges that an incremental run resolves again.
Candidates(N, R, C) ==
    LET names == {n.name : n \in {n \in N : n.file \in C}}
    IN {r \in R : r.file \in C \/ ReferencesName(r, names)}

\* The candidate resolution gives the edges of the raw edges it selects, with the
\* import edges of all of them.
LEMMA CandidatesBy ==
    ASSUME NEW N, NEW R, NEW C, Sourced(R), NEW e
    PROVE  e \in ResolveCandidates(N, R, C)
             <=> \E r \in Candidates(N, R, C) :
                    \/ ByImport(N, r, e)
                    \/ ByReference(N, ImportEdges(N, R), r, e)
<1> DEFINE cand == Candidates(N, R, C)
           owners == {r.file : r \in {r \in cand : ~IsImport(r)}}
           Q == {r \in R : r \in cand \/ r.src.file \in owners}
<1>1. ResolveCandidates(N, R, C)
        = ImportEdges(N, cand) \cup ReferenceEdges(N, cand, ImportEdges(N, Q))
  BY DEF ResolveCandidates, Candidates
<1>2. cand \subseteq R
  BY DEF Candidates
<1> HIDE DEF cand
<1>3. ASSUME NEW r \in cand
      PROVE  ByReference(N, ImportEdges(N, Q), r, e)
               <=> ByReference(N, ImportEdges(N, R), r, e)
  <2>1. CASE IsImport(r)
    BY <2>1 DEF ByReference
  <2>2. CASE ~IsImport(r)
    <3>1. r.file \in owners
      BY <2>2
    <3>2. {q \in Q : q.src.file = r.file} = {q \in R : q.src.file = r.file}
      BY <3>1
    <3> HIDE DEF Q
    <3>3. Imported(ImportEdges(N, Q), r.file) = Imported(ImportEdges(N, R), r.file)
      BY <3>2, ImportedLocal
    <3> QED
      BY <3>3, ByReferenceLocal
  <2> QED
    BY <2>1, <2>2
<1> HIDE DEF Q
<1>4. e \in ResolveCandidates(N, R, C)
        <=> \E r \in cand : \/ ByImport(N, r, e)
                            \/ ByReference(N, ImportEdges(N, Q), r, e)
  BY <1>1, ImportEdgesBy, ReferenceEdgesBy
<1> QED
  BY <1>3, <1>4 DEF cand

\* A candidate gives no edge that a full resolution does not give, ...
LEMMA CandidatesSound ==
    ASSUME NEW N, NEW R, NEW C, Sourced(R), NEW e \in ResolveCandidates(N, R, C)
    PROVE  e \in ResolveAll(N, R)
<1>1. Candidates(N, R, C) \subseteq R
  BY DEF Candidates
<1> QED
  BY <1>1, CandidatesBy, ResolveAllBy

\* ... and an edge that is not a usage and that no candidate gives touches none
\* of the changed files: edge_references_name misses no such edge.
LEMMA CandidatesComplete ==
    ASSUME NEW N, NEW R, NEW C, Sourced(R), NEW e \in ResolveAll(N, R),
           e.type # "USAGE", e \notin ResolveCandidates(N, R, C)
    PROVE  e.src.file \notin C /\ e.tgt.file \notin C
<1> DEFINE names == {n.name : n \in {n \in N : n.file \in C}}
<1>1. PICK r \in R : ByImport(N, r, e) \/ ByReference(N, ImportEdges(N, R), r, e)
  BY ResolveAllBy
<1>2. r \notin Candidates(N, R, C)
  BY <1>1, CandidatesBy
<1>3. r.file \notin C /\ ~ReferencesName(r, names)
  BY <1>2 DEF Candidates
<1>4. e.src.file \notin C
  <2>1. e.src = r.src
    BY <1>1, ByFields
  <2>2. r.src.file = r.file
    BY DEF Sourced
  <2> QED
    BY <1>3, <2>1, <2>2
<1>5. e.tgt \in N
  BY <1>1, ByFields
<1>6. CASE IsImport(r)
  <2>1. e.tgt.name = r.name
    BY <1>1, <1>6, ImportFound, Fields DEF ByImport, ByReference
  <2> QED
    BY <1>3, <1>4, <1>5, <1>6, <2>1 DEF ReferencesName, IsImport
<1>7. CASE ~IsImport(r)
  <2>1. PICK t \in ResolveReference(N, Imported(ImportEdges(N, R), r.file), r) :
             e = Edge(r.src, t, PersistLabel(r.type))
    BY <1>1, <1>7 DEF ByImport, ByReference
  <2>2. e.tgt = t /\ PersistLabel(r.type) # "USAGE"
    BY <2>1, Fields
  <2>3. CASE r.type = "CALLS"
    <3>1. t.name = r.name
      BY <2>1, <2>3, ReferenceFound
    <3> QED
      BY <1>3, <1>4, <1>5, <2>2, <2>3, <3>1 DEF ReferencesName
  <2>4. CASE r.type # "CALLS"
    <3>1. t.file = r.file
      BY <2>1, <2>2, <2>4, ReferenceFound
    <3> QED
      BY <1>3, <1>4, <2>2, <3>1
  <2> QED
    BY <2>3, <2>4
<1> QED
  BY <1>6, <1>7

-----------------------------------------------------------------------------
(* The edges. *)

\* Every stored raw edge comes from a text of some file.
LEMMA RawsKnown ==
    ASSUME StoreInv, NEW r \in raws
    PROVE  \E f \in Files : \E t \in Texts[f] \ {None} : r \in t.raws
<1>1. r.file \in Files /\ r.file \in Supported /\ row[r.file] # None
  BY TextsAssumption DEF StoreInv, Owned
<1>2. row[r.file] \in Texts[r.file] \ {None}
  BY <1>1 DEF StoreInv, Recorded
<1>3. r \in row[r.file].raws
  BY <1>1 DEF StoreInv, RowsTruthful
<1> QED
  BY <1>1, <1>2, <1>3

\* Every stored raw edge starts in its own file, at a definition.
LEMMA RawsSourced == ASSUME StoreInv PROVE Sourced(raws)
<1> QED
  BY RawsKnown, TextsAssumption DEF Sourced

EdgeInv == Closed /\ Kept /\ Explained /\ Complete

\* A step that takes the nodes of the files of S away, and that counts them
\* among the changed ones, leaves the other edges explained and complete.
LEMMA RemovalStep ==
    ASSUME Explained, Complete, ~full, ~full', Base' = Base, NEW S,
           Sourced(raws), Sourced(raws'),
           edges' = EdgesWithout(edges, S),
           \A r : r.file \notin S => (r \in raws <=> r \in raws'),
           S \subseteq changed', changed \subseteq changed'
    PROVE  Explained' /\ Complete'
<1>1. Explained'
  <2> SUFFICES ASSUME NEW e \in edges'
               PROVE  \/ SpineEdge(e)
                      \/ ~full' /\ e \in ResolveAll(Base', raws')
                      \/ ~full' /\ \E r \in raws' : FileImport(Base', r, e)
    BY DEF Explained
  <2>1. e \in edges /\ e.src.file \notin S
    BY DEF EdgesWithout
  <2>2. CASE e \in ResolveAll(Base, raws)
    <3>1. e \in ResolveAll(Base, raws')
      BY <2>1, <2>2, ResolveLocal
    <3> QED
      BY <3>1
  <2>3. CASE \E r \in raws : FileImport(Base, r, e)
    <3>1. PICK r \in raws : FileImport(Base, r, e)
      BY <2>3
    <3>2. r.src = e.src
      BY <3>1, Fields DEF FileImport
    <3>3. r.file \notin S
      BY <2>1, <3>2 DEF Sourced
    <3> QED
      BY <3>1, <3>3
  <2> QED
    BY <2>1, <2>2, <2>3 DEF Explained
<1>2. Complete'
  <2> SUFFICES ASSUME NEW e \in ResolveAll(Base, raws'), e.type # "USAGE",
                      e.src.file \notin changed', e.tgt.file \notin changed'
               PROVE  e \in edges'
    BY DEF Complete
  <2>1. e \in ResolveAll(Base, raws)
    BY ResolveLocal
  <2>2. e \in edges
    BY <2>1 DEF Complete
  <2> QED
    BY <2>2 DEF EdgesWithout
<1> QED
  BY <1>1, <1>2

\* Without raw edges there is nothing to resolve.
LEMMA NoRawsNoEdges == ASSUME NEW N PROVE ResolveAll(N, {}) = {}
<1> QED
  BY ResolveAllBy

\* A full run starts without edges.
LEMMA BeginFullEdges ==
    ASSUME StoreInv, EdgeInv, NEW k \in Limits, BeginFull(k)
    PROVE  Kept' /\ Explained' /\ Complete'
<1>1. /\ pc = "idle" /\ full' = TRUE /\ edges' = edges
      /\ \A f \in Files : row[f] = None
  BY DEF BeginFull, Begin, Indexed, graph
<1>2. raws = {}
  BY <1>1, TextsAssumption DEF StoreInv, Owned
<1>3. \A e \in edges : SpineEdge(e)
  BY <1>2, NoRawsNoEdges DEF EdgeInv, Explained
<1> QED
  BY <1>1, <1>3 DEF Kept, Explained, Complete

\* The diff removes files with the edges that touch them.
LEMMA BeginIncrementalEdges ==
    ASSUME StoreInv, StoreInv', EdgeInv, NEW k \in Limits, BeginIncremental(k)
    PROVE  Kept' /\ Explained' /\ Complete'
<1> DEFINE act == Prefix(disk, k)
           D == Deleted(act)
           M == Drifted(act)
           gone == D \cup (M \ Supported) \cup {f \in M \cap Supported : Big(f)}
<1>1. /\ pc = "idle" /\ pc' = "extract" /\ full' = FALSE
      /\ before' = Definitions(nodes) /\ changed' = D \cup M
      /\ nodes' = NodesWithout(nodes, gone)
      /\ edges' = EdgesWithout(edges, gone)
      /\ raws' = RawsWithout(raws, gone)
  BY DEF BeginIncremental, Begin, DefFingerprint
<1>2. gone \subseteq changed'
  BY <1>1
<1> HIDE DEF gone
<1>3. ~full /\ ~full' /\ changed = {} /\ Base' = Base
  BY <1>1 DEF StoreInv, Visited, Base
<1>4. \A r : r.file \notin gone => (r \in raws <=> r \in raws')
  BY <1>1 DEF RawsWithout
<1>5. Sourced(raws) /\ Sourced(raws')
  <2>1. Sourced(raws)
    BY RawsSourced
  <2> QED
    BY <1>1, <2>1 DEF Sourced, RawsWithout
<1>6. Explained' /\ Complete'
  BY <1>1, <1>2, <1>3, <1>4, <1>5, RemovalStep DEF EdgeInv
<1>7. Kept'
  <2>1. Definitions(nodes)' = {n \in Definitions(nodes) : n.file \notin gone}
    BY <1>1 DEF Definitions, NodesWithout
  <2>2. Base' = Definitions(nodes)
    BY <1>1 DEF Base
  <2> QED
    BY <1>2, <2>1, <2>2 DEF Kept
<1> QED
  BY <1>6, <1>7

\* An extraction removes the edges of a changed file, and adds none.
LEMMA ExtractEdges ==
    ASSUME StoreInv, StoreInv', EdgeInv, NEW f \in Files, Extract(f)
    PROVE  Kept' /\ Explained' /\ Complete'
<1>1. /\ pc = "extract" /\ f \in todo
      /\ nodes' = NodesWithout(nodes, {f}) \cup DefsOf(f, disk[f])
      /\ edges' = EdgesWithout(edges, {f})
      /\ raws' = RawsWithout(raws, {f}) \cup disk[f].raws
      /\ UNCHANGED <<pc, full, changed, before>>
      /\ disk[f] # None
  BY DEF Extract, DefsOf
<1>2. /\ \A n \in DefsOf(f, disk[f]) : n.file = f /\ n.label \notin Spine
      /\ \A r \in disk[f].raws : /\ r.file = f /\ r.src.file = f
                                 /\ r.src.label \notin Spine
  <2>1. disk[f] \in Texts[f] \ {None}
    BY <1>1 DEF StoreInv, Recorded
  <2> QED
    BY <2>1, TextOwns, TextsAssumption
<1>3. CASE full
  BY <1>1, <1>3 DEF EdgeInv, Kept, Explained, Complete, EdgesWithout
<1>4. CASE ~full
  <2>1. {f} \subseteq changed' /\ changed \subseteq changed' /\ ~full'
    BY <1>1, <1>4 DEF StoreInv, Visited
  <2>2. Base' = Base
    BY <1>1 DEF Base
  <2>3. Sourced(raws) /\ Sourced(raws')
    <3>1. Sourced(raws)
      BY RawsSourced
    <3> QED
      BY <1>1, <1>2, <3>1 DEF Sourced, RawsWithout
  <2>4. \A r : r.file \notin {f} => (r \in raws <=> r \in raws')
    BY <1>1, <1>2 DEF RawsWithout
  <2>5. Explained' /\ Complete'
    BY <1>1, <1>4, <2>1, <2>2, <2>3, <2>4, RemovalStep DEF EdgeInv
  <2>6. Kept'
    <3>1. Definitions(nodes)' = {n \in Definitions(nodes) : n.file # f}
                                  \cup DefsOf(f, disk[f])
      BY <1>1, <1>2 DEF Definitions, NodesWithout
    <3>2. {n \in Definitions(nodes)' : n.file \notin changed}
            = {n \in Definitions(nodes) : n.file \notin changed}
      BY <1>1, <1>2, <2>1, <3>1
    <3> QED
      BY <1>1, <1>4, <2>2, <3>2 DEF EdgeInv, Kept
  <2> QED
    BY <2>5, <2>6
<1> QED
  BY <1>3, <1>4

\* What the resolution at the end of a run keeps and adds is explained by the
\* definitions and the raw edges it finds, ...
LEMMA ResolvedExplained ==
    ASSUME StoreInv, EdgeInv, pc = "extract", NEW e \in Resolved
    PROVE  \/ SpineEdge(e)
           \/ e \in ResolveAll(Definitions(nodes), raws)
           \/ \E r \in raws : FileImport(Definitions(nodes), r, e)
<1>1. Sourced(raws) /\ Base = before
  BY RawsSourced DEF Base
<1>2. CASE e \in ResolveAll(nodes, raws)
  BY <1>1, <1>2, ResolveDefinitions
<1>3. CASE e \in edges /\ (full \/ Definitions(nodes) = before)
  BY <1>1, <1>3 DEF EdgeInv, Explained
<1>4. CASE e \in ResolveCandidates(nodes, raws, changed)
  BY <1>1, <1>2, <1>4, CandidatesSound
<1>5. ~full /\ changed = {} => Definitions(nodes) = before
  BY <1>1 DEF EdgeInv, Kept
<1> QED
  BY <1>2, <1>3, <1>4, <1>5 DEF Resolved, ResolveIncremental, DefFingerprint

\* ... and it misses at most usage edges.
LEMMA ResolvedComplete ==
    ASSUME StoreInv, EdgeInv, pc = "extract",
           NEW e \in ResolveAll(Definitions(nodes), raws), e.type # "USAGE"
    PROVE  e \in Resolved
<1>1. Sourced(raws) /\ Base = before
  BY RawsSourced DEF Base
<1>2. e \in ResolveAll(nodes, raws)
  BY <1>1, ResolveDefinitions
<1>3. CASE full
  BY <1>2, <1>3 DEF Resolved
<1>4. CASE ~full /\ changed # {} /\ Definitions(nodes) # before
  BY <1>2, <1>4 DEF Resolved, ResolveIncremental, DefFingerprint
<1>5. CASE ~full /\ changed = {}
  <2>1. Definitions(nodes) = before
    BY <1>1, <1>5 DEF EdgeInv, Kept
  <2>2. e \in edges
    BY <1>1, <1>5, <2>1 DEF EdgeInv, Complete
  <2> QED
    BY <1>5, <2>2 DEF Resolved, ResolveIncremental
<1>6. CASE ~full /\ changed # {} /\ Definitions(nodes) = before
  <2>1. e \in ResolveCandidates(nodes, raws, changed) \/ e \in edges
    BY <1>1, <1>2, <1>6, CandidatesComplete DEF EdgeInv, Complete
  <2> QED
    BY <1>6, <2>1 DEF Resolved, ResolveIncremental, DefFingerprint
<1> QED
  BY <1>3, <1>4, <1>5, <1>6

\* The edges of a full index of a store with the nodes N and the raw edges R.
FullEdges(N, R, act) ==
    BuildEdges(N, ResolveAll(Definitions(N), R), act) \cup FileImports(N, R)

\* A structural edge whose endpoints are both in the rebuilt node table is one
\* that the rebuilt spine has.
LEMMA SpineEdgeRebuilt ==
    ASSUME NEW N, NEW act \in SUBSET Files, NEW e, SpineEdge(e),
           e.src \in BuildNodes(N, act), e.tgt \in BuildNodes(N, act)
    PROVE  e \in SpineEdges(BuildNodes(N, act), act)
<1> DEFINE built == BuildNodes(N, act)
<1>1. \A n \in built : n.label = "File" => n.file \in act
  BY Fields DEF BuildNodes, SpineNodes, Definitions, FileNode, FolderNode, Spine
<1>2. \A n \in built :
        n.label = "Folder" => n.file \in UNION {Ancestors[f] : f \in act}
  BY Fields DEF BuildNodes, SpineNodes, Definitions, FileNode, FolderNode, Spine
<1>3. CASE \E f \in Files :
             e = Edge(FolderNode(Parent[f]), FileNode(f), "CONTAINS_FILE")
  <2>1. PICK f \in Files :
             e = Edge(FolderNode(Parent[f]), FileNode(f), "CONTAINS_FILE")
    BY <1>3
  <2>2. f \in act
    BY <1>1, <2>1, Fields DEF FileNode
  <2> QED
    BY <2>1, <2>2 DEF SpineEdges
<1>4. CASE \E f \in Files : \E d \in Ancestors[f] :
             e = Edge(FolderNode(Parent[d]), FolderNode(d), "CONTAINS_FOLDER")
  <2>1. PICK f \in Files : \E d \in Ancestors[f] :
             e = Edge(FolderNode(Parent[d]), FolderNode(d), "CONTAINS_FOLDER")
    BY <1>4
  <2>2. PICK d \in Ancestors[f] :
             e = Edge(FolderNode(Parent[d]), FolderNode(d), "CONTAINS_FOLDER")
    BY <2>1
  <2>3. d # Root
    BY TreeAssumption
  <2>4. d \in UNION {Ancestors[g] : g \in act}
    BY <1>2, <2>2, <2>3, Fields DEF FolderNode
  <2> QED
    BY <2>2, <2>4 DEF SpineEdges
<1>5. CASE /\ e.tgt.label \notin Spine
           /\ e = Edge(FileNode(e.tgt.file), e.tgt, "DEFINES")
  <2>1. e.tgt.file \in act
    BY <1>1, <1>5, Fields DEF FileNode
  <2> QED
    BY <1>5, <2>1 DEF SpineEdges
<1> QED
  BY <1>3, <1>4, <1>5 DEF SpineEdge

\* An edge to a file that the import named when the edge was made is made again,
\* as long as no second file has that stem.
LEMMA FileImportRebuilt ==
    ASSUME NEW N, NEW act \in SUBSET Files, NEW R, NEW r \in R, NEW e,
           FileImport(Definitions(N), r, e), r.src.label \notin Spine,
           \A g, h \in Files : Stem[g] = r.name /\ Stem[h] = r.name => g = h,
           e.src \in BuildNodes(N, act), e.tgt \in BuildNodes(N, act)
    PROVE  e \in FileImports(BuildNodes(N, act), R)
<1> DEFINE built == BuildNodes(N, act)
           named(q) == {n \in built : n.label = "File" /\ Stem[n.file] = q.name}
<1>1. /\ IsImport(r) /\ ResolveImport(Definitions(N), r) = {}
      /\ e.tgt \in named(r) /\ e = Edge(r.src, e.tgt, r.type) /\ e.src = r.src
  BY Fields DEF FileImport
<1>2. ResolveImport(built, r) = {}
  BY <1>1, ImportDefinitions, BuildKeepsDefinitions
<1>3. \A n \in built : n.label = "File" => n.file \in Files /\ n = FileNode(n.file)
  BY Fields DEF BuildNodes, SpineNodes, Definitions, FileNode, FolderNode, Spine
<1>4. named(r) = {e.tgt}
  BY <1>1, <1>3
<1>5. Cardinality(named(r)) = 1
  BY <1>4, FS_Singleton
<1>6. e.tgt # r.src
  BY <1>1 DEF Spine
<1>7. FileImports(built, R)
        = UNION {{Edge(q.src, t, q.type) : t \in named(q) \ {q.src}} :
                   q \in {q \in R : /\ IsImport(q) /\ q.src \in built
                                   /\ ResolveImport(built, q) = {}
                                   /\ Cardinality(named(q)) = 1}}
  BY DEF FileImports
<1> HIDE DEF built, named
<1>8. r.src \in built
  BY <1>1 DEF built
<1>9. e \in {Edge(r.src, t, r.type) : t \in named(r) \ {r.src}}
  BY <1>1, <1>6
<1>10. e \in FileImports(built, R)
  BY <1>1, <1>2, <1>5, <1>7, <1>8, <1>9
<1> QED
  BY <1>10 DEF built

\* The end of a run: the edges are those of a full index of the same nodes and
\* raw edges, but for usages that it may miss.
LEMMA FinishEdges ==
    ASSUME UnambiguousImports, StoreInv, EdgeInv, Finish
    PROVE  /\ edges' = Linked
           /\ \A e \in edges' : e \in FullEdges(nodes', raws', active')
           /\ \A e \in FullEdges(nodes', raws', active') :
                e.type # "USAGE" => e \in edges'
<1> DEFINE built == BuildNodes(nodes, active)
           D == Definitions(nodes)
<1>1. /\ nodes' = built /\ raws' = raws /\ active' = active /\ pc = "extract"
      /\ Definitions(built) = D /\ Definitions(nodes') = D
      /\ \A n \in built : n.file \notin over
      /\ active \in SUBSET Files
  BY FinishRows, BuildKeepsDefinitions DEF Finish, StoreInv, Typed
<1>2. edges' = Linked
  <2>1. \A e \in Linked : e.src \in built /\ e.tgt \in built
    BY LinkedClosed DEF StoreInv
  <2>2. edges' = EdgesWithout(Linked, over)
    BY FinishGraph
  <2> HIDE DEF built
  <2> QED
    BY <1>1, <2>1, <2>2 DEF EdgesWithout
<1>3. BuildNodes(built, active) = built
  BY <1>1 DEF BuildNodes
<1>4. SpineEdges(built, active) = SpineEdges(nodes, active)
  <2>1. {n \in built : n.file \in active /\ n.label \notin Spine}
          = {n \in nodes : n.file \in active /\ n.label \notin Spine}
    <3> HIDE DEF built
    <3> QED
      BY <1>1 DEF Definitions
  <2> HIDE DEF built
  <2> QED
    BY <2>1 DEF SpineEdges
<1>5. FullEdges(built, raws, active)
        = Cascade(ResolveAll(D, raws), built) \cup SpineEdges(nodes, active)
            \cup FileImports(built, raws)
  <2> HIDE DEF built
  <2> QED
    BY <1>1, <1>3, <1>4 DEF FullEdges, BuildEdges
<1>6. Linked = Cascade(Resolved, built) \cup SpineEdges(nodes, active)
                 \cup FileImports(built, raws)
  BY DEF Linked, BuildEdges
<1>7. ASSUME NEW e \in Cascade(Resolved, built)
      PROVE  e \in FullEdges(built, raws, active)
  <2>1. e \in Resolved /\ e.src \in built /\ e.tgt \in built
    BY DEF Cascade
  <2>2. CASE SpineEdge(e)
    BY <1>1, <1>4, <1>5, <2>1, <2>2, SpineEdgeRebuilt
  <2>3. CASE e \in ResolveAll(D, raws)
    BY <1>5, <2>1, <2>3 DEF Cascade
  <2>4. CASE \E r \in raws : FileImport(D, r, e)
    <3>1. PICK r \in raws : FileImport(D, r, e)
      BY <2>4
    <3>2. \A g, h \in Files : Stem[g] = r.name /\ Stem[h] = r.name => g = h
      BY <3>1, RawsKnown DEF FileImport, UnambiguousImports
    <3>3. r.src.label \notin Spine
      BY RawsSourced DEF Sourced
    <3>4. e \in FileImports(built, raws)
      BY <1>1, <2>1, <3>1, <3>2, <3>3, FileImportRebuilt
    <3> QED
      BY <1>5, <3>4
  <2> QED
    BY <1>1, <2>1, <2>2, <2>3, <2>4, ResolvedExplained
<1>8. ASSUME NEW e \in ResolveAll(D, raws), e.type # "USAGE"
      PROVE  e \in Resolved
  BY <1>1, <1>8, ResolvedComplete
<1> HIDE DEF built, D
<1> QED
  BY <1>1, <1>2, <1>5, <1>6, <1>7, <1>8 DEF Cascade

\* After a run the edges are again those of the definitions and raw edges stored.
LEMMA FinishEdgeInv ==
    ASSUME UnambiguousImports, StoreInv, EdgeInv, Finish
    PROVE  Kept' /\ Explained' /\ Complete'
<1> DEFINE D == Definitions(nodes)
           built == BuildNodes(nodes, active)
<1>1. /\ raws' = raws /\ Definitions(nodes)' = D /\ pc' = "idle" /\ full' = FALSE
      /\ changed' = {} /\ nodes' = built /\ active' = active /\ pc = "extract"
      /\ Definitions(nodes') = D
  BY FinishRows, BuildKeepsDefinitions DEF Finish
<1>2. Base' = D
  BY <1>1 DEF Base
<1>3. Kept'
  BY <1>1, <1>2 DEF Kept
<1>4. \A e \in ResolveAll(D, raws) : e.src \in built /\ e.tgt \in built
  <2>1. D \subseteq built
    BY DEF BuildNodes
  <2> QED
    BY <2>1, ResolveAllBy, ByFields
<1>5. Complete'
  <2> SUFFICES ASSUME NEW e \in ResolveAll(D, raws), e.type # "USAGE"
               PROVE  e \in edges'
    BY <1>1, <1>2 DEF Complete
  <2>1. e \in Resolved
    BY <1>1, ResolvedComplete
  <2> QED
    BY <1>4, <2>1, FinishEdges DEF Linked, BuildEdges, Cascade
<1>6. Explained'
  <2> SUFFICES ASSUME NEW e \in edges'
               PROVE  \/ SpineEdge(e)
                      \/ e \in ResolveAll(D, raws)
                      \/ \E r \in raws : FileImport(D, r, e)
    BY <1>1, <1>2 DEF Explained
  <2>1. \/ e \in Resolved
        \/ e \in SpineEdges(nodes, active)
        \/ e \in FileImports(built, raws)
    BY FinishEdges DEF Linked, BuildEdges, Cascade
  <2>2. CASE e \in Resolved
    BY <1>1, <2>2, ResolvedExplained
  <2>3. CASE e \in SpineEdges(nodes, active)
    <3>1. active \subseteq Files
      BY DEF StoreInv, Typed
    <3> QED
      BY <2>3, <3>1, Fields DEF SpineEdges, SpineEdge
  <2>4. CASE e \in FileImports(built, raws)
    <3> DEFINE named(q) == {n \in built : n.label = "File" /\ Stem[n.file] = q.name}
    <3>1. PICK r \in raws :
               /\ IsImport(r) /\ ResolveImport(built, r) = {}
               /\ \E t \in named(r) : e = Edge(r.src, t, r.type)
      BY <2>4 DEF FileImports
    <3>2. ResolveImport(D, r) = {}
      BY <3>1, ImportDefinitions, BuildKeepsDefinitions
    <3> QED
      BY <3>1, <3>2, Fields DEF FileImport
  <2> QED
    BY <2>1, <2>2, <2>3, <2>4
<1> QED
  BY <1>3, <1>5, <1>6

\* Every step keeps the edges explained and, where no file changed, complete.
LEMMA EdgeStep ==
    ASSUME StableSize, UnambiguousImports
    PROVE  StoreInv /\ EdgeInv /\ [Next]_vars => EdgeInv'
<1> SUFFICES ASSUME StoreInv, EdgeInv, [Next]_vars PROVE EdgeInv'
  OBVIOUS
<1>1. StoreInv'
  BY StoreStep
<1>2. Closed'
  BY ClosedStep DEF StoreInv, EdgeInv
<1>3. ASSUME UNCHANGED <<nodes, edges, raws, pc, full, changed, before>>
      PROVE  Kept' /\ Explained' /\ Complete'
  <2>1. Base' = Base
    BY <1>3 DEF Base, Definitions
  <2>2. Kept'
    BY <1>3, <2>1 DEF EdgeInv, Kept, Definitions
  <2>3. Explained' /\ Complete'
    BY <1>3, <2>1 DEF EdgeInv, Explained, Complete
  <2> QED
    BY <2>2, <2>3
<1>4. ASSUME NEW f \in Files, NEW text \in Texts[f], Edit(f, text)
      PROVE  Kept' /\ Explained' /\ Complete'
  BY <1>3, <1>4 DEF Edit, graph, run
<1>5. ASSUME NEW f \in Files, ReadFails(f) \/ Rejected(f) \/ RecordSkip(f)
      PROVE  Kept' /\ Explained' /\ Complete'
  BY <1>3, <1>5 DEF ReadFails, Rejected, GivesUp, RecordSkip, graph
<1>6. CASE UNCHANGED vars
  BY <1>2, <1>3, <1>6 DEF vars, graph, run, EdgeInv
<1> QED
  BY <1>1, <1>2, <1>4, <1>5, <1>6, BeginFullEdges, BeginIncrementalEdges,
     ExtractEdges, FinishEdgeInv
  DEF Next, EdgeInv

\* What a run leaves behind, until the next one begins.
Exact ==
    pc = "idle" =>
        /\ \A e \in edges : e \in FullEdges(nodes, raws, active)
        /\ \A e \in FullEdges(nodes, raws, active) : e.type # "USAGE" => e \in edges
Built == Settled => nodes = BuildNodes(nodes, active)

\* Every step keeps the edges of a settled index exact and its spine built.
LEMMA ExactStep ==
    ASSUME StableSize, UnambiguousImports
    PROVE  StoreInv /\ EdgeInv /\ Exact /\ Built /\ [Next]_vars => Exact' /\ Built'
<1> SUFFICES ASSUME StoreInv, EdgeInv, Exact, Built, [Next]_vars
             PROVE  Exact' /\ Built'
  OBVIOUS
<1>1. ASSUME pc' # "idle" PROVE Exact' /\ Built'
  BY <1>1 DEF Exact, Built, Settled
<1>2. ASSUME UNCHANGED <<nodes, edges, raws, active, pc>>, clean' => clean
      PROVE  Exact' /\ Built'
  BY <1>2 DEF Exact, Built, Settled
<1>3. ASSUME NEW f \in Files, NEW text \in Texts[f], Edit(f, text)
      PROVE  Exact' /\ Built'
  BY <1>2, <1>3 DEF Edit, graph, run
<1>4. ASSUME NEW k \in Limits, BeginFull(k) \/ BeginIncremental(k)
      PROVE  Exact' /\ Built'
  BY <1>1, <1>4 DEF BeginFull, BeginIncremental, Begin
<1>5. ASSUME NEW f \in Files,
             Extract(f) \/ ReadFails(f) \/ Rejected(f) \/ RecordSkip(f)
      PROVE  Exact' /\ Built'
  BY <1>1, <1>5 DEF Extract, ReadFails, Rejected, GivesUp, RecordSkip
<1>6. CASE Finish
  <2>1. Exact'
    BY <1>6, FinishEdges DEF Exact
  <2>2. nodes' = BuildNodes(nodes, active) /\ active' = active
    BY <1>6, FinishRows DEF Finish
  <2>3. BuildNodes(nodes', active) = BuildNodes(nodes, active)
    BY <2>2, BuildKeepsDefinitions DEF BuildNodes
  <2> QED
    BY <2>1, <2>2, <2>3 DEF Built
<1>7. CASE UNCHANGED vars
  BY <1>2, <1>7 DEF vars, graph, run
<1> QED
  BY <1>3, <1>4, <1>5, <1>6, <1>7 DEF Next

\* The files that a run without edits leaves with a row are those a full index
\* extracts, each with the text that the indexer sees of it.
LEMMA SettledRows ==
    ASSUME StableSize, StoreInv, Settled, NEW f \in Supported
    PROVE  /\ row[f] # None <=> f \in FreshFiles(Seen, active)
           /\ row[f] # None => row[f] = Seen[f]
<1>1. /\ f \in Files /\ pc = "idle" /\ clean /\ todo = {}
      /\ failed[f] = None
  BY TextsAssumption DEF Settled, StoreInv, Visited
<1>2. Seen[f] = IF ~GivenUp(f) THEN disk[f]
                ELSE IF row[f] # None THEN row[f] ELSE NoText
  BY <1>1 DEF Seen
<1>3. f \in active /\ ~disk[f].big => row[f] = disk[f] \/ GivenUp(f)
  BY <1>1 DEF StoreInv, UpToDate
<1>4. f \in active => disk[f] # None
  BY <1>1 DEF StoreInv, UpToDate
<1>5. CASE row[f] # None
  <2>1. f \in active /\ ~row[f].big /\ row[f].ok /\ disk[f] # None
    BY <1>1, <1>4, <1>5 DEF StoreInv, Visited, Recorded
  <2>2. ~disk[f].big
    BY <1>1, <1>5, <2>1 DEF StoreInv, Recorded, StableSize
  <2>3. Seen[f] = row[f]
    BY <1>2, <1>3, <1>5, <2>1, <2>2
  <2> QED
    BY <1>5, <2>1, <2>3 DEF FreshFiles
<1>6. CASE row[f] = None
  <2>1. CASE GivenUp(f)
    <3>1. ~Seen[f].ok
      BY <1>2, <1>6, <2>1 DEF NoText
    <3> QED
      BY <1>6, <3>1 DEF FreshFiles
  <2>2. CASE ~GivenUp(f)
    <3>1. Seen[f] = disk[f]
      BY <1>2, <2>2
    <3> QED
      BY <1>3, <1>4, <1>6, <2>2, <3>1 DEF FreshFiles
  <2> QED
    BY <2>1, <2>2
<1> QED
  BY <1>5, <1>6

\* In a settled index, nodes and raw edges are those of a full one.
LEMMA SettledContent ==
    ASSUME StableSize, StoreInv, Built, Settled
    PROVE  nodes = FreshNodes(Seen, active) /\ raws = FreshRaws(Seen, active)
<1> DEFINE fresh == FreshFiles(Seen, active)
           X == UNION {{ModuleNode(f)} \cup Seen[f].defs : f \in fresh}
<1>1. fresh \subseteq Supported /\ fresh \subseteq Files
  BY TextsAssumption DEF FreshFiles
<1>2. \A f \in fresh : /\ row[f] # None /\ row[f] = Seen[f]
                       /\ Seen[f] \in Texts[f] \ {None}
  BY <1>1, SettledRows DEF StoreInv, Recorded
<1>3. \A f \in fresh :
        /\ {n \in Definitions(nodes) : n.file = f} = {ModuleNode(f)} \cup Seen[f].defs
        /\ {r \in raws : r.file = f} = Seen[f].raws
  BY <1>1, <1>2 DEF StoreInv, RowsTruthful
<1>4. /\ \A n \in Definitions(nodes) : n.file \in fresh
      /\ \A r \in raws : r.file \in fresh
  BY SettledRows DEF StoreInv, Owned
<1> HIDE DEF fresh
<1>5. Definitions(nodes) = X
  <2>1. ASSUME NEW n \in Definitions(nodes) PROVE n \in X
    <3>1. n \in {ModuleNode(n.file)} \cup Seen[n.file].defs
      BY <1>3, <1>4
    <3> QED
      BY <1>4, <3>1
  <2>2. ASSUME NEW n \in X PROVE n \in Definitions(nodes)
    <3>1. PICK f \in fresh : n \in {ModuleNode(f)} \cup Seen[f].defs
      OBVIOUS
    <3> QED
      BY <1>3, <3>1
  <2> HIDE DEF X
  <2> QED
    BY <2>1, <2>2
<1>6. raws = UNION {Seen[f].raws : f \in fresh}
  <2>1. ASSUME NEW r \in raws PROVE r \in UNION {Seen[f].raws : f \in fresh}
    <3>1. r \in Seen[r.file].raws
      BY <1>3, <1>4
    <3> QED
      BY <1>4, <3>1
  <2>2. ASSUME NEW r \in UNION {Seen[f].raws : f \in fresh} PROVE r \in raws
    <3>1. PICK f \in fresh : r \in Seen[f].raws
      OBVIOUS
    <3> QED
      BY <1>3, <3>1
  <2> QED
    BY <2>1, <2>2
<1>7. Definitions(X) = X
  BY <1>5 DEF Definitions
<1>8. nodes = X \cup SpineNodes(active)
  BY <1>5 DEF Built, BuildNodes
<1> QED
  BY <1>6, <1>7, <1>8 DEF FreshNodes, FreshRaws, BuildNodes, fresh

\* The invariants hold in every reachable state.
LEMMA IndexInvariant ==
    ASSUME StableSize, UnambiguousImports
    PROVE  Spec => [](StoreInv /\ EdgeInv /\ Exact /\ Built)
<1>1. Init => EdgeInv /\ Exact /\ Built
  <2> SUFFICES ASSUME Init PROVE EdgeInv /\ Exact /\ Built
    OBVIOUS
  <2>1. /\ nodes = {} /\ edges = {} /\ raws = {} /\ changed = {} /\ active = {}
        /\ pc = "idle" /\ clean = FALSE
    BY DEF Init
  <2>2. \A N : ResolveAll(N, raws) = {}
    BY <2>1, NoRawsNoEdges
  <2>3. EdgeInv
    BY <2>1, <2>2 DEF EdgeInv, Closed, Kept, Base, Explained, Complete
  <2>4. FullEdges(nodes, raws, active) = {}
    <3>1. SpineEdges(nodes, active) = {}
      BY <2>1 DEF SpineEdges
    <3>2. FileImports(nodes, raws) = {}
      BY <2>1 DEF FileImports
    <3>3. Cascade(ResolveAll(Definitions(nodes), raws), BuildNodes(nodes, active)) = {}
      BY <2>2 DEF Cascade
    <3> QED
      BY <3>1, <3>2, <3>3 DEF FullEdges, BuildEdges
  <2> QED
    BY <2>1, <2>3, <2>4 DEF Exact, Built, Settled
<1> QED
  BY <1>1, EdgeStep, ExactStep, StoreInvariant, PTL DEF Spec

\* The central promise of the incremental path.  In a workspace where no file
\* crosses the size cap and no import names two files, a run during which nobody
\* edits a file leaves the nodes, the raw edges and all edges but the usages of a
\* full index of the workspace, after any sequence of edits, runs, failed reads,
\* rejected texts and file limits, for any languages and files.  A file whose skip
\* row still matches counts with the last text the indexer accepted of it.
THEOREM IncrementalMatchesFull ==
    ASSUME StableSize, UnambiguousImports PROVE Spec => []GraphMatchesFull
<1>1. StoreInv /\ EdgeInv /\ Exact /\ Built => GraphMatchesFull
  <2> SUFFICES ASSUME StoreInv, Exact, Built, Settled
               PROVE  /\ nodes = FreshNodes(Seen, active)
                      /\ raws = FreshRaws(Seen, active)
                      /\ {e \in edges : e.type # "USAGE"}
                           = {e \in FreshEdges(Seen, active) : e.type # "USAGE"}
    BY DEF GraphMatchesFull
  <2>1. nodes = FreshNodes(Seen, active) /\ raws = FreshRaws(Seen, active)
    BY SettledContent
  <2>2. FreshEdges(Seen, active) = FullEdges(nodes, raws, active)
    BY <2>1 DEF FreshEdges, FullEdges
  <2> QED
    BY <2>1, <2>2 DEF Exact, Settled
<1> QED
  BY <1>1, IndexInvariant, PTL

\* What the incremental path may lose it never replaces by something else: a
\* usage edge in the store is one that a full index would have.
THEOREM UsagesAreSound ==
    ASSUME StableSize, UnambiguousImports PROVE Spec => []UsageSound
<1>1. StoreInv /\ EdgeInv /\ Exact /\ Built => UsageSound
  <2> SUFFICES ASSUME StoreInv, Exact, Built, Settled
               PROVE  OfType(edges, {"USAGE"}) \subseteq FreshEdges(Seen, active)
    BY DEF UsageSound
  <2>1. nodes = FreshNodes(Seen, active) /\ raws = FreshRaws(Seen, active)
    BY SettledContent
  <2>2. FreshEdges(Seen, active) = FullEdges(nodes, raws, active)
    BY <2>1 DEF FreshEdges, FullEdges
  <2> QED
    BY <2>2 DEF Exact, Settled, OfType
<1> QED
  BY <1>1, IndexInvariant, PTL
=============================================================================

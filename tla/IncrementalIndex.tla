-------------------------- MODULE IncrementalIndex --------------------------
(***************************************************************************)
(* The indexer's two ways of building the code graph: the full index of an *)
(* empty store and the incremental one, which re-extracts the files that   *)
(* changed and re-resolves only the edges their change can have touched    *)
(* (crates/indexer/src/lib.rs, structural.rs; crates/freshness/src/        *)
(* incremental.rs).  Files are edited at any time, during a run too.       *)
(*                                                                         *)
(* A file's text is what the indexer gets out of it: definitions, raw      *)
(* (unresolved) edges, whether it exceeds the size cap, whether it is ok   *)
(* (it parses and the provider's output is valid), and a body that only    *)
(* its hash sees.  A row id is the node record: deleting a file's nodes    *)
(* cascades to every edge with an endpoint among them.                     *)
(***************************************************************************)
EXTENDS Naturals, Sequences, FiniteSets, Functions

CONSTANTS
    Files,      \* the paths the workspace may hold
    Walk,       \* the order in which discovery lists them
    Texts,      \* Texts[f]: what f may contain
    Supported,  \* the files whose language has a provider
    Fragile,    \* the files whose read may fail
    Stem,       \* Stem[f]: the file's basename without its extension
    Parent,     \* Parent[x]: the directory of a file or directory, or Root
    Ancestors,  \* Ancestors[f]: every directory above f
    Root,       \* the Project node's place
    Limits,     \* the GREPPY_MAX_FILES values a run may be given
    None        \* no file, no row, no owner, no path segment

VARIABLES
    disk,       \* the workspace: a text, or None
    row,        \* file_state.sha256: the text hashed last, or None
    rowStat,    \* the stat identity stored with it is still the file's
    skip,       \* index_skips.reason, or None
    skipStat,   \* the stat identity stored with it is still the file's
    nodes,      \* nodes
    edges,      \* edges: resolved
    raws,       \* raw_edges: as extracted
    pc,         \* idle, extract
    full,       \* the run is a full one
    active,     \* the entries the run indexes
    over,       \* the entries the file limit leaves out of it
    todo,       \* the files still to be read, parsed and written
    failed,     \* why extract_one gave up on a file, until that is recorded
    changed,    \* changed_files
    before,     \* def_fp_before
    clean       \* no file was edited since the last run began

rows == <<row, rowStat, skip, skipStat>>
graph == <<nodes, edges, raws>>
run == <<pc, full, active, over, todo, failed, changed, before>>
vars == <<disk, rows, graph, run, clean>>

Spine == {"Project", "Folder", "File"}
Callable == {"Function", "Method"}
Constructable == {"Class", "Struct", "Type", "Enum"}
Types == Constructable \cup {"Interface", "Trait", "TypeAlias"}
Usable == Callable \cup Types \cup {"Variable", "Field"}
Importable == Types \cup {"Function"}

Node(f, label, owner, name) ==
    [file |-> f, label |-> label, owner |-> owner, name |-> name]
Edge(s, t, type) == [src |-> s, tgt |-> t, type |-> type]

(* Every path has one File node: two files of a directory that differ only *)
(* in their extension would share a qualified name.                        *)
ASSUME OneFileNodePerPath ==
    /\ Range(Walk) = Files
    /\ \A f, g \in Files :
        f # g => <<Parent[f], Stem[f]>> # <<Parent[g], Stem[g]>>

(* What extraction gives out of a file belongs to that file, and none of   *)
(* it is a node of the structural spine.                                   *)
ASSUME TextsAssumption ==
    /\ Supported \subseteq Files
    /\ \A f \in Files : \A t \in Texts[f] \ {None} :
        /\ \A n \in t.defs : n.file = f /\ n.label \notin Spine
        /\ \A r \in t.raws : /\ r.file = f /\ r.src.file = f
                             /\ r.src.label \notin Spine

ASSUME NoneIsNoReason == None \notin {"unreadable", "parse_failed"}

(* The directories are a tree under the root, and none of them is a file.  *)
ASSUME TreeAssumption ==
    /\ Root \notin Files
    /\ \A f \in Files :
        /\ Parent[f] \in Ancestors[f] \cup {Root}
        /\ \A d \in Ancestors[f] : /\ d \notin Files \cup {Root}
                                   /\ Parent[d] \in Ancestors[f] \cup {Root}

ModuleNode(f) == Node(f, "Module", None, Stem[f])
FileNode(f) == Node(f, "File", None, f)
FolderNode(d) == IF d = Root THEN Node(Root, "Project", None, Root)
                             ELSE Node(d, "Folder", None, d)

Present(d) == {f \in Files : d[f] # None}
Prefix(d, k) ==
    {f \in Present(d) :
        \E i \in DOMAIN Walk :
            /\ Walk[i] = f
            /\ Cardinality({j \in 1..(i - 1) : Walk[j] \in Present(d)}) < k}

-----------------------------------------------------------------------------
(* The resolver.  N is the node table (GraphIndex), imp what the referring *)
(* file imports.  A result is a singleton, or empty for "do not guess".    *)

DefsNamed(N, labels, name) ==
    {n \in N : n.name = name /\ n.label \in labels}

ResolveUnique(N, imp, labels, name, file) ==
    LET found == DefsNamed(N, labels, name)
        local == {n \in found : n.file = file}
        imported == found \cap imp
    IN CASE Cardinality(local) = 1 -> local
         [] Cardinality(local) # 1 /\ Cardinality(found) = 1 -> found
         [] OTHER ->
              IF Cardinality(imported) = 1 THEN imported
              ELSE IF found # {} /\ \A m, n \in found : m.file = n.file
                   THEN {CHOOSE n \in found : TRUE}  \* twins: the first qname
                   ELSE {}

ResolveReceiver(N, file, owner, name) ==
    LET local == Node(file, "Method", owner, name)
        found == {n \in N : n.label = "Method" /\ n.owner = owner
                                              /\ n.name = name}
    IN IF local \in N THEN {local}
       ELSE IF Cardinality(found) = 1 THEN found ELSE {}

ResolveCall(N, imp, r) ==
    LET guess == Node(r.file, "Function", None, r.name)
    IN CASE r.owner # None -> ResolveReceiver(N, r.file, r.owner, r.name)
         [] r.owner = None /\ guess \in N -> {guess}
         [] OTHER ->
              IF DefsNamed(N, Callable, r.name) # {}
              THEN ResolveUnique(N, imp, Callable, r.name, r.file)
              ELSE ResolveUnique(N, imp, Constructable, r.name, r.file)

ResolveType(N, imp, r) ==
    LET guess == Node(r.file, "Class", None, r.name)
    IN IF guess \in N THEN {guess}
       ELSE ResolveUnique(N, imp, Types, r.name, r.file)

ResolveReference(N, imp, r) ==
    CASE r.type = "CALLS" -> ResolveCall(N, imp, r)
      [] r.type = "TYPE_REF" -> ResolveType(N, imp, r)
      [] r.type = "USES" ->
           ResolveUnique(N, imp, Callable \cup Types, r.name, r.file)
      [] r.type = "USAGE" -> ResolveUnique(N, imp, Usable, r.name, r.file)
      [] OTHER -> {Node(r.file, "Method", r.owner, r.name)} \cap N

ResolveImport(N, r) ==
    LET found == DefsNamed(N, Importable, r.name)
        matched == {n \in found : r.seg # None /\ Stem[n.file] = r.seg}
    IN IF Cardinality(found) = 1 THEN found
       ELSE IF Cardinality(matched) = 1 THEN matched ELSE {}

IsImport(r) == r.type = "IMPORTS"
PersistLabel(type) ==
    IF type \in {"TYPE_REF", "USES", "USAGE"} THEN "USAGE" ELSE type

ImportEdges(N, R) ==
    UNION {{Edge(r.src, t, r.type) : t \in ResolveImport(N, r) \ {r.src}} :
            r \in {r \in R : IsImport(r) /\ r.src \in N}}

ReferenceEdges(N, R, I) ==
    LET imp(f) == {e.tgt : e \in {e \in I : e.src.file = f}}
    IN UNION {{Edge(r.src, t, PersistLabel(r.type)) :
                 t \in {t \in ResolveReference(N, imp(r.file), r) :
                           t # r.src \/ r.type = "CALLS"}} :
               r \in {r \in R : ~IsImport(r) /\ r.src \in N}}

(* PHASE B of a full run: every raw edge, imports first.                   *)
ResolveAll(N, R) ==
    LET I == ImportEdges(N, R) IN I \cup ReferenceEdges(N, R, I)

ReferencesName(r, names) ==
    r.type \in {"CALLS", "TYPE_REF", "USES", "IMPORTS"} /\ r.name \in names

(* PHASE B after a body edit: the edges owned by a changed file and those  *)
(* that name a definition of one; the imports of the files that own such   *)
(* an edge are resolved again only to disambiguate it.                     *)
ResolveCandidates(N, R, C) ==
    LET names == {n.name : n \in {n \in N : n.file \in C}}
        cand == {r \in R : r.file \in C \/ ReferencesName(r, names)}
        owners == {r.file : r \in {r \in cand : ~IsImport(r)}}
        I == ImportEdges(N, {r \in R : r \in cand \/ r.src.file \in owners})
    IN ImportEdges(N, cand) \cup ReferenceEdges(N, cand, I)

Definitions(N) == {n \in N : n.label \notin Spine}

DefFingerprint(N) == Definitions(N)

ResolveIncrementalInsertOnly(N, E, R, C, fp) ==
    CASE C = {} -> E
      [] C # {} /\ DefFingerprint(N) # fp -> E \cup ResolveAll(N, R)
      [] OTHER -> E \cup ResolveCandidates(N, R, C)

ResolveIncremental(N, E, R, C, fp) ==
    CASE C = {} -> E
      [] C # {} /\ DefFingerprint(N) # fp -> ResolveAll(N, R)
      [] OTHER -> E \cup ResolveCandidates(N, R, C)

-----------------------------------------------------------------------------
(* The structural spine, and the imports that name a file.                 *)

SpineNodes(act) ==
    {FolderNode(Root)} \cup {FileNode(f) : f \in act}
        \cup {FolderNode(d) : d \in UNION {Ancestors[f] : f \in act}}

SpineEdges(N, act) ==
    {Edge(FolderNode(Parent[f]), FileNode(f), "CONTAINS_FILE") : f \in act}
    \cup {Edge(FolderNode(Parent[d]), FolderNode(d), "CONTAINS_FOLDER") :
            d \in UNION {Ancestors[f] : f \in act}}
    \cup {Edge(FileNode(n.file), n, "DEFINES") :
            n \in {n \in N : n.file \in act /\ n.label \notin Spine}}

BuildNodesNoCleanup(N, act) == N \cup SpineNodes(act)
BuildNodes(N, act) == Definitions(N) \cup SpineNodes(act)
Cascade(E, N) == {e \in E : e.src \in N /\ e.tgt \in N}
BuildEdges(N, E, act) ==
    Cascade(E, BuildNodes(N, act)) \cup SpineEdges(N, act)

FileImports(N, R) ==
    LET named(r) == {n \in N : n.label = "File" /\ Stem[n.file] = r.name}
    IN UNION {{Edge(r.src, t, r.type) : t \in named(r) \ {r.src}} :
               r \in {r \in R : /\ IsImport(r) /\ r.src \in N
                               /\ ResolveImport(N, r) = {}
                               /\ Cardinality(named(r)) = 1}}

-----------------------------------------------------------------------------
(* The file diff: what the store recorded against what is on disk.         *)

Indexed(f) == row[f] # None
Big(f) == disk[f].big

SkipMatches(f) ==
    /\ skipStat[f]
    /\ skip[f] \notin {None, "file_limit"}
    /\ IF skip[f] = "oversize" THEN Big(f) ELSE ~Big(f)

Unchanged(f) ==
    \/ ~Indexed(f) /\ SkipMatches(f)
    \/ Indexed(f) /\ rowStat[f]
    \/ Indexed(f) /\ ~Big(f) /\ row[f] = disk[f]

Deleted(act) == {f \in Files \ act : Indexed(f) \/ skip[f] # None}
Drifted(act) == {f \in act : ~Unchanged(f)}

(* What remains of the graph without the nodes of the files of S.          *)
NodesWithout(N, S) == {n \in N : n.file \notin S}
EdgesWithoutSources(E, S) == {e \in E : e.src.file \notin S}
EdgesWithout(E, S) == {e \in E : e.src.file \notin S /\ e.tgt.file \notin S}
RawsWithout(R, S) == {r \in R : r.file \notin S}

-----------------------------------------------------------------------------
Init ==
    /\ disk \in {d \in [Files -> UNION {Texts[f] : f \in Files}] :
                   \A f \in Files : d[f] \in Texts[f]}
    /\ row = [f \in Files |-> None] /\ rowStat = [f \in Files |-> FALSE]
    /\ skip = [f \in Files |-> None] /\ skipStat = [f \in Files |-> FALSE]
    /\ nodes = {} /\ edges = {} /\ raws = {}
    /\ pc = "idle" /\ full = FALSE /\ active = {} /\ over = {} /\ todo = {}
    /\ failed = [f \in Files |-> None]
    /\ changed = {} /\ before = {} /\ clean = FALSE

(* An editor, a checkout or a build writes, replaces, touches or removes a *)
(* file: whatever stat identity was recorded for it no longer holds.       *)
Edit(f, text) ==
    /\ disk[f] # None \/ text # None
    /\ disk' = [disk EXCEPT ![f] = text]
    /\ rowStat' = [rowStat EXCEPT ![f] = FALSE]
    /\ skipStat' = [skipStat EXCEPT ![f] = FALSE]
    /\ clean' = FALSE
    /\ UNCHANGED <<row, skip, graph, run>>

(* The bookkeeping of the files that are not extracted: D was deleted, U   *)
(* has no provider, O exceeds the cap (its file_state row is left alone).  *)
Disposition(D, U, O) ==
    /\ row' = [f \in Files |-> IF f \in D THEN None
                             ELSE IF f \in U THEN disk[f] ELSE row[f]]
    /\ rowStat' = [f \in Files |-> f \in U \/ (f \notin D /\ rowStat[f])]
    /\ skip' = [f \in Files |-> IF f \in D THEN None
                              ELSE IF f \in U THEN "unsupported_language"
                              ELSE IF f \in O THEN "oversize" ELSE skip[f]]
    /\ skipStat' = [f \in Files |-> f \in U \cup O
                                   \/ (f \notin D /\ skipStat[f])]

Begin(k) ==
    /\ pc = "idle"
    /\ pc' = "extract" /\ clean' = TRUE
    /\ active' = Prefix(disk, k) /\ over' = Present(disk) \ Prefix(disk, k)
    /\ before' = DefFingerprint(nodes)
    /\ UNCHANGED <<disk, failed>>

(* No file_state row: every entry is read.                                 *)
BeginFull(k) ==
    LET act == Prefix(disk, k)
        U == act \ Supported
        O == {f \in act \cap Supported : Big(f)}
    IN /\ Begin(k)
       /\ \A f \in Files : ~Indexed(f)
       /\ Disposition({}, U, O)
       /\ full' = TRUE /\ todo' = act \ (U \cup O) /\ changed' = {}
       /\ UNCHANGED graph

(* A prior run left file_state rows: only what the diff reports is touched.*)
BeginIncremental(k) ==
    LET act == Prefix(disk, k)
        D == Deleted(act)
        M == Drifted(act)
        U == M \ Supported
        O == {f \in M \cap Supported : Big(f)}
        gone == D \cup U \cup O
    IN /\ Begin(k)
       /\ \E f \in Files : Indexed(f)
       /\ Disposition(D, U, O)
       /\ nodes' = NodesWithout(nodes, gone)
       /\ edges' = EdgesWithout(edges, gone)
       /\ raws' = RawsWithout(raws, gone)
       /\ full' = FALSE /\ todo' = M \ (U \cup O) /\ changed' = D \cup M

ExtractKeepsRaws(f) ==
    /\ pc = "extract" /\ f \in todo
    /\ disk[f] # None /\ disk[f].ok
    /\ nodes' = NodesWithout(nodes, {f}) \cup {ModuleNode(f)} \cup disk[f].defs
    /\ edges' = EdgesWithout(edges, {f})
    /\ raws' = raws \cup disk[f].raws
    /\ row' = [row EXCEPT ![f] = disk[f]]
    /\ rowStat' = [rowStat EXCEPT ![f] = TRUE]
    /\ skip' = [skip EXCEPT ![f] = None]
    /\ skipStat' = [skipStat EXCEPT ![f] = FALSE]
    /\ todo' = todo \ {f}
    /\ UNCHANGED <<disk, pc, full, active, over, failed, changed, before, clean>>

(* A file is read, parsed and written: its old nodes are replaced.  The    *)
(* write comes later than the read, but all it stores, the stat identity   *)
(* included, was taken with the text (read_stable_file).                   *)
Extract(f) ==
    /\ pc = "extract" /\ f \in todo
    /\ disk[f] # None /\ disk[f].ok
    /\ nodes' = NodesWithout(nodes, {f}) \cup {ModuleNode(f)} \cup disk[f].defs
    /\ edges' = EdgesWithout(edges, {f})
    /\ raws' = RawsWithout(raws, {f}) \cup disk[f].raws
    /\ row' = [row EXCEPT ![f] = disk[f]]
    /\ rowStat' = [rowStat EXCEPT ![f] = TRUE]
    /\ skip' = [skip EXCEPT ![f] = None]
    /\ skipStat' = [skipStat EXCEPT ![f] = FALSE]
    /\ todo' = todo \ {f}
    /\ UNCHANGED <<disk, pc, full, active, over, failed, changed, before, clean>>

(* The parallel phase gives up on a file: what an earlier text of it left  *)
(* in the store stays there.  It vanished, changed in all three attempts   *)
(* of read_stable_file, or may not be opened ...                           *)
GivesUp(f, reason) ==
    /\ pc = "extract" /\ f \in todo
    /\ failed' = [failed EXCEPT ![f] = reason]
    /\ todo' = todo \ {f}
    /\ UNCHANGED <<disk, rows, graph, pc, full, active, over, changed, before, clean>>

ReadFails(f) == f \in Fragile /\ GivesUp(f, "unreadable")

(* ... or its text does not parse or gives an invalid output.              *)
Rejected(f) == disk[f] # None /\ ~disk[f].ok /\ GivesUp(f, "parse_failed")

(* The serial phase, later, records the skip under the stat identity of    *)
(* whatever is at the path by then.                                        *)
RecordSkip(f) ==
    /\ pc = "extract" /\ todo = {} /\ failed[f] # None
    /\ skip' = [skip EXCEPT ![f] = failed[f]]
    /\ skipStat' = [skipStat EXCEPT ![f] = disk[f] # None]
    /\ failed' = [failed EXCEPT ![f] = None]
    /\ UNCHANGED <<disk, row, rowStat, graph, pc, full, active, over, todo, changed,
                   before, clean>>

(* PHASE B, the spine, the imports of files, and the files left out by the *)
(* limit.                                                                  *)
Finish ==
    LET resolved == IF full THEN edges \cup ResolveAll(nodes, raws)
                    ELSE ResolveIncremental(nodes, edges, raws, changed, before)
        built == BuildNodes(nodes, active)
        linked == BuildEdges(nodes, resolved, active)
                    \cup FileImports(built, raws)
    IN /\ pc = "extract" /\ todo = {} /\ \A f \in Files : failed[f] = None
       /\ nodes' = NodesWithout(built, over)
       /\ edges' = EdgesWithout(linked, over)
       /\ raws' = RawsWithout(raws, over)
       /\ row' = [f \in Files |-> IF f \in over THEN None ELSE row[f]]
       /\ skip' = [f \in Files |-> IF f \in over THEN "file_limit" ELSE skip[f]]
       /\ skipStat' = [f \in Files |-> f \in over \/ skipStat[f]]
       /\ pc' = "idle"
       /\ full' = FALSE /\ changed' = {} /\ before' = {}  \* the run's locals
       /\ UNCHANGED <<disk, rowStat, active, over, todo, failed, clean>>

Next ==
    \/ \E f \in Files : \E text \in Texts[f] : Edit(f, text)
    \/ \E k \in Limits : BeginFull(k) \/ BeginIncremental(k)
    \/ \E f \in Files : Extract(f) \/ ReadFails(f) \/ Rejected(f) \/ RecordSkip(f)
    \/ Finish

Spec == Init /\ [][Next]_vars

-----------------------------------------------------------------------------
(* What a full index of a workspace gives, from an empty store.            *)
FreshFiles(d, act) == {f \in act \cap Supported : ~d[f].big /\ d[f].ok}
FreshRaws(d, act) == UNION {d[f].raws : f \in FreshFiles(d, act)}
FreshNodes(d, act) ==
    BuildNodes(UNION {{ModuleNode(f)} \cup d[f].defs : f \in FreshFiles(d, act)},
               act)
FreshEdges(d, act) ==
    LET N == FreshNodes(d, act)
        R == FreshRaws(d, act)
    IN BuildEdges(N, ResolveAll(Definitions(N), R), act) \cup FileImports(N, R)

(* The indexer gave up on the file as it now is, and recorded that.        *)
GivenUp(f) == /\ disk[f] # None /\ skipStat[f]
              /\ skip[f] \in {"unreadable", "parse_failed"}

(* The workspace as the indexer could see it: of a file it gave up on, the *)
(* last text that it accepted, and no usable text if there was none.       *)
NoText == [big |-> FALSE, ok |-> FALSE]
Seen == [f \in Files |-> IF ~GivenUp(f) THEN disk[f]
                         ELSE IF row[f] # None THEN row[f] ELSE NoText]
OfType(E, types) == {e \in E : e.type \in types}
Settled == pc = "idle" /\ clean

TypeOK ==
    /\ disk \in [Files -> UNION {Texts[f] : f \in Files}]
    /\ row \in [Files -> (UNION {Texts[f] : f \in Files}) \cup {None}]
    /\ rowStat \in [Files -> BOOLEAN] /\ skipStat \in [Files -> BOOLEAN]
    /\ skip \in [Files -> {None, "oversize", "unreadable", "parse_failed",
                            "file_limit", "unsupported_language"}]
    /\ failed \in [Files -> {None, "unreadable", "parse_failed"}]
    /\ pc \in {"idle", "extract"} /\ full \in BOOLEAN /\ clean \in BOOLEAN
    /\ active \cup over \cup todo \cup changed \subseteq Files
    /\ \A e \in edges : {e.src, e.tgt} \subseteq nodes

(* When a run during which nobody edited a file ends, the node table and   *)
(* the raw edges are those of a full index of the workspace, whatever      *)
(* edits, runs and races came before                                       *)
(* (incremental_matches_full_reindex_across_a_sequence_of_edits), and so   *)
(* are the calls, the imports and the structural edges, though the         *)
(* incremental path resolved only some of them again.  A file that a skip  *)
(* row gives up on counts with its last accepted text, also when it was    *)
(* repaired after that text was rejected and before the skip was recorded  *)
(* with the identity of the repaired file, which the diff then accepts.    *)
(* It is meant for workspaces where no file crosses the size cap, because  *)
(* such a file keeps the row of its old text without its nodes, and no     *)
(* import names the stem of two files.                                     *)
GraphMatchesFull ==
    LET rest(E) == {e \in E : e.type # "USAGE"}
    IN Settled => /\ nodes = FreshNodes(Seen, active)
                  /\ raws = FreshRaws(Seen, active)
                  /\ rest(edges) = rest(FreshEdges(Seen, active))

(* ... and a usage edge in the store is one a full index would have.       *)
UsageSound ==
    Settled => OfType(edges, {"USAGE"}) \subseteq FreshEdges(Seen, active)

(* The nodes and the raw edges kept for a file are the ones of the text    *)
(* whose hash its file_state row records, in every state of a run: this is *)
(* what lets the next run trust an unchanged hash and skip the file.       *)
RowsTruthful ==
    \A f \in Supported : row[f] # None =>
        /\ {n \in Definitions(nodes) : n.file = f}
             = {ModuleNode(f)} \cup row[f].defs
        /\ {r \in raws : r.file = f} = row[f].raws

(* The usage edges too are those of a full index: "byte-for-byte identical *)
(* to a full reindex" (index_with_options), edge_references_name being "a  *)
(* precise superset" of what could resolve into a changed file.            *)
UsageMatchesFull ==
    Settled => OfType(edges, {"USAGE"}) = OfType(FreshEdges(Seen, active), {"USAGE"})
=============================================================================

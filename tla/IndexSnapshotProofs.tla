------------------------ MODULE IndexSnapshotProofs ------------------------
(***************************************************************************)
(* Proofs about IndexSnapshot for any number of processes, files and index *)
(* files, and any bounds.                                                  *)
(***************************************************************************)
EXTENDS IndexSnapshot, TLAPS

WorkTypes ==
    /\ pc \in [Procs -> Labels]
    /\ kind \in [Procs -> Kinds]
    /\ temp \in [Procs -> Inodes \cup {None}]
    /\ handle \in [Procs -> Inodes \cup {None}]
    /\ todo \in [Procs -> SUBSET Files]
    /\ drift \in [Procs -> BOOLEAN]
    /\ attempt \in [Procs -> 1..2]
    /\ answer \in [Procs -> Answers]

\* What a process that returns leaves behind is well typed.
LEMMA FinishTypes ==
  ASSUME TypeOK, NEW p \in Procs, NEW a \in Answers, Finish(p, a)
  PROVE  WorkTypes'
<1>1. drift' \in [Procs -> BOOLEAN]
  BY Zenon DEF Finish, TypeOK
<1>2. todo' \in [Procs -> SUBSET Files]
  BY DEF Finish, TypeOK
<1> QED
  BY <1>1, <1>2 DEF TypeOK, WorkTypes, Finish, Goto, Labels, Kinds

\* The same for a run that gives up, which also drops the writer lock.
LEMMA GiveUpTypes ==
  ASSUME TypeOK, NEW p \in Procs, GiveUp(p)
  PROVE  WorkTypes' /\ writer' = None
<1>1. PICK a \in Answers : Finish(p, a)
  BY DEF GiveUp, Answers
<1> QED
  BY <1>1, FinishTypes DEF GiveUp

\* Every step keeps the types of the state of the index store.
LEMMA TypeStep == TypeOK /\ [Next]_vars => TypeOK'
<1> SUFFICES ASSUME TypeOK, [Next]_vars PROVE TypeOK'
  OBVIOUS
<1> USE SnapshotAssumption
<1> USE DEF Labels, Kinds, Answers
<1>1. ASSUME NEW f \in Files, Edit(f) PROVE TypeOK'
  BY <1>1 DEF TypeOK, Edit, files, work, Workspace
<1>2. ASSUME NEW f \in Files, Revert(f) PROVE TypeOK'
  BY <1>2 DEF TypeOK, Revert, Fault, files, work, Workspace
<1>3. ASSUME Corrupt PROVE TypeOK'
  <2>1. active \in Inodes /\ disk[active] \in IndexFile
    BY <1>3 DEF Corrupt, TypeOK
  <2>2. [disk[active] EXCEPT !.sane = FALSE] \in IndexFile
    BY <2>1 DEF IndexFile
  <2>3. disk' = [disk EXCEPT ![active] = [disk[active] EXCEPT !.sane = FALSE]]
    BY <1>3, <2>1 DEF Corrupt, TypeOK
  <2>4. disk' \in [Inodes -> IndexFile]
    BY <2>1, <2>2, <2>3 DEF TypeOK
  <2> QED
    BY <1>3, <2>4 DEF TypeOK, Corrupt, Fault, work
<1>4. ASSUME NEW p \in Procs, StartIndex(p) PROVE TypeOK'
  BY <1>4 DEF TypeOK, StartIndex, Goto, files
<1>5. ASSUME NEW p \in Procs, StartQuery(p) PROVE TypeOK'
  BY <1>5 DEF TypeOK, StartQuery, Goto, files
<1>6. ASSUME NEW p \in Procs, Lock(p) PROVE TypeOK'
  <2>1. CASE writer = None
    BY <1>6, <2>1 DEF TypeOK, Lock, Goto, files
  <2>2. CASE writer # None
    <3>1. PICK a \in Answers : Finish(p, a)
      BY <1>6, <2>2 DEF Lock
    <3> QED
      BY <1>6, <2>2, <3>1, FinishTypes DEF TypeOK, WorkTypes, Lock, files
  <2> QED
    BY <2>1, <2>2
<1>7. ASSUME NEW p \in Procs, Gate(p) PROVE TypeOK'
  <2>1. CASE GiveUp(p)
    BY <1>7, <2>1, GiveUpTypes DEF TypeOK, WorkTypes, Gate, files
  <2>2. CASE ~GiveUp(p)
    BY <1>7, <2>2 DEF TypeOK, Gate, Goto, files
  <2> QED
    BY <2>1, <2>2
<1>8. ASSUME NEW p \in Procs, Clean(p) PROVE TypeOK'
  BY <1>8 DEF TypeOK, Clean, Goto
<1>9. ASSUME NEW p \in Procs, Seed(p) PROVE TypeOK'
  <2> PICK n \in Free : /\ disk' = [disk EXCEPT ![n] =
                                     [IF Usable THEN disk[active] ELSE NoIndex
                                      EXCEPT !.gen = @ + 1]]
                        /\ temp' = [temp EXCEPT ![p] = n]
                        /\ temps' = temps \cup {n}
    BY <1>9 DEF Seed
  <2>1. n \in Inodes
    BY DEF Free
  <2>2. (IF Usable THEN disk[active] ELSE NoIndex) \in IndexFile
    BY DEF Usable, NoIndex, IndexFile, Workspace, TypeOK
  <2>3. disk' \in [Inodes -> IndexFile]
    BY <2>1, <2>2 DEF IndexFile, TypeOK
  <2> QED
    BY <1>9, <2>1, <2>3 DEF TypeOK, Seed, BeginLoop, Goto
<1>10. ASSUME NEW p \in Procs, BeginVerify(p) PROVE TypeOK'
  BY <1>10 DEF TypeOK, BeginVerify, BeginLoop, Goto, files
<1>11. ASSUME NEW p \in Procs, Verified(p) PROVE TypeOK'
  <2>1. CASE GiveUp(p)
    BY <1>11, <2>1, GiveUpTypes DEF TypeOK, WorkTypes, Verified, Fault
  <2>2. CASE ~GiveUp(p)
    BY <1>11, <2>2 DEF TypeOK, Verified, Goto, Fault
  <2> QED
    BY <2>1, <2>2
<1>12. ASSUME NEW p \in Procs, Prepare(p) PROVE TypeOK'
  BY <1>12 DEF TypeOK, Prepare, Goto
<1>13. ASSUME NEW p \in Procs, Publish(p) PROVE TypeOK'
  BY <1>13 DEF TypeOK, Publish, Goto
<1>14. ASSUME NEW p \in Procs, Sweep(p) PROVE TypeOK'
  <2>1. CASE \E a \in Answers : Finish(p, a)
    BY <1>14, <2>1, FinishTypes DEF TypeOK, WorkTypes, Sweep
  <2>2. CASE ~\E a \in Answers : Finish(p, a)
    BY <1>14, <2>2 DEF TypeOK, Sweep, Goto
  <2> QED
    BY <2>1, <2>2
<1>15. ASSUME NEW p \in Procs, Open(p) PROVE TypeOK'
  <2>1. CASE Finish(p, "error") /\ UNCHANGED begun
    BY <1>15, <2>1, FinishTypes DEF TypeOK, WorkTypes, Open, files
  <2>2. CASE ~(Finish(p, "error") /\ UNCHANGED begun)
    <3>1. /\ active \in Inodes
          /\ handle' = [handle EXCEPT ![p] = active]
          /\ begun' = [begun EXCEPT ![p] = ws]
          /\ kind' = [kind EXCEPT ![p] = "none"]
          /\ attempt' = [attempt EXCEPT ![p] = 1]
          /\ BeginLoop(p, "check")
          /\ UNCHANGED <<temp, answer, ws, files, writer, runs, faults, cut>>
      BY <1>15, <2>2 DEF TypeOK, Open
    <3>2. /\ handle' \in [Procs -> Inodes \cup {None}]
          /\ begun' \in [Procs -> Workspace]
          /\ attempt' \in [Procs -> 1..2]
      BY <3>1 DEF TypeOK
    <3>3. /\ pc' \in [Procs -> Labels] /\ todo' \in [Procs -> SUBSET Files]
          /\ drift' \in [Procs -> BOOLEAN]
      BY <3>1 DEF TypeOK, BeginLoop, Goto
    <3> QED
      BY <3>1, <3>2, <3>3 DEF TypeOK, files
  <2> QED
    BY <2>1, <2>2
<1>16. ASSUME NEW p \in Procs, Verdict(p) PROVE TypeOK'
  <2>1. CASE Finish(p, "refused")
    BY <1>16, <2>1, FinishTypes DEF TypeOK, WorkTypes, Verdict, Fault, files
  <2>2. CASE ~Finish(p, "refused")
    BY <1>16, <2>2 DEF TypeOK, Verdict, Goto, files
  <2> QED
    BY <2>1, <2>2
<1>17. ASSUME NEW p \in Procs, Serve(p) PROVE TypeOK'
  <2>1. PICK a \in Answers : Finish(p, a)
    BY <1>17 DEF Serve
  <2> QED
    BY <1>17, <2>1, FinishTypes DEF TypeOK, WorkTypes, Serve, files
<1>18. ASSUME NEW p \in Procs, NEW f \in Files, IndexOne(p, f) PROVE TypeOK'
  BY <1>18 DEF TypeOK, IndexOne, IndexFile, Workspace
<1>19. ASSUME NEW p \in Procs, NEW f \in Files, NEW n, Compare(p, f, n)
       PROVE  TypeOK'
  BY <1>19 DEF TypeOK, Compare, files
<1>20. ASSUME NEW p \in Procs, IndexFails(p) \/ Unclean(p) PROVE TypeOK'
  <2>1. WorkTypes' /\ writer' = None
    BY <1>20, GiveUpTypes DEF IndexFails, Unclean
  <2>2. faults' \in 0..MaxFaults
    BY <1>20 DEF TypeOK, IndexFails, Unclean, Fault
  <2> QED
    BY <1>20, <2>1, <2>2 DEF TypeOK, WorkTypes, IndexFails, Unclean
<1>21. ASSUME NEW p \in Procs, Abandon(p) PROVE TypeOK'
  BY <1>21 DEF TypeOK, Abandon, Fault, Finish, Goto, files
<1>22. CASE UNCHANGED vars
  BY <1>22 DEF TypeOK, vars, files, work
<1> QED
  BY <1>1, <1>2, <1>3, <1>4, <1>5, <1>6, <1>7, <1>8, <1>9, <1>10, <1>11, <1>12,
     <1>13, <1>14, <1>15, <1>16, <1>17, <1>18, <1>19, <1>20, <1>21, <1>22
  DEF Next, Step, VerifyFile, CheckFile

\* The state of the index store, of the processes and of the workspace stays
\* within its types.
THEOREM Typing == Spec => []TypeOK
<1>1. Init => TypeOK
  BY SnapshotAssumption
  DEF Init, TypeOK, NoIndex, IndexFile, Workspace, Labels, Kinds, Answers
<1> QED
  BY <1>1, TypeStep, PTL DEF Spec

-----------------------------------------------------------------------------
(* The writer lock, the temporary snapshots and the open indexes. *)

\* A process that indexes holds the writer lock.
Exclusive == \A p \in Procs : pc[p] \in Writing => writer = p

\* A snapshot under construction is neither published nor open in a query.
Apart == active \notin temps /\ \A p \in Procs : handle[p] \notin temps

\* A run starts its snapshot after it has removed every other one.
Swept == \A p \in Procs : pc[p] = "seed" => temps = {}

\* A query that compares or serves has an index open.
Opened == \A p \in Procs : pc[p] \in {"check", "serve"} => handle[p] \in Inodes

\* A first-use index past its gate has no store to replace.
FirstUse ==
    \A p \in Procs : kind[p] = "auto" /\ pc[p] \in Writing \ {"gate", "sweep"}
                        => active = None

Structure ==
    Exclusive /\ LiveTempKept /\ OneTemp /\ Apart /\ Swept /\ Opened /\ FirstUse

\* Every step keeps the structure of the store.
LEMMA StructureStep == TypeOK /\ Structure /\ [Next]_vars => Structure'
<1> SUFFICES ASSUME TypeOK, Structure, [Next]_vars PROVE Structure'
  OBVIOUS
<1> USE SnapshotAssumption
<1> USE DEF Structure, Exclusive, LiveTempKept, OneTemp, Apart, Swept, Opened,
            FirstUse, TypeOK, Writing, Building
<1>1. ASSUME NEW f \in Files, Edit(f) PROVE Structure'
  BY <1>1 DEF Edit, files, work
<1>2. ASSUME NEW f \in Files, Revert(f) PROVE Structure'
  BY <1>2 DEF Revert, files, work
<1>3. ASSUME Corrupt PROVE Structure'
  BY <1>3 DEF Corrupt, Usable, work
<1>4. ASSUME NEW p \in Procs, StartIndex(p) PROVE Structure'
  BY <1>4 DEF StartIndex, Goto, files
<1>5. ASSUME NEW p \in Procs, StartQuery(p) PROVE Structure'
  BY <1>5 DEF StartQuery, Goto, files
<1>6. ASSUME NEW p \in Procs, Lock(p) PROVE Structure'
  BY <1>6 DEF Lock, Goto, Finish, files
<1>7. ASSUME NEW p \in Procs, Gate(p) PROVE Structure'
  BY <1>7 DEF Gate, Goto, Finish, GiveUp, files
<1>8. ASSUME NEW p \in Procs, Clean(p) PROVE Structure'
  BY <1>8 DEF Clean, Goto
<1>9. ASSUME NEW p \in Procs, Seed(p) PROVE Structure'
  BY <1>9 DEF Seed, Goto, BeginLoop, Free, NoIndex, Usable
<1>10. ASSUME NEW p \in Procs, BeginVerify(p) PROVE Structure'
  BY <1>10 DEF BeginVerify, Goto, BeginLoop, files
<1>11. ASSUME NEW p \in Procs, Verified(p) PROVE Structure'
  BY <1>11 DEF Verified, Goto, GiveUp, Finish
<1>12. ASSUME NEW p \in Procs, Prepare(p) PROVE Structure'
  BY <1>12 DEF Prepare, Goto, Usable
<1>13. ASSUME NEW p \in Procs, Publish(p) PROVE Structure'
  BY <1>13 DEF Publish, Goto
<1>14. ASSUME NEW p \in Procs, Sweep(p) PROVE Structure'
  BY <1>14 DEF Sweep, Goto, Finish
<1>15. ASSUME NEW p \in Procs, Open(p) PROVE Structure'
  BY <1>15 DEF Open, Goto, BeginLoop, Finish, files
<1>16. ASSUME NEW p \in Procs, Verdict(p) PROVE Structure'
  BY <1>16 DEF Verdict, Goto, Finish, files
<1>17. ASSUME NEW p \in Procs, Serve(p) PROVE Structure'
  BY <1>17 DEF Serve, Goto, Finish, files
<1>18. ASSUME NEW p \in Procs, NEW f \in Files, IndexOne(p, f) PROVE Structure'
  BY <1>18 DEF IndexOne
<1>19. ASSUME NEW p \in Procs, NEW f \in Files, NEW n, Compare(p, f, n)
       PROVE  Structure'
  BY <1>19 DEF Compare, files
<1>20. ASSUME NEW p \in Procs, IndexFails(p) \/ Unclean(p) PROVE Structure'
  BY <1>20 DEF IndexFails, Unclean, GiveUp, Finish, Goto
<1>21. ASSUME NEW p \in Procs, Abandon(p) PROVE Structure'
  BY <1>21 DEF Abandon, Finish, Goto, files
<1>22. CASE UNCHANGED vars
  BY <1>22 DEF vars, files, work
<1> QED
  BY <1>1, <1>2, <1>3, <1>4, <1>5, <1>6, <1>7, <1>8, <1>9, <1>10, <1>11, <1>12,
     <1>13, <1>14, <1>15, <1>16, <1>17, <1>18, <1>19, <1>20, <1>21, <1>22
  DEF Next, Step, VerifyFile, CheckFile

\* The snapshot that is about to replace a sound index is of a later generation.
Newer ==
    \A p \in Procs : pc[p] \in Building /\ active # None =>
        \/ disk[temp[p]].gen > disk[active].gen
        \/ pc[p] # "publish" /\ ~disk[active].sane

\* Every step keeps the order of the generations.
LEMMA NewerStep == TypeOK /\ Structure /\ Newer /\ [Next]_vars => Newer'
<1> SUFFICES ASSUME TypeOK, Structure, Newer, [Next]_vars PROVE Newer'
  OBVIOUS
<1> USE SnapshotAssumption
<1> USE DEF Structure, Exclusive, LiveTempKept, Apart, Newer, TypeOK, Writing,
            Building
<1>1. ASSUME NEW f \in Files, Edit(f)
      PROVE  Newer'
  BY <1>1 DEF Edit, files, work
<1>2. ASSUME NEW f \in Files, Revert(f)
      PROVE  Newer'
  BY <1>2 DEF Revert, files, work
<1>3. ASSUME Corrupt
      PROVE  Newer'
  BY <1>3 DEF Corrupt, work, IndexFile
<1>4. ASSUME NEW p \in Procs, StartIndex(p)
      PROVE  Newer'
  BY <1>4 DEF StartIndex, Goto, files
<1>5. ASSUME NEW p \in Procs, StartQuery(p)
      PROVE  Newer'
  BY <1>5 DEF StartQuery, Goto, files
<1>6. ASSUME NEW p \in Procs, Lock(p)
      PROVE  Newer'
  BY <1>6 DEF Lock, Goto, Finish, files
<1>7. ASSUME NEW p \in Procs, Gate(p)
      PROVE  Newer'
  BY <1>7 DEF Gate, Goto, Finish, GiveUp, files
<1>8. ASSUME NEW p \in Procs, Clean(p)
      PROVE  Newer'
  BY <1>8 DEF Clean, Goto
<1>9. ASSUME NEW p \in Procs, Seed(p)
      PROVE  Newer'
  BY <1>9 DEF Seed, Goto, BeginLoop, Free, NoIndex, Usable, IndexFile
<1>10. ASSUME NEW p \in Procs, BeginVerify(p)
       PROVE  Newer'
  BY <1>10 DEF BeginVerify, Goto, BeginLoop, files
<1>11. ASSUME NEW p \in Procs, Verified(p)
       PROVE  Newer'
  BY <1>11 DEF Verified, Goto, GiveUp, Finish
<1>12. ASSUME NEW p \in Procs, Prepare(p)
       PROVE  Newer'
  BY <1>12 DEF Prepare, Goto, Usable
<1>13. ASSUME NEW p \in Procs, Publish(p)
       PROVE  Newer'
  BY <1>13 DEF Publish, Goto
<1>14. ASSUME NEW p \in Procs, Sweep(p)
       PROVE  Newer'
  BY <1>14 DEF Sweep, Goto, Finish
<1>15. ASSUME NEW p \in Procs, Open(p)
       PROVE  Newer'
  BY <1>15 DEF Open, Goto, BeginLoop, Finish, files
<1>16. ASSUME NEW p \in Procs, Verdict(p)
       PROVE  Newer'
  BY <1>16 DEF Verdict, Goto, Finish, files
<1>17. ASSUME NEW p \in Procs, Serve(p)
       PROVE  Newer'
  BY <1>17 DEF Serve, Goto, Finish, files
<1>18. ASSUME NEW p \in Procs, NEW f \in Files, IndexOne(p, f)
       PROVE  Newer'
  BY <1>18 DEF IndexOne, IndexFile
<1>19. ASSUME NEW p \in Procs, NEW f \in Files, NEW n, Compare(p, f, n)
       PROVE  Newer'
  BY <1>19 DEF Compare, files
<1>20. ASSUME NEW p \in Procs, IndexFails(p) \/ Unclean(p)
       PROVE  Newer'
  BY <1>20 DEF IndexFails, Unclean, GiveUp, Finish, Goto
<1>21. ASSUME NEW p \in Procs, Abandon(p)
       PROVE  Newer'
  BY <1>21 DEF Abandon, Finish, Goto, files
<1>22. CASE UNCHANGED vars
  BY <1>22 DEF vars, files, work
<1> QED
  BY <1>1, <1>2, <1>3, <1>4, <1>5, <1>6, <1>7, <1>8, <1>9, <1>10, <1>11, <1>12,
     <1>13, <1>14, <1>15, <1>16, <1>17, <1>18, <1>19, <1>20, <1>21, <1>22
  DEF Next, Step, VerifyFile, CheckFile


-----------------------------------------------------------------------------
(* The two comparisons with the workspace.  As long as a file never returns  *)
(* to an earlier version, a file that was indexed before an instant and is   *)
(* found unchanged after it had that version at the instant.                 *)

\* No index and no history variable is ahead of the workspace.
Behind ==
    /\ \A n \in Inodes, f \in Files : disk[n].content[f] <= ws[f]
    /\ \A f \in Files : cut[f] <= ws[f]
    /\ \A p \in Procs, f \in Files : begun[p][f] <= ws[f]

\* The verification of a snapshot: what it has compared without finding drift
\* is what the workspace was when it began.
VerifiedSoFar ==
    \A p \in Procs :
        /\ pc[p] = "verify" => \A f \in Files :
              /\ disk[temp[p]].content[f] <= cut[f]
              /\ ~drift[p] /\ f \notin todo[p] =>
                    disk[temp[p]].content[f] = cut[f]
        /\ pc[p] \in {"prepare", "publish"} =>
              \A f \in Files : disk[temp[p]].content[f] = cut[f]

\* The same for the freshness check of a query.
CheckedSoFar ==
    \A p \in Procs :
        /\ pc[p] = "check" => \A f \in Files :
              /\ disk[handle[p]].content[f] <= begun[p][f]
              /\ ~drift[p] /\ f \notin todo[p] =>
                    disk[handle[p]].content[f] = begun[p][f]
        /\ pc[p] = "serve" =>
              \A f \in Files : disk[handle[p]].content[f] = begun[p][f]

\* What these two say of a process only depends on the following.
SameVerify(q) ==
    /\ pc'[q] = pc[q] /\ temp'[q] = temp[q] /\ drift'[q] = drift[q]
    /\ todo'[q] = todo[q]
    /\ pc[q] \in {"verify", "prepare", "publish"} =>
          disk'[temp[q]].content = disk[temp[q]].content /\ cut' = cut

SameCheck(q) ==
    /\ pc'[q] = pc[q] /\ handle'[q] = handle[q] /\ drift'[q] = drift[q]
    /\ todo'[q] = todo[q] /\ begun'[q] = begun[q]
    /\ pc[q] \in {"check", "serve"} =>
          disk'[handle[q]].content = disk[handle[q]].content

\* A version between two equal ones is the same version.
LEMMA Squeeze ==
  ASSUME NEW a \in Nat, NEW b \in Nat, NEW c \in Nat, a <= b, b <= c, a = c
  PROVE  a = b
OBVIOUS

\* Without reverts no step gets ahead of the workspace.
LEMMA BehindStep ==
  ASSUME ~Reverts PROVE TypeOK /\ Behind /\ [Next]_vars => Behind'
<1> SUFFICES ASSUME TypeOK, Behind, [Next]_vars PROVE Behind'
  OBVIOUS
<1> USE SnapshotAssumption
<1> USE DEF Behind, TypeOK, Workspace
<1>1. ASSUME NEW f \in Files, Edit(f) PROVE Behind'
  <2>1. \A g \in Files : ws[g] \in Nat /\ ws'[g] \in Nat /\ ws[g] <= ws'[g]
    BY <1>1 DEF Edit
  <2>2. \A n \in Inodes, g \in Files : disk[n].content[g] \in Nat
    BY DEF IndexFile
  <2> QED
    BY <1>1, <2>1, <2>2 DEF Edit, files, work
<1>2. ASSUME NEW f \in Files, Revert(f) PROVE Behind'
  BY <1>2 DEF Revert
<1>3. ASSUME Corrupt PROVE Behind'
  BY <1>3 DEF Corrupt, work, IndexFile
<1>4. ASSUME NEW p \in Procs, StartIndex(p) PROVE Behind'
  BY <1>4 DEF StartIndex, Goto, files
<1>5. ASSUME NEW p \in Procs, StartQuery(p) PROVE Behind'
  BY <1>5 DEF StartQuery, Goto, files
<1>6. ASSUME NEW p \in Procs, Lock(p) PROVE Behind'
  BY <1>6 DEF Lock, Goto, Finish, files
<1>7. ASSUME NEW p \in Procs, Gate(p) PROVE Behind'
  BY <1>7 DEF Gate, Goto, Finish, GiveUp, files
<1>8. ASSUME NEW p \in Procs, Clean(p) PROVE Behind'
  BY <1>8 DEF Clean, Goto
<1>9. ASSUME NEW p \in Procs, Seed(p) PROVE Behind'
  BY <1>9 DEF Seed, Goto, BeginLoop, Free, NoIndex, Usable, IndexFile
<1>10. ASSUME NEW p \in Procs, BeginVerify(p) PROVE Behind'
  BY <1>10 DEF BeginVerify, Goto, BeginLoop, files
<1>11. ASSUME NEW p \in Procs, Verified(p) PROVE Behind'
  BY <1>11 DEF Verified, Goto, GiveUp, Finish
<1>12. ASSUME NEW p \in Procs, Prepare(p) PROVE Behind'
  BY <1>12 DEF Prepare, Goto, Usable
<1>13. ASSUME NEW p \in Procs, Publish(p) PROVE Behind'
  BY <1>13 DEF Publish, Goto
<1>14. ASSUME NEW p \in Procs, Sweep(p) PROVE Behind'
  BY <1>14 DEF Sweep, Goto, Finish
<1>15. ASSUME NEW p \in Procs, Open(p) PROVE Behind'
  <2>1. begun' = begun \/ begun' = [begun EXCEPT ![p] = ws]
    BY <1>15 DEF Open
  <2>2. UNCHANGED <<ws, disk, cut>>
    BY <1>15 DEF Open, files
  <2>3. \A f \in Files : ws[f] <= ws[f]
    OBVIOUS
  <2> QED
    BY <2>1, <2>2, <2>3
<1>16. ASSUME NEW p \in Procs, Verdict(p) PROVE Behind'
  BY <1>16 DEF Verdict, Goto, Finish, files
<1>17. ASSUME NEW p \in Procs, Serve(p) PROVE Behind'
  BY <1>17 DEF Serve, Goto, Finish, files
<1>18. ASSUME NEW p \in Procs, NEW f \in Files, IndexOne(p, f) PROVE Behind'
  BY <1>18 DEF IndexOne, IndexFile
<1>19. ASSUME NEW p \in Procs, NEW f \in Files, VerifyFile(p, f) PROVE Behind'
  BY <1>19 DEF VerifyFile, Compare, files
<1>20. ASSUME NEW p \in Procs, NEW f \in Files, CheckFile(p, f) PROVE Behind'
  BY <1>20 DEF CheckFile, Compare, files
<1>21. ASSUME NEW p \in Procs, IndexFails(p) \/ Unclean(p) PROVE Behind'
  BY <1>21 DEF IndexFails, Unclean, GiveUp, Finish, Goto
<1>22. ASSUME NEW p \in Procs, Abandon(p) PROVE Behind'
  BY <1>22 DEF Abandon, Finish, Goto, files
<1>23. CASE UNCHANGED vars
  BY <1>23 DEF vars, files, work
<1> QED
  BY <1>1, <1>2, <1>3, <1>4, <1>5, <1>6, <1>7, <1>8, <1>9, <1>10, <1>11, <1>12,
     <1>13, <1>14, <1>15, <1>16, <1>17, <1>18, <1>19, <1>20, <1>21, <1>22, <1>23
  DEF Next, Step

\* A step of p that leaves the verification of every other process alone, and
\* after which p verifies nothing, keeps what was verified.
LEMMA OthersVerified ==
  ASSUME VerifiedSoFar, NEW p \in Procs,
         pc'[p] \notin {"verify", "prepare", "publish"},
         \A q \in Procs : q # p => SameVerify(q)
  PROVE  VerifiedSoFar'
  BY DEF VerifiedSoFar, SameVerify

\* Every step keeps what the verification has established.
LEMMA VerifiedStep ==
  ASSUME ~Reverts
  PROVE  TypeOK /\ Structure /\ Behind /\ VerifiedSoFar /\ [Next]_vars
            => VerifiedSoFar'
<1> SUFFICES ASSUME TypeOK, Structure, Behind, VerifiedSoFar, [Next]_vars
             PROVE  VerifiedSoFar'
  OBVIOUS
<1> USE SnapshotAssumption
<1> USE DEF Structure, Exclusive, LiveTempKept, Behind, TypeOK, Workspace,
            Writing, Building
<1>1. ASSUME NEW f \in Files, Edit(f) PROVE VerifiedSoFar'
  BY <1>1 DEF VerifiedSoFar, Edit, files, work
<1>2. ASSUME NEW f \in Files, Revert(f) PROVE VerifiedSoFar'
  BY <1>2 DEF VerifiedSoFar, Revert
<1>3. ASSUME Corrupt PROVE VerifiedSoFar'
  BY <1>3 DEF VerifiedSoFar, Corrupt, work, IndexFile
<1>4. ASSUME NEW p \in Procs, StartIndex(p) PROVE VerifiedSoFar'
  <2>1. pc'[p] \notin {"verify", "prepare", "publish"}
    BY <1>4 DEF StartIndex, Goto, files
  <2>2. ASSUME NEW q \in Procs, q # p PROVE SameVerify(q)
    BY <1>4, <2>2 DEF SameVerify, StartIndex, Goto, files
  <2> QED
    BY <2>1, <2>2, OthersVerified
<1>5. ASSUME NEW p \in Procs, StartQuery(p) PROVE VerifiedSoFar'
  <2>1. pc'[p] \notin {"verify", "prepare", "publish"}
    BY <1>5 DEF StartQuery, Goto, files
  <2>2. ASSUME NEW q \in Procs, q # p PROVE SameVerify(q)
    BY <1>5, <2>2 DEF SameVerify, StartQuery, Goto, files
  <2> QED
    BY <2>1, <2>2, OthersVerified
<1>6. ASSUME NEW p \in Procs, Lock(p) PROVE VerifiedSoFar'
  <2>1. pc'[p] \notin {"verify", "prepare", "publish"}
    BY <1>6 DEF Lock, Goto, Finish, files
  <2>2. ASSUME NEW q \in Procs, q # p PROVE SameVerify(q)
    BY <1>6, <2>2 DEF SameVerify, Lock, Goto, Finish, files
  <2> QED
    BY <2>1, <2>2, OthersVerified
<1>7. ASSUME NEW p \in Procs, Gate(p) PROVE VerifiedSoFar'
  <2>1. pc'[p] \notin {"verify", "prepare", "publish"}
    BY <1>7 DEF Gate, Goto, Finish, GiveUp, files
  <2>2. ASSUME NEW q \in Procs, q # p PROVE SameVerify(q)
    BY <1>7, <2>2 DEF SameVerify, Gate, Goto, Finish, GiveUp, files
  <2> QED
    BY <2>1, <2>2, OthersVerified
<1>8. ASSUME NEW p \in Procs, Clean(p) PROVE VerifiedSoFar'
  <2>1. pc'[p] \notin {"verify", "prepare", "publish"}
    BY <1>8 DEF Clean, Goto
  <2>2. ASSUME NEW q \in Procs, q # p PROVE SameVerify(q)
    BY <1>8, <2>2 DEF SameVerify, Clean, Goto
  <2> QED
    BY <2>1, <2>2, OthersVerified
<1>9. ASSUME NEW p \in Procs, Seed(p) PROVE VerifiedSoFar'
  <2>1. pc'[p] \notin {"verify", "prepare", "publish"}
    BY <1>9 DEF Seed, Goto, BeginLoop, Free, NoIndex, Usable, IndexFile
  <2>2. ASSUME NEW q \in Procs, q # p PROVE SameVerify(q)
    BY <1>9, <2>2 DEF SameVerify, Seed, Goto, BeginLoop, Free, NoIndex, Usable, IndexFile
  <2> QED
    BY <2>1, <2>2, OthersVerified
<1>10. ASSUME NEW p \in Procs, BeginVerify(p) PROVE VerifiedSoFar'
  BY <1>10 DEF VerifiedSoFar, BeginVerify, Goto, BeginLoop, files
<1>11. ASSUME NEW p \in Procs, Verified(p) PROVE VerifiedSoFar'
  <2>1. ASSUME NEW q \in Procs, q # p PROVE SameVerify(q)
    BY <1>11, <2>1 DEF SameVerify, Verified, Goto, GiveUp, Finish
  <2>2. CASE Goto(p, "prepare")
    <3>1. /\ pc'[p] = "prepare" /\ pc[p] = "verify" /\ todo[p] = {} /\ ~drift[p]
          /\ temp' = temp /\ disk' = disk /\ cut' = cut
      BY <1>11, <2>2 DEF Verified, Goto, GiveUp, Finish
    <3>2. \A f \in Files : disk[temp[p]].content[f] = cut[f]
      BY <3>1 DEF VerifiedSoFar
    <3> QED
      BY ONLY VerifiedSoFar, <2>1, <3>1, <3>2 DEF VerifiedSoFar, SameVerify
  <2>3. CASE pc'[p] \in {"clean", "idle"}
    BY <2>1, <2>3, OthersVerified
  <2>4. Goto(p, "prepare") \/ pc'[p] \in {"clean", "idle"}
    BY <1>11 DEF Verified, Goto, GiveUp, Finish
  <2> QED
    BY <2>2, <2>3, <2>4
<1>12. ASSUME NEW p \in Procs, Prepare(p) PROVE VerifiedSoFar'
  BY <1>12 DEF VerifiedSoFar, Prepare, Goto, Usable
<1>13. ASSUME NEW p \in Procs, Publish(p) PROVE VerifiedSoFar'
  <2>1. pc'[p] \notin {"verify", "prepare", "publish"}
    BY <1>13 DEF Publish, Goto
  <2>2. ASSUME NEW q \in Procs, q # p PROVE SameVerify(q)
    BY <1>13, <2>2 DEF SameVerify, Publish, Goto
  <2> QED
    BY <2>1, <2>2, OthersVerified
<1>14. ASSUME NEW p \in Procs, Sweep(p) PROVE VerifiedSoFar'
  <2>1. pc'[p] \notin {"verify", "prepare", "publish"}
    BY <1>14 DEF Sweep, Goto, Finish
  <2>2. ASSUME NEW q \in Procs, q # p PROVE SameVerify(q)
    BY <1>14, <2>2 DEF SameVerify, Sweep, Goto, Finish
  <2> QED
    BY <2>1, <2>2, OthersVerified
<1>15. ASSUME NEW p \in Procs, Open(p) PROVE VerifiedSoFar'
  <2>1. pc'[p] \notin {"verify", "prepare", "publish"}
    BY <1>15 DEF Open, Goto, BeginLoop, Finish, files
  <2>2. ASSUME NEW q \in Procs, q # p PROVE SameVerify(q)
    BY <1>15, <2>2 DEF SameVerify, Open, Goto, BeginLoop, Finish, files
  <2> QED
    BY <2>1, <2>2, OthersVerified
<1>16. ASSUME NEW p \in Procs, Verdict(p) PROVE VerifiedSoFar'
  <2>1. pc'[p] \notin {"verify", "prepare", "publish"}
    BY <1>16 DEF Verdict, Goto, Finish, files
  <2>2. ASSUME NEW q \in Procs, q # p PROVE SameVerify(q)
    BY <1>16, <2>2 DEF SameVerify, Verdict, Goto, Finish, files
  <2> QED
    BY <2>1, <2>2, OthersVerified
<1>17. ASSUME NEW p \in Procs, Serve(p) PROVE VerifiedSoFar'
  <2>1. pc'[p] \notin {"verify", "prepare", "publish"}
    BY <1>17 DEF Serve, Goto, Finish, files
  <2>2. ASSUME NEW q \in Procs, q # p PROVE SameVerify(q)
    BY <1>17, <2>2 DEF SameVerify, Serve, Goto, Finish, files
  <2> QED
    BY <2>1, <2>2, OthersVerified
<1>18. ASSUME NEW p \in Procs, NEW f \in Files, IndexOne(p, f)
       PROVE  VerifiedSoFar'
  <2>1. pc'[p] \notin {"verify", "prepare", "publish"}
    BY <1>18 DEF IndexOne, IndexFile
  <2>2. ASSUME NEW q \in Procs, q # p PROVE SameVerify(q)
    BY <1>18, <2>2 DEF SameVerify, IndexOne, IndexFile
  <2> QED
    BY <2>1, <2>2, OthersVerified
<1>19. ASSUME NEW p \in Procs, NEW f \in Files, VerifyFile(p, f)
       PROVE  VerifiedSoFar'
  <2>1. ASSUME NEW q \in Procs, q # p PROVE SameVerify(q)
    BY <1>19, <2>1 DEF SameVerify, VerifyFile, Compare, files
  <2>2. /\ UNCHANGED <<pc, temp, disk, cut>>
        /\ pc[p] = "verify"
        /\ todo'[p] = todo[p] \ {f}
        /\ drift'[p] = (drift[p] \/ disk[temp[p]].content[f] # ws[f])
    BY <1>19 DEF VerifyFile, Compare, files
  <2>3. /\ temp[p] \in Inodes
        /\ disk[temp[p]].content[f] \in Nat /\ ws[f] \in Nat /\ cut[f] \in Nat
    BY <2>2 DEF IndexFile
  <2>4. ~drift'[p] => disk[temp[p]].content[f] = cut[f]
    <3>1. disk[temp[p]].content[f] <= cut[f]
      BY <2>2 DEF VerifiedSoFar
    <3>2. cut[f] <= ws[f]
      OBVIOUS
    <3>3. ~drift'[p] => disk[temp[p]].content[f] = ws[f]
      BY <2>2
    <3> QED
      BY <2>3, <3>1, <3>2, <3>3, Squeeze
  <2>5. \A g \in Files : g \notin todo'[p] => g = f \/ g \notin todo[p]
    BY <2>2
  <2>6. ~drift'[p] => ~drift[p]
    BY <2>2
  <2> QED
    BY <2>1, <2>2, <2>4, <2>5, <2>6 DEF VerifiedSoFar, SameVerify
<1>20. ASSUME NEW p \in Procs, NEW f \in Files, CheckFile(p, f)
       PROVE  VerifiedSoFar'
  <2>1. pc'[p] \notin {"verify", "prepare", "publish"}
    BY <1>20 DEF CheckFile, Compare, files
  <2>2. ASSUME NEW q \in Procs, q # p PROVE SameVerify(q)
    BY <1>20, <2>2 DEF SameVerify, CheckFile, Compare, files
  <2> QED
    BY <2>1, <2>2, OthersVerified
<1>21. ASSUME NEW p \in Procs, IndexFails(p) \/ Unclean(p) PROVE VerifiedSoFar'
  <2>1. pc'[p] \notin {"verify", "prepare", "publish"}
    BY <1>21 DEF IndexFails, Unclean, GiveUp, Finish, Goto
  <2>2. ASSUME NEW q \in Procs, q # p PROVE SameVerify(q)
    BY <1>21, <2>2 DEF SameVerify, IndexFails, Unclean, GiveUp, Finish, Goto
  <2> QED
    BY <2>1, <2>2, OthersVerified
<1>22. ASSUME NEW p \in Procs, Abandon(p) PROVE VerifiedSoFar'
  <2>1. pc'[p] \notin {"verify", "prepare", "publish"}
    BY <1>22 DEF Abandon, Finish, Goto, files
  <2>2. ASSUME NEW q \in Procs, q # p PROVE SameVerify(q)
    BY <1>22, <2>2 DEF SameVerify, Abandon, Finish, Goto, files
  <2> QED
    BY <2>1, <2>2, OthersVerified
<1>23. CASE UNCHANGED vars
  BY <1>23 DEF VerifiedSoFar, vars, files, work
<1> QED
  BY <1>1, <1>2, <1>3, <1>4, <1>5, <1>6, <1>7, <1>8, <1>9, <1>10, <1>11, <1>12,
     <1>13, <1>14, <1>15, <1>16, <1>17, <1>18, <1>19, <1>20, <1>21, <1>22, <1>23
  DEF Next, Step

\* The same for the freshness check of a query.
LEMMA OthersChecked ==
  ASSUME CheckedSoFar, NEW p \in Procs,
         pc'[p] \notin {"check", "serve"},
         \A q \in Procs : q # p => SameCheck(q)
  PROVE  CheckedSoFar'
  BY DEF CheckedSoFar, SameCheck

\* So does a step after which what p has checked is what it found at its start.
LEMMA CheckingGoesOn ==
  ASSUME CheckedSoFar, NEW p \in Procs, pc'[p] = "check",
         \A g \in Files :
            /\ disk'[handle'[p]].content[g] <= begun'[p][g]
            /\ ~drift'[p] /\ g \notin todo'[p] =>
                  disk'[handle'[p]].content[g] = begun'[p][g],
         \A q \in Procs : q # p => SameCheck(q)
  PROVE  CheckedSoFar'
  BY DEF CheckedSoFar, SameCheck

\* Every step keeps what the freshness check of a query has established.
LEMMA CheckedStep ==
  ASSUME ~Reverts
  PROVE  TypeOK /\ Structure /\ Behind /\ CheckedSoFar /\ [Next]_vars
            => CheckedSoFar'
<1> SUFFICES ASSUME TypeOK, Structure, Behind, CheckedSoFar, [Next]_vars
             PROVE  CheckedSoFar'
  OBVIOUS
<1> USE SnapshotAssumption
<1> USE DEF Structure, Exclusive, LiveTempKept, Apart, Opened, Behind, TypeOK,
            Workspace, Writing, Building
<1>1. ASSUME NEW f \in Files, Edit(f) PROVE CheckedSoFar'
  BY <1>1 DEF CheckedSoFar, Edit, files, work
<1>2. ASSUME NEW f \in Files, Revert(f) PROVE CheckedSoFar'
  BY <1>2 DEF CheckedSoFar, Revert
<1>3. ASSUME Corrupt PROVE CheckedSoFar'
  BY <1>3 DEF CheckedSoFar, Corrupt, work, IndexFile
<1>4. ASSUME NEW p \in Procs, StartIndex(p) PROVE CheckedSoFar'
  <2>1. pc'[p] \notin {"check", "serve"}
    BY <1>4 DEF StartIndex, Goto, files
  <2>2. ASSUME NEW q \in Procs, q # p PROVE SameCheck(q)
    BY <1>4, <2>2 DEF SameCheck, StartIndex, Goto, files
  <2> QED
    BY <2>1, <2>2, OthersChecked
<1>5. ASSUME NEW p \in Procs, StartQuery(p) PROVE CheckedSoFar'
  <2>1. pc'[p] \notin {"check", "serve"}
    BY <1>5 DEF StartQuery, Goto, files
  <2>2. ASSUME NEW q \in Procs, q # p PROVE SameCheck(q)
    BY <1>5, <2>2 DEF SameCheck, StartQuery, Goto, files
  <2> QED
    BY <2>1, <2>2, OthersChecked
<1>6. ASSUME NEW p \in Procs, Lock(p) PROVE CheckedSoFar'
  <2>1. pc'[p] \notin {"check", "serve"}
    BY <1>6 DEF Lock, Goto, Finish, files
  <2>2. ASSUME NEW q \in Procs, q # p PROVE SameCheck(q)
    BY <1>6, <2>2 DEF SameCheck, Lock, Goto, Finish, files
  <2> QED
    BY <2>1, <2>2, OthersChecked
<1>7. ASSUME NEW p \in Procs, Gate(p) PROVE CheckedSoFar'
  <2>1. pc'[p] \notin {"check", "serve"}
    BY <1>7 DEF Gate, Goto, Finish, GiveUp, files
  <2>2. ASSUME NEW q \in Procs, q # p PROVE SameCheck(q)
    BY <1>7, <2>2 DEF SameCheck, Gate, Goto, Finish, GiveUp, files
  <2> QED
    BY <2>1, <2>2, OthersChecked
<1>8. ASSUME NEW p \in Procs, Clean(p) PROVE CheckedSoFar'
  <2>1. pc'[p] \notin {"check", "serve"}
    BY <1>8 DEF Clean, Goto
  <2>2. ASSUME NEW q \in Procs, q # p PROVE SameCheck(q)
    BY <1>8, <2>2 DEF SameCheck, Clean, Goto
  <2> QED
    BY <2>1, <2>2, OthersChecked
<1>9. ASSUME NEW p \in Procs, Seed(p) PROVE CheckedSoFar'
  <2>1. pc'[p] \notin {"check", "serve"}
    BY <1>9 DEF Seed, Goto, BeginLoop, Free, NoIndex, Usable, IndexFile
  <2>2. ASSUME NEW q \in Procs, q # p PROVE SameCheck(q)
    BY <1>9, <2>2 DEF SameCheck, Seed, Goto, BeginLoop, Free, NoIndex, Usable, IndexFile
  <2> QED
    BY <2>1, <2>2, OthersChecked
<1>10. ASSUME NEW p \in Procs, BeginVerify(p) PROVE CheckedSoFar'
  <2>1. pc'[p] \notin {"check", "serve"}
    BY <1>10 DEF BeginVerify, Goto, BeginLoop, files
  <2>2. ASSUME NEW q \in Procs, q # p PROVE SameCheck(q)
    BY <1>10, <2>2 DEF SameCheck, BeginVerify, Goto, BeginLoop, files
  <2> QED
    BY <2>1, <2>2, OthersChecked
<1>11. ASSUME NEW p \in Procs, Verified(p) PROVE CheckedSoFar'
  <2>1. pc'[p] \notin {"check", "serve"}
    BY <1>11 DEF Verified, Goto, GiveUp, Finish
  <2>2. ASSUME NEW q \in Procs, q # p PROVE SameCheck(q)
    BY <1>11, <2>2 DEF SameCheck, Verified, Goto, GiveUp, Finish
  <2> QED
    BY <2>1, <2>2, OthersChecked
<1>12. ASSUME NEW p \in Procs, Prepare(p) PROVE CheckedSoFar'
  <2>1. pc'[p] \notin {"check", "serve"}
    BY <1>12 DEF Prepare, Goto, Usable
  <2>2. ASSUME NEW q \in Procs, q # p PROVE SameCheck(q)
    BY <1>12, <2>2 DEF SameCheck, Prepare, Goto, Usable
  <2> QED
    BY <2>1, <2>2, OthersChecked
<1>13. ASSUME NEW p \in Procs, Publish(p) PROVE CheckedSoFar'
  <2>1. pc'[p] \notin {"check", "serve"}
    BY <1>13 DEF Publish, Goto
  <2>2. ASSUME NEW q \in Procs, q # p PROVE SameCheck(q)
    BY <1>13, <2>2 DEF SameCheck, Publish, Goto
  <2> QED
    BY <2>1, <2>2, OthersChecked
<1>14. ASSUME NEW p \in Procs, Sweep(p) PROVE CheckedSoFar'
  <2>1. pc'[p] \notin {"check", "serve"}
    BY <1>14 DEF Sweep, Goto, Finish
  <2>2. ASSUME NEW q \in Procs, q # p PROVE SameCheck(q)
    BY <1>14, <2>2 DEF SameCheck, Sweep, Goto, Finish
  <2> QED
    BY <2>1, <2>2, OthersChecked
<1>15. ASSUME NEW p \in Procs, Open(p) PROVE CheckedSoFar'
  <2>1. ASSUME NEW q \in Procs, q # p PROVE SameCheck(q)
    BY <1>15, <2>1 DEF SameCheck, Open, Goto, BeginLoop, Finish, files
  <2>2. CASE pc'[p] # "check"
    <3>1. pc'[p] \notin {"check", "serve"}
      BY <1>15, <2>2 DEF Open, Goto, BeginLoop, Finish
    <3> QED
      BY <2>1, <3>1, OthersChecked
  <2>3. CASE pc'[p] = "check"
    <3>1. /\ handle'[p] = active /\ active \in Inodes
          /\ begun'[p] = ws /\ todo'[p] = Files /\ disk' = disk
      BY <1>15, <2>3 DEF Open, Goto, BeginLoop, Finish, files
    <3> QED
      BY <2>1, <2>3, <3>1 DEF CheckedSoFar, SameCheck
  <2> QED
    BY <2>2, <2>3
<1>16. ASSUME NEW p \in Procs, Verdict(p) PROVE CheckedSoFar'
  BY <1>16 DEF CheckedSoFar, Verdict, Goto, Finish, files
<1>17. ASSUME NEW p \in Procs, Serve(p) PROVE CheckedSoFar'
  <2>1. pc'[p] \notin {"check", "serve"}
    BY <1>17 DEF Serve, Goto, Finish, files
  <2>2. ASSUME NEW q \in Procs, q # p PROVE SameCheck(q)
    BY <1>17, <2>2 DEF SameCheck, Serve, Goto, Finish, files
  <2> QED
    BY <2>1, <2>2, OthersChecked
<1>18. ASSUME NEW p \in Procs, NEW f \in Files, IndexOne(p, f)
       PROVE  CheckedSoFar'
  <2>1. pc'[p] \notin {"check", "serve"}
    BY <1>18 DEF IndexOne, IndexFile
  <2>2. ASSUME NEW q \in Procs, q # p PROVE SameCheck(q)
    BY <1>18, <2>2 DEF SameCheck, IndexOne, IndexFile
  <2> QED
    BY <2>1, <2>2, OthersChecked
<1>19. ASSUME NEW p \in Procs, NEW f \in Files, VerifyFile(p, f)
       PROVE  CheckedSoFar'
  <2>1. pc'[p] \notin {"check", "serve"}
    BY <1>19 DEF VerifyFile, Compare, files
  <2>2. ASSUME NEW q \in Procs, q # p PROVE SameCheck(q)
    BY <1>19, <2>2 DEF SameCheck, VerifyFile, Compare, files
  <2> QED
    BY <2>1, <2>2, OthersChecked
<1>20. ASSUME NEW p \in Procs, NEW f \in Files, CheckFile(p, f)
       PROVE  CheckedSoFar'
  <2>1. ASSUME NEW q \in Procs, q # p PROVE SameCheck(q)
    BY <1>20, <2>1 DEF SameCheck, CheckFile, Compare, files
  <2>2. /\ UNCHANGED <<pc, handle, disk, begun>>
        /\ pc[p] = "check"
        /\ todo'[p] = todo[p] \ {f}
        /\ drift'[p] = (drift[p] \/ disk[handle[p]].content[f] # ws[f])
    BY <1>20 DEF CheckFile, Compare, files
  <2>3. /\ handle[p] \in Inodes
        /\ disk[handle[p]].content[f] \in Nat /\ ws[f] \in Nat /\ begun[p][f] \in Nat
    BY <2>2 DEF IndexFile
  <2>4. ~drift'[p] => disk[handle[p]].content[f] = begun[p][f]
    <3>1. disk[handle[p]].content[f] <= begun[p][f]
      BY <2>2 DEF CheckedSoFar
    <3>2. begun[p][f] <= ws[f]
      OBVIOUS
    <3>3. ~drift'[p] => disk[handle[p]].content[f] = ws[f]
      BY <2>2
    <3> QED
      BY <2>3, <3>1, <3>2, <3>3, Squeeze
  <2>5. \A g \in Files : g \notin todo'[p] => g = f \/ g \notin todo[p]
    BY <2>2
  <2>6. ~drift'[p] => ~drift[p]
    BY <2>2
  <2>7. pc'[p] = "check" /\ \A g \in Files :
           /\ disk'[handle'[p]].content[g] <= begun'[p][g]
           /\ ~drift'[p] /\ g \notin todo'[p] =>
                 disk'[handle'[p]].content[g] = begun'[p][g]
    BY <2>2, <2>4, <2>5, <2>6, Zenon DEF CheckedSoFar
  <2> QED
    BY <2>1, <2>7, CheckingGoesOn
<1>21. ASSUME NEW p \in Procs, IndexFails(p) \/ Unclean(p) PROVE CheckedSoFar'
  <2>1. pc'[p] \notin {"check", "serve"}
    BY <1>21 DEF IndexFails, Unclean, GiveUp, Finish, Goto
  <2>2. ASSUME NEW q \in Procs, q # p PROVE SameCheck(q)
    BY <1>21, <2>2 DEF SameCheck, IndexFails, Unclean, GiveUp, Finish, Goto
  <2> QED
    BY <2>1, <2>2, OthersChecked
<1>22. ASSUME NEW p \in Procs, Abandon(p) PROVE CheckedSoFar'
  <2>1. pc'[p] \notin {"check", "serve"}
    BY <1>22 DEF Abandon, Finish, Goto, files
  <2>2. ASSUME NEW q \in Procs, q # p PROVE SameCheck(q)
    BY <1>22, <2>2 DEF SameCheck, Abandon, Finish, Goto, files
  <2> QED
    BY <2>1, <2>2, OthersChecked
<1>23. CASE UNCHANGED vars
  BY <1>23 DEF CheckedSoFar, vars, files, work
<1> QED
  BY <1>1, <1>2, <1>3, <1>4, <1>5, <1>6, <1>7, <1>8, <1>9, <1>10, <1>11, <1>12,
     <1>13, <1>14, <1>15, <1>16, <1>17, <1>18, <1>19, <1>20, <1>21, <1>22, <1>23
  DEF Next, Step

-----------------------------------------------------------------------------
(* The theorems. *)

\* Only damage, the seeding of a snapshot and its construction write an index.
LEMMA DiskWriters ==
  ASSUME [Next]_vars
  PROVE  disk' = disk \/ Corrupt \/ (\E p \in Procs : Seed(p))
            \/ \E p \in Procs, f \in Files : IndexOne(p, f)
<1>1. CASE UNCHANGED vars
  BY <1>1 DEF vars, files
<1>2. CASE \E f \in Files : Edit(f) \/ Revert(f)
  BY <1>2 DEF Edit, Revert, files
<1>3. ASSUME NEW p \in Procs,
             \/ StartIndex(p) \/ StartQuery(p) \/ Abandon(p) \/ IndexFails(p)
             \/ Unclean(p) \/ Lock(p) \/ Gate(p) \/ Clean(p)
      PROVE  disk' = disk
  BY <1>3 DEF StartIndex, StartQuery, Abandon, IndexFails, Unclean, Lock, Gate,
              Clean, files
<1>4. ASSUME NEW p \in Procs,
             \/ BeginVerify(p) \/ Verified(p) \/ Prepare(p) \/ Publish(p) \/ Sweep(p)
             \/ Open(p) \/ Verdict(p) \/ Serve(p)
             \/ \E f \in Files : VerifyFile(p, f) \/ CheckFile(p, f)
      PROVE  disk' = disk
  BY <1>4 DEF BeginVerify, Verified, Prepare, Publish, Sweep, Open, Verdict, Serve,
              VerifyFile, CheckFile, Compare, files
<1> QED
  BY <1>1, <1>2, <1>3, <1>4 DEF Next, Step

\* Only quarantine and publication change what is at graph.db.
LEMMA ActiveWriters ==
  ASSUME [Next]_vars
  PROVE  active' = active \/ \E p \in Procs : Prepare(p) \/ Publish(p)
<1>1. CASE UNCHANGED vars
  BY <1>1 DEF vars, files
<1>2. CASE Corrupt \/ \E f \in Files : Edit(f) \/ Revert(f)
  BY <1>2 DEF Corrupt, Edit, Revert, files
<1>3. ASSUME NEW p \in Procs,
             \/ StartIndex(p) \/ StartQuery(p) \/ Abandon(p) \/ IndexFails(p)
             \/ Unclean(p) \/ Lock(p) \/ Gate(p) \/ Clean(p) \/ Seed(p)
      PROVE  active' = active
  BY <1>3 DEF StartIndex, StartQuery, Abandon, IndexFails, Unclean, Lock, Gate,
              Clean, Seed, files
<1>4. ASSUME NEW p \in Procs,
             \/ BeginVerify(p) \/ Verified(p) \/ Sweep(p) \/ Open(p) \/ Verdict(p)
             \/ Serve(p)
             \/ \E f \in Files : IndexOne(p, f) \/ VerifyFile(p, f) \/ CheckFile(p, f)
      PROVE  active' = active
  BY <1>4 DEF BeginVerify, Verified, Sweep, Open, Verdict, Serve, IndexOne,
              VerifyFile, CheckFile, Compare, files
<1> QED
  BY <1>1, <1>2, <1>3, <1>4 DEF Next, Step

\* Only Serve answers "fresh".
LEMMA FreshAnswers ==
  ASSUME TypeOK, [Next]_vars, NEW p \in Procs,
         answer[p] # "fresh", answer'[p] = "fresh"
  PROVE  Serve(p)
<1> USE DEF TypeOK
<1>1. ASSUME NEW f \in Files, Edit(f) PROVE FALSE
  BY <1>1 DEF Edit, files, work
<1>2. ASSUME NEW f \in Files, Revert(f) PROVE FALSE
  BY <1>2 DEF Revert, work
<1>3. ASSUME Corrupt PROVE FALSE
  BY <1>3 DEF Corrupt, work, IndexFile
<1>4. ASSUME NEW q \in Procs, StartIndex(q) PROVE FALSE
  BY <1>4 DEF StartIndex, Goto, files
<1>5. ASSUME NEW q \in Procs, StartQuery(q) PROVE FALSE
  BY <1>5 DEF StartQuery, Goto, files
<1>6. ASSUME NEW q \in Procs, Lock(q) PROVE FALSE
  BY <1>6 DEF Lock, Goto, Finish, files
<1>7. ASSUME NEW q \in Procs, Gate(q) PROVE FALSE
  BY <1>7 DEF Gate, Goto, Finish, GiveUp, files
<1>8. ASSUME NEW q \in Procs, Clean(q) PROVE FALSE
  BY <1>8 DEF Clean, Goto
<1>9. ASSUME NEW q \in Procs, Seed(q) PROVE FALSE
  BY <1>9 DEF Seed, Goto, BeginLoop, Free, NoIndex, Usable, IndexFile
<1>10. ASSUME NEW q \in Procs, BeginVerify(q) PROVE FALSE
  BY <1>10 DEF BeginVerify, Goto, BeginLoop, files
<1>11. ASSUME NEW q \in Procs, Verified(q) PROVE FALSE
  BY <1>11 DEF Verified, Goto, GiveUp, Finish
<1>12. ASSUME NEW q \in Procs, Prepare(q) PROVE FALSE
  BY <1>12 DEF Prepare, Goto, Usable
<1>13. ASSUME NEW q \in Procs, Publish(q) PROVE FALSE
  BY <1>13 DEF Publish, Goto
<1>14. ASSUME NEW q \in Procs, Sweep(q) PROVE FALSE
  BY <1>14 DEF Sweep, Goto, Finish
<1>15. ASSUME NEW q \in Procs, Open(q) PROVE FALSE
  BY <1>15 DEF Open, Goto, BeginLoop, Finish, files
<1>16. ASSUME NEW q \in Procs, Verdict(q) PROVE FALSE
  BY <1>16 DEF Verdict, Goto, Finish, files
<1>17. ASSUME NEW q \in Procs, NEW f \in Files, IndexOne(q, f) PROVE FALSE
  BY <1>17 DEF IndexOne, IndexFile
<1>18. ASSUME NEW q \in Procs, NEW f \in Files, VerifyFile(q, f) PROVE FALSE
  BY <1>18 DEF VerifyFile, Compare, files
<1>19. ASSUME NEW q \in Procs, NEW f \in Files, CheckFile(q, f) PROVE FALSE
  BY <1>19 DEF CheckFile, Compare, files
<1>20. ASSUME NEW q \in Procs, IndexFails(q) \/ Unclean(q) PROVE FALSE
  BY <1>20 DEF IndexFails, Unclean, GiveUp, Finish, Goto
<1>21. ASSUME NEW q \in Procs, Abandon(q) PROVE FALSE
  BY <1>21 DEF Abandon, Finish, Goto, files
<1>22. ASSUME NEW q \in Procs, Serve(q) PROVE Serve(p)
  BY <1>22 DEF Serve, Goto, Finish
<1>23. CASE UNCHANGED vars
  BY <1>23 DEF vars, work
<1> QED
  BY <1>1, <1>2, <1>3, <1>4, <1>5, <1>6, <1>7, <1>8, <1>9, <1>10, <1>11, <1>12,
     <1>13, <1>14, <1>15, <1>16, <1>17, <1>18, <1>19, <1>20, <1>21, <1>22, <1>23
  DEF Next, Step

Safe == TypeOK /\ Structure /\ Newer

\* The invariant that needs no assumption on the edits.
LEMMA Safety == Spec => []Safe
<1>1. Init => Safe
  <2>1. Init => TypeOK
    BY SnapshotAssumption
    DEF Init, TypeOK, NoIndex, IndexFile, Workspace, Labels, Kinds, Answers
  <2>2. Init => Structure /\ Newer
    BY SnapshotAssumption
    DEF Init, Structure, Exclusive, LiveTempKept, OneTemp, Apart, Swept, Opened,
        FirstUse, Newer, Writing, Building
  <2> QED
    BY <2>1, <2>2 DEF Safe
<1>2. Safe /\ [Next]_vars => Safe'
  BY TypeStep, StructureStep, NewerStep DEF Safe
<1> QED
  BY <1>1, <1>2, PTL DEF Spec

\* While a run builds its snapshot no other run's cleanup removes it
\* (cleanup_stale_snapshot_artifacts under the writer lock).
THEOREM LiveTempKeptAlways == Spec => []LiveTempKept
<1>1. Safe => LiveTempKept
  BY DEF Safe, Structure
<1> QED
  BY <1>1, Safety, PTL

\* Crashed and failed runs never accumulate: there is at most one graph.db.next
\* file (cleanup_stale_snapshot_artifacts before every attempt).
THEOREM OneTempAlways == Spec => []OneTemp
<1>1. Safe => OneTemp
  BY DEF Safe, Structure
<1> QED
  BY <1>1, Safety, PTL

\* No step of any process changes the graph of an index that a query has open
\* (the snapshot is built in a file of its own and published by rename).
THEOREM HandlesAreImmutable == Spec => HandleImmutable
<1> DEFINE Kept == \A p \in Procs : handle[p] # None /\ handle'[p] = handle[p] =>
                     /\ disk'[handle[p]].content = disk[handle[p]].content
                     /\ disk'[handle[p]].gen = disk[handle[p]].gen
<1>1. Safe /\ [Next]_vars => Kept
  <2> SUFFICES ASSUME Safe, [Next]_vars PROVE Kept
    OBVIOUS
  <2> USE DEF Safe, Structure, LiveTempKept, Apart, TypeOK
  <2>1. ASSUME Corrupt PROVE Kept
    BY <2>1 DEF Corrupt, IndexFile
  <2>2. ASSUME NEW p \in Procs, Seed(p) PROVE Kept
    BY <2>2 DEF Seed, Free
  <2>3. ASSUME NEW p \in Procs, NEW f \in Files, IndexOne(p, f) PROVE Kept
    BY <2>3 DEF IndexOne, Building
  <2>4. CASE disk' = disk
    BY <2>4
  <2>5. disk' = disk \/ Corrupt \/ (\E p \in Procs : Seed(p))
            \/ \E p \in Procs, f \in Files : IndexOne(p, f)
    BY DiskWriters
  <2> QED
    BY <2>1, <2>2, <2>3, <2>4, <2>5
<1>2. Spec => [][Kept]_vars
  BY <1>1, Safety, PTL DEF Spec
<1> QED
  BY <1>2, PTL DEF HandleImmutable

\* An index that replaces another one is of a later generation
\* (bump_generation on a copy of the index that is replaced).
THEOREM GenerationsGrow == Spec => GenerationGrows
<1> DEFINE Grows == active # active' /\ active # None /\ active' # None =>
                      disk'[active'].gen > disk[active].gen
<1>1. Safe /\ [Next]_vars => Grows
  <2> SUFFICES ASSUME Safe, [Next]_vars PROVE Grows
    OBVIOUS
  <2>1. ASSUME NEW p \in Procs, Prepare(p) PROVE Grows
    BY <2>1 DEF Prepare
  <2>2. ASSUME NEW p \in Procs, Publish(p) PROVE Grows
    BY <2>2 DEF Publish, Safe, Newer, Building
  <2>3. CASE active' = active
    BY <2>3
  <2>4. \/ active' = active
        \/ \E p \in Procs : Prepare(p) \/ Publish(p)
    BY ActiveWriters
  <2> QED
    BY <2>1, <2>2, <2>3, <2>4
<1>2. Spec => [][Grows]_vars
  BY <1>1, Safety, PTL DEF Spec
<1> QED
  BY <1>2 DEF GenerationGrows

\* The index built on first use never replaces a store: the store is looked for
\* again under the writer lock (try_auto_index_inline).
THEOREM FirstUseIsFirst == Spec => FirstUseReplacesNothing
<1> DEFINE First == \A p \in Procs :
              pc[p] = "publish" /\ kind[p] = "auto" /\ active' # active => active = None
<1>1. Safe /\ [Next]_vars => First
  BY DEF Safe, Structure, FirstUse, Writing
<1>2. Spec => [][First]_vars
  BY <1>1, Safety, PTL DEF Spec
<1> QED
  BY <1>2 DEF FirstUseReplacesNothing

Current == Safe /\ Behind /\ VerifiedSoFar /\ CheckedSoFar

\* The invariant behind both comparisons.
LEMMA Currency == ASSUME ~Reverts PROVE Spec => []Current
<1>1. Init => Behind /\ VerifiedSoFar /\ CheckedSoFar
  BY DEF Init, Behind, VerifiedSoFar, CheckedSoFar, NoIndex
<1>2. Current /\ [Next]_vars => Behind' /\ VerifiedSoFar' /\ CheckedSoFar'
  BY BehindStep, VerifiedStep, CheckedStep DEF Current, Safe
<1>3. Current <=> Safe /\ Behind /\ VerifiedSoFar /\ CheckedSoFar
  BY DEF Current
<1> QED
  BY <1>1, <1>2, <1>3, Safety, PTL DEF Spec

\* If edits never restore an earlier version, rows served as fresh come from an
\* index that equals the whole workspace of one instant after the query began
\* (compute_file_diff reads the files one after the other).
THEOREM FreshIsCurrent == ASSUME ~Reverts PROVE Spec => FreshMeansCurrent
<1> DEFINE Fresh == \A p \in Procs : answer[p] # "fresh" /\ answer'[p] = "fresh" =>
                      disk[handle[p]].content = begun[p]
<1>1. Current /\ [Next]_vars => Fresh
  <2> SUFFICES ASSUME Current, [Next]_vars, NEW p \in Procs,
                      answer[p] # "fresh", answer'[p] = "fresh"
               PROVE  disk[handle[p]].content = begun[p]
    OBVIOUS
  <2>1. Serve(p)
    BY FreshAnswers DEF Current, Safe
  <2>2. pc[p] = "serve" /\ handle[p] \in Inodes
    BY <2>1 DEF Serve, Current, Safe, Structure, Opened
  <2>3. disk[handle[p]].content \in [Files -> Nat] /\ begun[p] \in [Files -> Nat]
    BY <2>2 DEF Current, Safe, TypeOK, IndexFile, Workspace
  <2>4. \A f \in Files : disk[handle[p]].content[f] = begun[p][f]
    BY <2>2 DEF Current, CheckedSoFar
  <2> QED
    BY <2>3, <2>4
<1>2. Spec => [][Fresh]_vars
  BY <1>1, Currency, PTL DEF Spec
<1> QED
  BY <1>2 DEF FreshMeansCurrent

\* If edits never restore an earlier version, what readers find at graph.db
\* implements AtomicSnapshot: every published index is the whole workspace of
\* the instant at which its verification began, and no index is older than the
\* one it replaces.
THEOREM Refinement == ASSUME ~Reverts PROVE Spec => ImplementsAtomicSnapshot
<1>1. Init => Abstract!Init
  BY DEF Init, Abstract!Init, Abstract!Workspace, Published, Usable
<1>2. Current /\ [Next]_vars => [Abstract!Next]_(Abstract!vars)
  <2> SUFFICES ASSUME Current, [Next]_vars PROVE [Abstract!Next]_(Abstract!vars)
    OBVIOUS
  <2> USE DEF Abstract!Next, Abstract!vars
  <2>1. ASSUME NEW f \in Files, Edit(f) PROVE Abstract!Edit
    BY <2>1 DEF Edit, Abstract!Edit, Published, Usable, files
  <2>2. ASSUME NEW p \in Procs, BeginVerify(p) PROVE Abstract!Capture
    BY <2>2 DEF BeginVerify, Abstract!Capture, Published, Usable, files
  <2>3. ASSUME NEW p \in Procs, Publish(p)
        PROVE  Abstract!Publish \/ Abstract!Lose
    <3>1. /\ temp[p] \in Inodes /\ active' = temp[p] /\ pc[p] = "publish"
          /\ UNCHANGED <<ws, cut, disk>>
      BY <2>3 DEF Publish, Current, Safe, TypeOK
    <3>2. disk[temp[p]].content \in [Files -> Nat] /\ cut \in [Files -> Nat]
      BY <3>1 DEF Current, Safe, TypeOK, IndexFile, Workspace
    <3>3. \A f \in Files : disk[temp[p]].content[f] = cut[f]
      BY <3>1 DEF Current, VerifiedSoFar
    <3>4. disk[temp[p]].content = cut
      BY <3>2, <3>3
    <3> QED
      BY <3>1, <3>4 DEF Abstract!Publish, Abstract!Lose, Published, Usable
  <2>4. ASSUME Corrupt PROVE Abstract!Lose
    BY <2>4 DEF Corrupt, Abstract!Lose, Published, Usable, Current, Safe, TypeOK,
                IndexFile
  <2>5. ASSUME NEW p \in Procs, Prepare(p) PROVE UNCHANGED Abstract!vars
    BY <2>5 DEF Prepare, Published, Usable
  <2>6. ASSUME NEW p \in Procs, Seed(p) PROVE UNCHANGED Abstract!vars
    BY <2>6 DEF Seed, Free, Published, Usable, Current, Safe, TypeOK
  <2>7. ASSUME NEW p \in Procs, NEW f \in Files, IndexOne(p, f)
        PROVE  UNCHANGED Abstract!vars
    BY <2>7 DEF IndexOne, Published, Usable, Current, Safe, TypeOK, Structure,
                LiveTempKept, Apart, Building
  <2>8. CASE UNCHANGED <<ws, cut, disk, active>>
    BY <2>8 DEF Published, Usable
  <2>9. \/ UNCHANGED <<ws, cut, disk, active>>
        \/ Corrupt
        \/ \E f \in Files : Edit(f)
        \/ \E p \in Procs : \/ BeginVerify(p) \/ Publish(p) \/ Prepare(p) \/ Seed(p)
                             \/ \E f \in Files : IndexOne(p, f)
    BY DEF Next, Step, Revert, StartIndex, StartQuery, Lock, Gate, Clean,
           VerifyFile, CheckFile, Compare, Verified, Sweep, Open, Verdict, Serve,
           IndexFails, Unclean, Abandon, files, vars
  <2> QED
    BY <2>1, <2>2, <2>3, <2>4, <2>5, <2>6, <2>7, <2>8, <2>9
<1> QED
  BY <1>1, <1>2, Currency, PTL DEF Spec, ImplementsAtomicSnapshot, Abstract!Spec
=============================================================================

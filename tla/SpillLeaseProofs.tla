--------------------------- MODULE SpillLeaseProofs ---------------------------
(***************************************************************************)
(* The lease on a managed spill directory, for every set of processes,      *)
(* paths and directories and any number of outside interferences.           *)
(*                                                                         *)
(* The argument: an entry with a lease is a holder of the locked            *)
(* description and carries the pid of the directory's maker; a removal      *)
(* either is the only holder (a sweep) or is run by the maker after its     *)
(* entry left the registry (a cleanup).  A live owner is a holder and the   *)
(* maker, so it excludes both.                                              *)
(***************************************************************************)
EXTENDS SpillLease, TLAPS

\* An entry keeps a lease only while its process runs, holds the lock and
\* has the maker's pid.
LeaseHeld ==
  \A q \in Procs : lease[q] # None =>
    /\ pc[q] # "dead"
    /\ path[q] # None
    /\ q \in locked[lease[q]]
    /\ maker[lease[q]] = owner[q]

\* A process that creates the directory is its maker and has no lease yet.
CreatorIsMaker ==
  \A p \in Procs :
    /\ pc[p] \in Creating => path[p] # None /\ owner[p] = p /\ lease[p] = None
    /\ pc[p] \in Creating \ {"mkdir"} =>
         work[p] \in Dirs /\ maker[work[p]] = p
    /\ pc[p] \in {"locked", "written"} => p \in locked[work[p]]
    /\ pc[p] \in Opening =>
         work[p] \in Dirs /\ lease[p] = work[p] /\ owner[p] = p

\* A removal is by the only holder of the lock, or by the maker; it is not
\* covered by a lease in the registry any more.
HoldsFor(p) ==
  /\ pc[p] \in Probing \cup Removing => work[p] \in Dirs /\ loc[work[p]] # "new"
  /\ pc[p] = "probed" => locked[work[p]] = {p}
  /\ pc[p] \in Removing => p \in locked[work[p]]
  /\ pc[p] \in Removing => locked[work[p]] = {p} \/ maker[work[p]] = p
  /\ pc[p] \in Removing \cup {"probed"} => lease[p] # work[p]

RemoverHolds == \A p \in Procs : HoldsFor(p)

\* An inode that was never used has no history, and no entries.
NewIsClean == \A d \in Dirs : loc[d] = "new" => maker[d] = None /\ locked[d] = {}

NewIsEmpty == \A d \in Dirs : loc[d] = "new" => files[d] = Nothing

\* A preflight lists only what looks like a trace.
ScanLooks ==
  \A p \in Procs, n \in Names : scan[p][n] # None => LooksLikeTrace(n, scan[p][n])

\* The name a removal is about to unlink leads to what the preflight listed
\* under it, unless something outside put another file there since the check.
CheckedFor(p) ==
  /\ pc[p] = "unlink" =>
       /\ work[p] \in Dirs
       /\ target[p] \in Names
       /\ scan[p][target[p]] # None
       /\ late[p] \/ files[work[p]][target[p]] = scan[p][target[p]]
  /\ late[p] => pc[p] = "unlink"

Checked == \A p \in Procs : CheckedFor(p)

IInv ==
  /\ TypeOK
  /\ LeaseHeld
  /\ CreatorIsMaker
  /\ RemoverHolds
  /\ NewIsClean
  /\ NewIsEmpty
  /\ ScanLooks
  /\ Checked
  /\ WritesStayAnchored

-----------------------------------------------------------------------------
(* The types, without and with those of the entries.                         *)
BaseTypes ==
  /\ pc \in [Procs -> {"dead", "idle", "stuck"} \cup Creating \cup Opening
                        \cup Probing \cup Removing]
  /\ path \in [Procs -> Paths \cup {None}]
  /\ owner \in [Procs -> Procs \cup {None}]
  /\ lease \in [Procs -> Dirs \cup {None}]
  /\ work \in [Procs -> Dirs \cup {None}]
  /\ home \in [Dirs -> Paths \cup {None}]
  /\ loc \in [Dirs -> {"new", "home", "aside", "gone"}]
  /\ maker \in [Dirs -> Procs \cup {None}]
  /\ marker \in [Dirs -> {"none", "empty", "format", "unlinked"}]
  /\ locked \in [Dirs -> SUBSET Procs]
  /\ old \in [Dirs -> BOOLEAN]
  /\ moves \in 0..MaxMoves

EntryTypes ==
  /\ scan \in [Procs -> [Names -> Files \cup {None}]]
  /\ target \in [Procs -> Names \cup {None}]
  /\ late \in [Procs -> BOOLEAN]
  /\ files \in [Dirs -> [Names -> Files \cup {None}]]

LEMMA SplitTypes == /\ TypeOK <=> BaseTypes /\ EntryTypes
                    /\ TypeOK' <=> BaseTypes' /\ EntryTypes'
BY DEF TypeOK, BaseTypes, EntryTypes

(* What giving up and finishing do, besides to the entries.                 *)
LEMMA Ending ==
  ASSUME NEW p \in Procs
  PROVE  /\ Finish(p) => /\ pc' = [pc EXCEPT ![p] = "idle"]
                         /\ work' = [work EXCEPT ![p] = None]
         /\ GiveUp(p) => /\ pc' = [pc EXCEPT ![p] = "idle"]
                         /\ work' = [work EXCEPT ![p] = None]
                         /\ locked' = [locked EXCEPT ![work[p]] = @ \ {p}]
                         /\ UNCHANGED <<home, loc, marker, files, old>>
BY DEF Finish, GiveUp, Release

(* No name leads anywhere.                                                  *)
LEMMA NothingTyped ==
  /\ Nothing \in [Names -> Files \cup {None}]
  /\ \A n \in Names : Nothing[n] = None
  /\ "trace" \in Names /\ "stray" \in Names /\ "other" \in Names
  /\ Procs \subseteq Files /\ Strangers \subseteq Files
BY DEF Nothing, Names, Files

(* Everything is one kind of thing only.                                    *)
LEMMA Kinds ==
  /\ None \notin Files /\ None \notin Procs /\ None \notin Dirs
  /\ \A x \in Strangers : x \notin Procs
BY LeaseAssumption DEF Files, Strangers

(* Every action keeps the types.                                           *)
LEMMA BaseNext ==
  ASSUME IInv, [Next]_vars
  PROVE  BaseTypes'
<1> USE LeaseAssumption DEF BaseTypes, vars, procVars, dirVars, Creating, Opening, Probing, Removing
<1>0. BaseTypes
  BY SplitTypes DEF IInv
<1>1. ASSUME NEW p \in Procs, Start(p) PROVE BaseTypes'
  BY <1>1, <1>0 DEF Start, Goto
<1>2. ASSUME NEW p \in Procs, Die(p) PROVE BaseTypes'
  BY <1>2, <1>0 DEF Die
<1>3. ASSUME NEW p \in Procs, NEW c \in Procs, Fork(p, c) PROVE BaseTypes'
  BY <1>3, <1>0 DEF Fork
<1>4. ASSUME NEW p \in Procs, NEW s \in Paths, Prepare(p, s) PROVE BaseTypes'
  BY <1>4, <1>0 DEF Prepare
<1>5. ASSUME NEW p \in Procs, OpenSpill(p) PROVE BaseTypes'
  <2>1. CASE lease[p] = None
    BY <1>5, <2>1, <1>0 DEF OpenSpill, Goto, Identity, InPlace
  <2>2. CASE ~(lease[p] = None)
    BY <1>5, <2>2, <1>0 DEF OpenSpill, Goto, Identity, InPlace
  <2> QED BY <2>1, <2>2
<1>6. ASSUME NEW p \in Procs, NEW d \in Dirs, MakeDir(p, d) PROVE BaseTypes'
  BY <1>6, <1>0 DEF MakeDir, Goto
<1>7. ASSUME NEW p \in Procs, MakeMarker(p) PROVE BaseTypes'
  BY <1>7, <1>0 DEF MakeMarker, Goto
<1>8. ASSUME NEW p \in Procs, LockMarker(p) PROVE BaseTypes'
  BY <1>8, <1>0 DEF LockMarker, Goto
<1>9. ASSUME NEW p \in Procs, WriteMarker(p) PROVE BaseTypes'
  BY <1>9, <1>0 DEF WriteMarker, Goto
<1>10. ASSUME NEW p \in Procs, KeepLease(p) PROVE BaseTypes'
  BY <1>10, <1>0 DEF KeepLease, Goto
<1>11. ASSUME NEW p \in Procs, CreateFails(p) PROVE BaseTypes'
  <2>1. CASE pc[p] \in {"locked", "written"}
    BY <1>11, <2>1, <1>0, Ending DEF CreateFails, Release
  <2>2. CASE ~(pc[p] \in {"locked", "written"})
    BY <1>11, <2>2, <1>0, Ending DEF CreateFails, Release
  <2> QED BY <2>1, <2>2
<1>12. ASSUME NEW p \in Procs, CheckOpen(p) PROVE BaseTypes'
  <2>1. CASE Identity(work[p])
    BY <1>12, <2>1, <1>0, Ending DEF CheckOpen, Goto
  <2>2. CASE ~(Identity(work[p]))
    BY <1>12, <2>2, <1>0, Ending DEF CheckOpen, Goto
  <2> QED BY <2>1, <2>2
<1>13. ASSUME NEW p \in Procs, CreateFile(p) PROVE BaseTypes'
  BY <1>13, <1>0, Ending DEF CreateFile
<1>14. ASSUME NEW p \in Procs, Cleanup(p) PROVE BaseTypes'
  <2>1. CASE owner[p] = p /\ lease[p] # None
    BY <1>14, <2>1, <1>0 DEF Cleanup, Release, Goto
  <2>2. CASE ~(owner[p] = p /\ lease[p] # None)
    BY <1>14, <2>2, <1>0 DEF Cleanup, Release, Goto
  <2> QED BY <2>1, <2>2
<1>15. ASSUME NEW p \in Procs, NEW d \in Dirs, SweepOpen(p, d) PROVE BaseTypes'
  BY <1>15, <1>0 DEF SweepOpen, Identity, InPlace, Goto
<1>16. ASSUME NEW p \in Procs, SweepLock(p) PROVE BaseTypes'
  <2>1. CASE locked[work[p]] = {}
    <3>1. locked' \in [Dirs -> SUBSET Procs]
      BY <1>0, <1>16, <2>1 DEF SweepLock
    <3> QED
      BY <1>0, <1>16, <2>1, <3>1 DEF SweepLock, Goto
  <2>2. CASE ~(locked[work[p]] = {})
    <3>1. locked' \in [Dirs -> SUBSET Procs]
      BY <1>0, <1>16, <2>2 DEF SweepLock, Goto, Release
    <3>2. /\ pc' = [pc EXCEPT ![p] = "idle"]
          /\ work' = [work EXCEPT ![p] = None]
      BY <1>0, <1>16, <2>2, Ending DEF SweepLock, Goto
    <3> QED
      BY <1>0, <1>16, <2>2, <3>1, <3>2 DEF SweepLock, Goto
  <2> QED BY <2>1, <2>2
<1>17. ASSUME NEW p \in Procs, SweepCheck(p) PROVE BaseTypes'
  <2>1. CASE Sweepable(work[p])
    <3>1. locked' \in [Dirs -> SUBSET Procs]
      BY <1>0, <1>17, <2>1 DEF SweepCheck
    <3> QED
      BY <1>0, <1>17, <2>1, <3>1 DEF SweepCheck, Goto
  <2>2. CASE ~(Sweepable(work[p]))
    <3>1. locked' \in [Dirs -> SUBSET Procs]
      BY <1>0, <1>17, <2>2 DEF SweepCheck, Goto, Release
    <3>2. /\ pc' = [pc EXCEPT ![p] = "idle"]
          /\ work' = [work EXCEPT ![p] = None]
      BY <1>0, <1>17, <2>2, Ending DEF SweepCheck, Release, Goto
    <3> QED
      BY <1>0, <1>17, <2>2, <3>1, <3>2 DEF SweepCheck, Goto
  <2> QED BY <2>1, <2>2
<1>18. ASSUME NEW p \in Procs, BeginRemoval(p) PROVE BaseTypes'
  <2>1. CASE Identity(work[p])
    BY <1>18, <2>1, <1>0 DEF BeginRemoval, Goto
  <2>2. CASE ~(Identity(work[p]))
    BY <1>18, <2>2, <1>0, Ending DEF BeginRemoval
  <2> QED BY <2>1, <2>2
<1>19. ASSUME NEW p \in Procs, NEW n \in Names, ListEntry(p, n) PROVE BaseTypes'
  <2>1. CASE LooksLikeTrace(n, files[work[p]][n])
    BY <1>19, <2>1, <1>0 DEF ListEntry, Goto
  <2>2. CASE ~(LooksLikeTrace(n, files[work[p]][n]))
    BY <1>19, <2>2, <1>0, Ending DEF ListEntry
  <2> QED BY <2>1, <2>2
<1>20. ASSUME NEW p \in Procs, ListEnd(p) PROVE BaseTypes'
  BY <1>20, <1>0 DEF ListEnd, Goto
<1>21. ASSUME NEW p \in Procs, NEW n \in Names, CheckEntry(p, n) PROVE BaseTypes'
  <2>1. CASE Identity(work[p]) /\ files[work[p]][n] = scan[p][n]
    BY <1>21, <2>1, <1>0 DEF CheckEntry, Goto
  <2>2. CASE ~(Identity(work[p]) /\ files[work[p]][n] = scan[p][n])
    BY <1>21, <2>2, <1>0, Ending DEF CheckEntry
  <2> QED BY <2>1, <2>2
<1>22. ASSUME NEW p \in Procs, UnlinkEntry(p) PROVE BaseTypes'
  <2>1. CASE GiveUp(p)
    BY <1>22, <2>1, <1>0, Ending DEF UnlinkEntry
  <2>2. CASE ~(GiveUp(p))
    <3>1. /\ pc' = [pc EXCEPT ![p] = "delete"]
          /\ old' = [old EXCEPT ![work[p]] = FALSE]
          /\ UNCHANGED <<path, owner, lease, work, home, loc, maker, marker,
                         locked, moves>>
      BY <1>22, <2>2 DEF UnlinkEntry, Goto
    <3> QED BY <1>0, <3>1
  <2> QED BY <2>1, <2>2
<1>23. ASSUME NEW p \in Procs, CheckMarker(p) PROVE BaseTypes'
  <2>1. CASE Identity(work[p])
    BY <1>23, <2>1, <1>0 DEF CheckMarker, Goto
  <2>2. CASE ~(Identity(work[p]))
    BY <1>23, <2>2, <1>0, Ending DEF CheckMarker
  <2> QED BY <2>1, <2>2
<1>24. ASSUME NEW p \in Procs, Unmark(p) PROVE BaseTypes'
  BY <1>24, <1>0 DEF Unmark, Goto
<1>25. ASSUME NEW p \in Procs, RemoveDir(p) PROVE BaseTypes'
  BY <1>25, <1>0, Ending DEF RemoveDir, Release
<1>26. ASSUME NEW d \in Dirs, Age(d) PROVE BaseTypes'
  BY <1>26, <1>0 DEF Age
<1>27. ASSUME NEW d \in Dirs, MoveAside(d) PROVE BaseTypes'
  BY <1>27, <1>0 DEF MoveAside
<1>28. ASSUME NEW d \in Dirs, MoveBack(d) PROVE BaseTypes'
  BY <1>28, <1>0 DEF MoveBack
<1>29. ASSUME NEW d \in Dirs, NEW n \in Names, NEW x \in Strangers, Intrude(d, n, x) PROVE BaseTypes'
  BY <1>29, <1>0 DEF Intrude
<1>30. ASSUME NEW d \in Dirs, NEW s \in Paths, Occupy(d, s) PROVE BaseTypes'
  BY <1>30, <1>0 DEF Occupy
<1>31. CASE UNCHANGED vars
  BY <1>31, <1>0
<1> QED
  BY <1>1, <1>2, <1>3, <1>4, <1>5, <1>6, <1>7, <1>8, <1>9, <1>10, <1>11, <1>12, <1>13, <1>14, <1>15, <1>16, <1>17, <1>18, <1>19, <1>20, <1>21, <1>22, <1>23, <1>24, <1>25, <1>26, <1>27, <1>28, <1>29, <1>30, <1>31 DEF Next, Process, Outside

(* An entry's lease stays backed by the lock.                               *)
LEMMA LeaseHeldNext ==
  ASSUME IInv, BaseTypes, BaseTypes', [Next]_vars
  PROVE  LeaseHeld'
<1> USE LeaseAssumption DEF IInv, BaseTypes, LeaseHeld, CreatorIsMaker, NewIsClean, RemoverHolds, HoldsFor, vars, procVars, dirVars, Creating, Opening, Probing, Removing
<1>1. ASSUME NEW p \in Procs, Start(p) PROVE LeaseHeld'
  BY <1>1 DEF Start, Goto
<1>2. ASSUME NEW p \in Procs, Die(p) PROVE LeaseHeld'
  BY <1>2 DEF Die
<1>3. ASSUME NEW p \in Procs, NEW c \in Procs, Fork(p, c) PROVE LeaseHeld'
  BY <1>3 DEF Fork
<1>4. ASSUME NEW p \in Procs, NEW s \in Paths, Prepare(p, s) PROVE LeaseHeld'
  BY <1>4 DEF Prepare
<1>5. ASSUME NEW p \in Procs, OpenSpill(p) PROVE LeaseHeld'
  <2>1. CASE lease[p] = None
    BY <1>5, <2>1 DEF OpenSpill, Goto, Identity, InPlace
  <2>2. CASE ~(lease[p] = None)
    BY <1>5, <2>2 DEF OpenSpill, Goto, Identity, InPlace
  <2> QED BY <2>1, <2>2
<1>6. ASSUME NEW p \in Procs, NEW d \in Dirs, MakeDir(p, d) PROVE LeaseHeld'
  BY <1>6 DEF MakeDir, Goto
<1>7. ASSUME NEW p \in Procs, MakeMarker(p) PROVE LeaseHeld'
  BY <1>7 DEF MakeMarker, Goto
<1>8. ASSUME NEW p \in Procs, LockMarker(p) PROVE LeaseHeld'
  BY <1>8 DEF LockMarker, Goto
<1>9. ASSUME NEW p \in Procs, WriteMarker(p) PROVE LeaseHeld'
  BY <1>9 DEF WriteMarker, Goto
<1>10. ASSUME NEW p \in Procs, KeepLease(p) PROVE LeaseHeld'
  BY <1>10 DEF KeepLease, Goto
<1>11. ASSUME NEW p \in Procs, CreateFails(p) PROVE LeaseHeld'
  <2>1. CASE pc[p] \in {"locked", "written"}
    BY <1>11, <2>1, Ending DEF CreateFails, Release
  <2>2. CASE ~(pc[p] \in {"locked", "written"})
    BY <1>11, <2>2, Ending DEF CreateFails, Release
  <2> QED BY <2>1, <2>2
<1>12. ASSUME NEW p \in Procs, CheckOpen(p) PROVE LeaseHeld'
  <2>1. CASE Identity(work[p])
    BY <1>12, <2>1, Ending DEF CheckOpen, Goto
  <2>2. CASE ~(Identity(work[p]))
    BY <1>12, <2>2, Ending DEF CheckOpen, Goto
  <2> QED BY <2>1, <2>2
<1>13. ASSUME NEW p \in Procs, CreateFile(p) PROVE LeaseHeld'
  BY <1>13, Ending DEF CreateFile
<1>14. ASSUME NEW p \in Procs, Cleanup(p) PROVE LeaseHeld'
  <2>1. CASE owner[p] = p /\ lease[p] # None
    BY <1>14, <2>1 DEF Cleanup, Release, Goto
  <2>2. CASE ~(owner[p] = p /\ lease[p] # None)
    BY <1>14, <2>2, SMTT(30) DEF Cleanup, Release, Goto
  <2> QED BY <2>1, <2>2
<1>15. ASSUME NEW p \in Procs, NEW d \in Dirs, SweepOpen(p, d) PROVE LeaseHeld'
  BY <1>15 DEF SweepOpen, Identity, InPlace, Goto
<1>16. ASSUME NEW p \in Procs, SweepLock(p) PROVE LeaseHeld'
  <2>1. CASE locked[work[p]] = {}
    BY <1>16, <2>1, Ending DEF SweepLock, Goto
  <2>2. CASE ~(locked[work[p]] = {})
    BY <1>16, <2>2, Ending DEF SweepLock, Goto
  <2> QED BY <2>1, <2>2
<1>17. ASSUME NEW p \in Procs, SweepCheck(p) PROVE LeaseHeld'
  <2>1. CASE Sweepable(work[p])
    BY <1>17, <2>1, Ending DEF SweepCheck, Release, Goto
  <2>2. CASE ~(Sweepable(work[p]))
    BY <1>17, <2>2, Ending DEF SweepCheck, Release, Goto
  <2> QED BY <2>1, <2>2
<1>18. ASSUME NEW p \in Procs, BeginRemoval(p) PROVE LeaseHeld'
  <2>1. CASE Identity(work[p])
    BY <1>18, <2>1 DEF BeginRemoval, Goto
  <2>2. CASE ~(Identity(work[p]))
    BY <1>18, <2>2, Ending DEF BeginRemoval
  <2> QED BY <2>1, <2>2
<1>19. ASSUME NEW p \in Procs, NEW n \in Names, ListEntry(p, n) PROVE LeaseHeld'
  <2>1. CASE LooksLikeTrace(n, files[work[p]][n])
    BY <1>19, <2>1 DEF ListEntry, Goto
  <2>2. CASE ~(LooksLikeTrace(n, files[work[p]][n]))
    BY <1>19, <2>2, Ending DEF ListEntry
  <2> QED BY <2>1, <2>2
<1>20. ASSUME NEW p \in Procs, ListEnd(p) PROVE LeaseHeld'
  BY <1>20 DEF ListEnd, Goto
<1>21. ASSUME NEW p \in Procs, NEW n \in Names, CheckEntry(p, n) PROVE LeaseHeld'
  <2>1. CASE Identity(work[p]) /\ files[work[p]][n] = scan[p][n]
    BY <1>21, <2>1 DEF CheckEntry, Goto
  <2>2. CASE ~(Identity(work[p]) /\ files[work[p]][n] = scan[p][n])
    BY <1>21, <2>2, Ending DEF CheckEntry
  <2> QED BY <2>1, <2>2
<1>22. ASSUME NEW p \in Procs, UnlinkEntry(p) PROVE LeaseHeld'
  <2>1. CASE GiveUp(p)
    BY <1>22, <2>1, Ending DEF UnlinkEntry
  <2>2. CASE ~(GiveUp(p))
    BY <1>22, <2>2 DEF UnlinkEntry, Goto
  <2> QED BY <2>1, <2>2
<1>23. ASSUME NEW p \in Procs, CheckMarker(p) PROVE LeaseHeld'
  <2>1. CASE Identity(work[p])
    BY <1>23, <2>1 DEF CheckMarker, Goto
  <2>2. CASE ~(Identity(work[p]))
    BY <1>23, <2>2, Ending DEF CheckMarker
  <2> QED BY <2>1, <2>2
<1>24. ASSUME NEW p \in Procs, Unmark(p) PROVE LeaseHeld'
  BY <1>24 DEF Unmark, Goto
<1>25. ASSUME NEW p \in Procs, RemoveDir(p) PROVE LeaseHeld'
  BY <1>25, Ending DEF RemoveDir, Release
<1>26. ASSUME NEW d \in Dirs, Age(d) PROVE LeaseHeld'
  BY <1>26 DEF Age
<1>27. ASSUME NEW d \in Dirs, MoveAside(d) PROVE LeaseHeld'
  BY <1>27 DEF MoveAside
<1>28. ASSUME NEW d \in Dirs, MoveBack(d) PROVE LeaseHeld'
  BY <1>28 DEF MoveBack
<1>29. ASSUME NEW d \in Dirs, NEW n \in Names, NEW x \in Strangers, Intrude(d, n, x) PROVE LeaseHeld'
  BY <1>29 DEF Intrude
<1>30. ASSUME NEW d \in Dirs, NEW s \in Paths, Occupy(d, s) PROVE LeaseHeld'
  BY <1>30 DEF Occupy
<1>31. CASE UNCHANGED vars
  BY <1>31
<1> QED
  BY <1>1, <1>2, <1>3, <1>4, <1>5, <1>6, <1>7, <1>8, <1>9, <1>10, <1>11, <1>12, <1>13, <1>14, <1>15, <1>16, <1>17, <1>18, <1>19, <1>20, <1>21, <1>22, <1>23, <1>24, <1>25, <1>26, <1>27, <1>28, <1>29, <1>30, <1>31 DEF Next, Process, Outside

(* The creating process stays the maker.                                    *)
LEMMA CreatorIsMakerNext ==
  ASSUME IInv, BaseTypes, BaseTypes', [Next]_vars
  PROVE  CreatorIsMaker'
<1> USE LeaseAssumption DEF IInv, BaseTypes, CreatorIsMaker, LeaseHeld, NewIsClean, vars, procVars, dirVars, Creating, Opening, Probing, Removing
<1>1. ASSUME NEW p \in Procs, Start(p) PROVE CreatorIsMaker'
  BY <1>1 DEF Start, Goto
<1>2. ASSUME NEW p \in Procs, Die(p) PROVE CreatorIsMaker'
  BY <1>2 DEF Die
<1>3. ASSUME NEW p \in Procs, NEW c \in Procs, Fork(p, c) PROVE CreatorIsMaker'
  BY <1>3 DEF Fork
<1>4. ASSUME NEW p \in Procs, NEW s \in Paths, Prepare(p, s) PROVE CreatorIsMaker'
  BY <1>4 DEF Prepare
<1>5. ASSUME NEW p \in Procs, OpenSpill(p) PROVE CreatorIsMaker'
  <2>1. CASE lease[p] = None
    BY <1>5, <2>1 DEF OpenSpill, Goto, Identity, InPlace
  <2>2. CASE ~(lease[p] = None)
    BY <1>5, <2>2 DEF OpenSpill, Goto, Identity, InPlace
  <2> QED BY <2>1, <2>2
<1>6. ASSUME NEW p \in Procs, NEW d \in Dirs, MakeDir(p, d) PROVE CreatorIsMaker'
  BY <1>6 DEF MakeDir, Goto
<1>7. ASSUME NEW p \in Procs, MakeMarker(p) PROVE CreatorIsMaker'
  BY <1>7 DEF MakeMarker, Goto
<1>8. ASSUME NEW p \in Procs, LockMarker(p) PROVE CreatorIsMaker'
  BY <1>8 DEF LockMarker, Goto
<1>9. ASSUME NEW p \in Procs, WriteMarker(p) PROVE CreatorIsMaker'
  BY <1>9 DEF WriteMarker, Goto
<1>10. ASSUME NEW p \in Procs, KeepLease(p) PROVE CreatorIsMaker'
  BY <1>10 DEF KeepLease, Goto
<1>11. ASSUME NEW p \in Procs, CreateFails(p) PROVE CreatorIsMaker'
  <2>1. CASE pc[p] \in {"locked", "written"}
    BY <1>11, <2>1, Ending DEF CreateFails, Release
  <2>2. CASE ~(pc[p] \in {"locked", "written"})
    BY <1>11, <2>2, Ending DEF CreateFails, Release
  <2> QED BY <2>1, <2>2
<1>12. ASSUME NEW p \in Procs, CheckOpen(p) PROVE CreatorIsMaker'
  <2>1. CASE Identity(work[p])
    BY <1>12, <2>1, Ending DEF CheckOpen, Goto
  <2>2. CASE ~(Identity(work[p]))
    BY <1>12, <2>2, Ending DEF CheckOpen, Goto
  <2> QED BY <2>1, <2>2
<1>13. ASSUME NEW p \in Procs, CreateFile(p) PROVE CreatorIsMaker'
  BY <1>13, Ending DEF CreateFile
<1>14. ASSUME NEW p \in Procs, Cleanup(p) PROVE CreatorIsMaker'
  <2>1. CASE owner[p] = p /\ lease[p] # None
    BY <1>14, <2>1 DEF Cleanup, Release, Goto
  <2>2. CASE ~(owner[p] = p /\ lease[p] # None)
    BY <1>14, <2>2, SMTT(30) DEF Cleanup, Release, Goto
  <2> QED BY <2>1, <2>2
<1>15. ASSUME NEW p \in Procs, NEW d \in Dirs, SweepOpen(p, d) PROVE CreatorIsMaker'
  BY <1>15 DEF SweepOpen, Identity, InPlace, Goto
<1>16. ASSUME NEW p \in Procs, SweepLock(p) PROVE CreatorIsMaker'
  <2>1. CASE locked[work[p]] = {}
    BY <1>16, <2>1, Ending DEF SweepLock, Goto
  <2>2. CASE ~(locked[work[p]] = {})
    BY <1>16, <2>2, Ending DEF SweepLock, Goto
  <2> QED BY <2>1, <2>2
<1>17. ASSUME NEW p \in Procs, SweepCheck(p) PROVE CreatorIsMaker'
  <2>1. CASE Sweepable(work[p])
    BY <1>17, <2>1, Ending DEF SweepCheck, Release, Goto
  <2>2. CASE ~(Sweepable(work[p]))
    BY <1>17, <2>2, Ending DEF SweepCheck, Release, Goto
  <2> QED BY <2>1, <2>2
<1>18. ASSUME NEW p \in Procs, BeginRemoval(p) PROVE CreatorIsMaker'
  <2>1. CASE Identity(work[p])
    BY <1>18, <2>1 DEF BeginRemoval, Goto
  <2>2. CASE ~(Identity(work[p]))
    BY <1>18, <2>2, Ending DEF BeginRemoval
  <2> QED BY <2>1, <2>2
<1>19. ASSUME NEW p \in Procs, NEW n \in Names, ListEntry(p, n) PROVE CreatorIsMaker'
  <2>1. CASE LooksLikeTrace(n, files[work[p]][n])
    BY <1>19, <2>1 DEF ListEntry, Goto
  <2>2. CASE ~(LooksLikeTrace(n, files[work[p]][n]))
    BY <1>19, <2>2, Ending DEF ListEntry
  <2> QED BY <2>1, <2>2
<1>20. ASSUME NEW p \in Procs, ListEnd(p) PROVE CreatorIsMaker'
  BY <1>20 DEF ListEnd, Goto
<1>21. ASSUME NEW p \in Procs, NEW n \in Names, CheckEntry(p, n) PROVE CreatorIsMaker'
  <2>1. CASE Identity(work[p]) /\ files[work[p]][n] = scan[p][n]
    BY <1>21, <2>1 DEF CheckEntry, Goto
  <2>2. CASE ~(Identity(work[p]) /\ files[work[p]][n] = scan[p][n])
    BY <1>21, <2>2, Ending DEF CheckEntry
  <2> QED BY <2>1, <2>2
<1>22. ASSUME NEW p \in Procs, UnlinkEntry(p) PROVE CreatorIsMaker'
  <2>1. CASE GiveUp(p)
    BY <1>22, <2>1, Ending DEF UnlinkEntry
  <2>2. CASE ~(GiveUp(p))
    BY <1>22, <2>2 DEF UnlinkEntry, Goto
  <2> QED BY <2>1, <2>2
<1>23. ASSUME NEW p \in Procs, CheckMarker(p) PROVE CreatorIsMaker'
  <2>1. CASE Identity(work[p])
    BY <1>23, <2>1 DEF CheckMarker, Goto
  <2>2. CASE ~(Identity(work[p]))
    BY <1>23, <2>2, Ending, SMTT(30) DEF CheckMarker
  <2> QED BY <2>1, <2>2
<1>24. ASSUME NEW p \in Procs, Unmark(p) PROVE CreatorIsMaker'
  BY <1>24 DEF Unmark, Goto
<1>25. ASSUME NEW p \in Procs, RemoveDir(p) PROVE CreatorIsMaker'
  BY <1>25, Ending DEF RemoveDir, Release
<1>26. ASSUME NEW d \in Dirs, Age(d) PROVE CreatorIsMaker'
  BY <1>26 DEF Age
<1>27. ASSUME NEW d \in Dirs, MoveAside(d) PROVE CreatorIsMaker'
  BY <1>27 DEF MoveAside
<1>28. ASSUME NEW d \in Dirs, MoveBack(d) PROVE CreatorIsMaker'
  BY <1>28 DEF MoveBack
<1>29. ASSUME NEW d \in Dirs, NEW n \in Names, NEW x \in Strangers, Intrude(d, n, x) PROVE CreatorIsMaker'
  BY <1>29 DEF Intrude
<1>30. ASSUME NEW d \in Dirs, NEW s \in Paths, Occupy(d, s) PROVE CreatorIsMaker'
  BY <1>30 DEF Occupy
<1>31. CASE UNCHANGED vars
  BY <1>31
<1> QED
  BY <1>1, <1>2, <1>3, <1>4, <1>5, <1>6, <1>7, <1>8, <1>9, <1>10, <1>11, <1>12, <1>13, <1>14, <1>15, <1>16, <1>17, <1>18, <1>19, <1>20, <1>21, <1>22, <1>23, <1>24, <1>25, <1>26, <1>27, <1>28, <1>29, <1>30, <1>31 DEF Next, Process, Outside

(* What a step of p does to a lock: nothing, a release or an acquisition.   *)
LockMoves(p, d) ==
  \/ locked'[d] = locked[d]
  \/ locked'[d] = locked[d] \ {p}
  \/ locked[d] = {} /\ locked'[d] = {p}

(* Another process's removal does not notice.                               *)
LEMMA OthersHold ==
  ASSUME IInv, NEW p \in Procs, NEW q \in Procs, p # q,
         pc'[q] = pc[q], work'[q] = work[q], lease'[q] = lease[q],
         maker' = maker, loc' = loc,
         \A d \in Dirs : LockMoves(p, d)
  PROVE  HoldsFor(q)'
<1> USE DEF HoldsFor
<1>1. HoldsFor(q)
  BY DEF IInv, RemoverHolds
<1>2. CASE pc[q] \notin Probing \cup Removing
  BY <1>2 DEF Probing, Removing
<1>3. CASE pc[q] \in Probing \cup Removing
  <2>1. work[q] \in Dirs /\ LockMoves(p, work[q])
    BY <1>1, <1>3
  <2>2. \/ locked'[work[q]] = locked[work[q]]
        \/ locked'[work[q]] = locked[work[q]] \ {p}
        \/ locked[work[q]] = {} /\ locked'[work[q]] = {p}
    BY <2>1 DEF LockMoves
  <2>3. q \in locked[work[q]] => q \in locked'[work[q]]
    BY <2>2
  <2>4. locked[work[q]] = {q} => locked'[work[q]] = {q}
    BY <2>2
  <2> QED
    BY <1>1, <1>3, <2>1, <2>3, <2>4 DEF Probing, Removing
<1> QED
  BY <1>2, <1>3

(* A removal keeps the lock, or is the maker's.                             *)
LEMMA RemoverHoldsNext ==
  ASSUME IInv, BaseTypes, BaseTypes', [Next]_vars
  PROVE  RemoverHolds'
<1> USE LeaseAssumption DEF IInv, BaseTypes, HoldsFor, RemoverHolds, LeaseHeld, NewIsClean, CreatorIsMaker, vars, procVars, dirVars, Creating, Opening, Probing, Removing
<1>1. ASSUME NEW p \in Procs, Start(p) PROVE RemoverHolds'
  <2> SUFFICES ASSUME NEW q \in Procs PROVE HoldsFor(q)'
    BY DEF RemoverHolds
  <2>1. CASE p = q
    BY <1>1, <2>1 DEF Start, Goto
  <2>2. CASE p # q
    BY <1>1, <2>2 DEF Start, Goto
  <2> QED BY <2>1, <2>2
<1>2. ASSUME NEW p \in Procs, Die(p) PROVE RemoverHolds'
  <2> SUFFICES ASSUME NEW q \in Procs PROVE HoldsFor(q)'
    BY DEF RemoverHolds
  <2>1. CASE p = q
    BY <1>2, <2>1 DEF Die
  <2>2. CASE p # q
    BY <1>2, <2>2 DEF Die
  <2> QED BY <2>1, <2>2
<1>3. ASSUME NEW p \in Procs, NEW c \in Procs, Fork(p, c) PROVE RemoverHolds'
  <2> SUFFICES ASSUME NEW q \in Procs PROVE HoldsFor(q)'
    BY DEF RemoverHolds
  <2>1. CASE p = q
    BY <1>3, <2>1 DEF Fork
  <2>2. CASE p # q
    BY <1>3, <2>2 DEF Fork
  <2> QED BY <2>1, <2>2
<1>4. ASSUME NEW p \in Procs, NEW s \in Paths, Prepare(p, s) PROVE RemoverHolds'
  <2> SUFFICES ASSUME NEW q \in Procs PROVE HoldsFor(q)'
    BY DEF RemoverHolds
  <2>1. CASE p = q
    BY <1>4, <2>1 DEF Prepare
  <2>2. CASE p # q
    BY <1>4, <2>2 DEF Prepare
  <2> QED BY <2>1, <2>2
<1>5. ASSUME NEW p \in Procs, OpenSpill(p) PROVE RemoverHolds'
  <2> SUFFICES ASSUME NEW q \in Procs PROVE HoldsFor(q)'
    BY DEF RemoverHolds
  <2>1. CASE p = q /\ (lease[p] = None)
    BY <1>5, <2>1 DEF OpenSpill, Goto, Identity, InPlace
  <2>2. CASE p = q /\ ~(lease[p] = None)
    BY <1>5, <2>2 DEF OpenSpill, Goto, Identity, InPlace
  <2>3. CASE p # q /\ (lease[p] = None)
    BY <1>5, <2>3 DEF OpenSpill, Goto, Identity, InPlace
  <2>4. CASE p # q /\ ~(lease[p] = None)
    BY <1>5, <2>4 DEF OpenSpill, Goto, Identity, InPlace
  <2> QED BY <2>1, <2>2, <2>3, <2>4
<1>6. ASSUME NEW p \in Procs, NEW d \in Dirs, MakeDir(p, d) PROVE RemoverHolds'
  <2> SUFFICES ASSUME NEW q \in Procs PROVE HoldsFor(q)'
    BY DEF RemoverHolds
  <2>1. CASE p = q
    BY <1>6, <2>1 DEF MakeDir, Goto
  <2>2. CASE p # q
    BY <1>6, <2>2 DEF MakeDir, Goto
  <2> QED BY <2>1, <2>2
<1>7. ASSUME NEW p \in Procs, MakeMarker(p) PROVE RemoverHolds'
  <2> SUFFICES ASSUME NEW q \in Procs PROVE HoldsFor(q)'
    BY DEF RemoverHolds
  <2>1. CASE p = q
    BY <1>7, <2>1 DEF MakeMarker, Goto
  <2>2. CASE p # q
    BY <1>7, <2>2 DEF MakeMarker, Goto
  <2> QED BY <2>1, <2>2
<1>8. ASSUME NEW p \in Procs, LockMarker(p) PROVE RemoverHolds'
  <2> SUFFICES ASSUME NEW q \in Procs PROVE HoldsFor(q)'
    BY DEF RemoverHolds
  <2>1. CASE p = q
    BY <1>8, <2>1 DEF LockMarker, Goto
  <2>2. CASE p # q
    <3>1. /\ pc'[q] = pc[q] /\ work'[q] = work[q] /\ lease'[q] = lease[q]
          /\ maker' = maker /\ loc' = loc
          /\ \A d \in Dirs : LockMoves(p, d)
      BY <1>8, <2>2 DEF LockMarker, Goto, LockMoves
    <3> QED
      BY <2>2, <3>1, OthersHold
  <2> QED BY <2>1, <2>2
<1>9. ASSUME NEW p \in Procs, WriteMarker(p) PROVE RemoverHolds'
  <2> SUFFICES ASSUME NEW q \in Procs PROVE HoldsFor(q)'
    BY DEF RemoverHolds
  <2>1. CASE p = q
    BY <1>9, <2>1 DEF WriteMarker, Goto
  <2>2. CASE p # q
    BY <1>9, <2>2 DEF WriteMarker, Goto
  <2> QED BY <2>1, <2>2
<1>10. ASSUME NEW p \in Procs, KeepLease(p) PROVE RemoverHolds'
  <2> SUFFICES ASSUME NEW q \in Procs PROVE HoldsFor(q)'
    BY DEF RemoverHolds
  <2>1. CASE p = q
    BY <1>10, <2>1 DEF KeepLease, Goto
  <2>2. CASE p # q
    BY <1>10, <2>2 DEF KeepLease, Goto
  <2> QED BY <2>1, <2>2
<1>11. ASSUME NEW p \in Procs, CreateFails(p) PROVE RemoverHolds'
  <2> SUFFICES ASSUME NEW q \in Procs PROVE HoldsFor(q)'
    BY DEF RemoverHolds
  <2>1. CASE p = q /\ (pc[p] \in {"locked", "written"})
    BY <1>11, <2>1, Ending DEF CreateFails, Release
  <2>2. CASE p = q /\ ~(pc[p] \in {"locked", "written"})
    BY <1>11, <2>2, Ending DEF CreateFails, Release
  <2>3. CASE p # q /\ (pc[p] \in {"locked", "written"})
    <3>1. /\ pc'[q] = pc[q] /\ work'[q] = work[q] /\ lease'[q] = lease[q]
          /\ maker' = maker /\ loc' = loc
          /\ \A d \in Dirs : LockMoves(p, d)
      BY <1>11, <2>3, Ending DEF CreateFails, Release, LockMoves
    <3> QED
      BY <2>3, <3>1, OthersHold
  <2>4. CASE p # q /\ ~(pc[p] \in {"locked", "written"})
    <3>1. /\ pc'[q] = pc[q] /\ work'[q] = work[q] /\ lease'[q] = lease[q]
          /\ maker' = maker /\ loc' = loc
          /\ \A d \in Dirs : LockMoves(p, d)
      BY <1>11, <2>4, Ending DEF CreateFails, Release, LockMoves
    <3> QED
      BY <2>4, <3>1, OthersHold
  <2> QED BY <2>1, <2>2, <2>3, <2>4
<1>12. ASSUME NEW p \in Procs, CheckOpen(p) PROVE RemoverHolds'
  <2> SUFFICES ASSUME NEW q \in Procs PROVE HoldsFor(q)'
    BY DEF RemoverHolds
  <2>1. CASE p = q /\ (Identity(work[p]))
    BY <1>12, <2>1, Ending DEF CheckOpen, Goto
  <2>2. CASE p = q /\ ~(Identity(work[p]))
    BY <1>12, <2>2, Ending DEF CheckOpen, Goto
  <2>3. CASE p # q /\ (Identity(work[p]))
    BY <1>12, <2>3, Ending DEF CheckOpen, Goto
  <2>4. CASE p # q /\ ~(Identity(work[p]))
    BY <1>12, <2>4, Ending DEF CheckOpen, Goto
  <2> QED BY <2>1, <2>2, <2>3, <2>4
<1>13. ASSUME NEW p \in Procs, CreateFile(p) PROVE RemoverHolds'
  <2> SUFFICES ASSUME NEW q \in Procs PROVE HoldsFor(q)'
    BY DEF RemoverHolds
  <2>1. CASE p = q
    BY <1>13, <2>1, Ending DEF CreateFile
  <2>2. CASE p # q
    BY <1>13, <2>2, Ending DEF CreateFile
  <2> QED BY <2>1, <2>2
<1>14. ASSUME NEW p \in Procs, Cleanup(p) PROVE RemoverHolds'
  <2> SUFFICES ASSUME NEW q \in Procs PROVE HoldsFor(q)'
    BY DEF RemoverHolds
  <2>1. CASE p = q /\ (owner[p] = p /\ lease[p] # None)
    BY <1>14, <2>1 DEF Cleanup, Release, Goto
  <2>2. CASE p = q /\ ~(owner[p] = p /\ lease[p] # None)
    BY <1>14, <2>2 DEF Cleanup, Release, Goto
  <2>3. CASE p # q /\ (owner[p] = p /\ lease[p] # None)
    BY <1>14, <2>3 DEF Cleanup, Release, Goto
  <2>4. CASE p # q /\ ~(owner[p] = p /\ lease[p] # None)
    BY <1>14, <2>4 DEF Cleanup, Release, Goto
  <2> QED BY <2>1, <2>2, <2>3, <2>4
<1>15. ASSUME NEW p \in Procs, NEW d \in Dirs, SweepOpen(p, d) PROVE RemoverHolds'
  <2> SUFFICES ASSUME NEW q \in Procs PROVE HoldsFor(q)'
    BY DEF RemoverHolds
  <2>1. CASE p = q
    BY <1>15, <2>1 DEF SweepOpen, Identity, InPlace, Goto
  <2>2. CASE p # q
    BY <1>15, <2>2 DEF SweepOpen, Identity, InPlace, Goto
  <2> QED BY <2>1, <2>2
<1>16. ASSUME NEW p \in Procs, SweepLock(p) PROVE RemoverHolds'
  <2> SUFFICES ASSUME NEW q \in Procs PROVE HoldsFor(q)'
    BY DEF RemoverHolds
  <2>1. CASE p = q /\ (locked[work[p]] = {})
    BY <1>16, <2>1, Ending DEF SweepLock, Goto
  <2>2. CASE p = q /\ ~(locked[work[p]] = {})
    BY <1>16, <2>2, Ending DEF SweepLock, Goto
  <2>3. CASE p # q /\ (locked[work[p]] = {})
    <3>1. /\ pc'[q] = pc[q] /\ work'[q] = work[q] /\ lease'[q] = lease[q]
          /\ maker' = maker /\ loc' = loc
          /\ \A d \in Dirs : LockMoves(p, d)
      BY <1>16, <2>3, Ending DEF SweepLock, Goto, LockMoves
    <3> QED
      BY <2>3, <3>1, OthersHold
  <2>4. CASE p # q /\ ~(locked[work[p]] = {})
    <3>1. /\ pc'[q] = pc[q] /\ work'[q] = work[q] /\ lease'[q] = lease[q]
          /\ maker' = maker /\ loc' = loc
          /\ \A d \in Dirs : LockMoves(p, d)
      BY <1>16, <2>4, Ending DEF SweepLock, Goto, LockMoves
    <3> QED
      BY <2>4, <3>1, OthersHold
  <2> QED BY <2>1, <2>2, <2>3, <2>4
<1>17. ASSUME NEW p \in Procs, SweepCheck(p) PROVE RemoverHolds'
  <2> SUFFICES ASSUME NEW q \in Procs PROVE HoldsFor(q)'
    BY DEF RemoverHolds
  <2>1. CASE p = q /\ (Sweepable(work[p]))
    BY <1>17, <2>1, Ending DEF SweepCheck, Release, Goto
  <2>2. CASE p = q /\ ~(Sweepable(work[p]))
    BY <1>17, <2>2, Ending DEF SweepCheck, Release, Goto
  <2>3. CASE p # q /\ (Sweepable(work[p]))
    <3>1. /\ pc'[q] = pc[q] /\ work'[q] = work[q] /\ lease'[q] = lease[q]
          /\ maker' = maker /\ loc' = loc
          /\ \A d \in Dirs : LockMoves(p, d)
      BY <1>17, <2>3, Ending DEF SweepCheck, Release, Goto, LockMoves
    <3> QED
      BY <2>3, <3>1, OthersHold
  <2>4. CASE p # q /\ ~(Sweepable(work[p]))
    <3>1. /\ pc'[q] = pc[q] /\ work'[q] = work[q] /\ lease'[q] = lease[q]
          /\ maker' = maker /\ loc' = loc
          /\ \A d \in Dirs : LockMoves(p, d)
      BY <1>17, <2>4, Ending DEF SweepCheck, Release, Goto, LockMoves
    <3> QED
      BY <2>4, <3>1, OthersHold
  <2> QED BY <2>1, <2>2, <2>3, <2>4
<1>18. ASSUME NEW p \in Procs, BeginRemoval(p) PROVE RemoverHolds'
  <2> SUFFICES ASSUME NEW q \in Procs PROVE HoldsFor(q)'
    BY DEF RemoverHolds
  <2>1. CASE p = q /\ (Identity(work[p]))
    BY <1>18, <2>1 DEF BeginRemoval, Goto
  <2>2. CASE p = q /\ ~(Identity(work[p]))
    BY <1>18, <2>2, Ending DEF BeginRemoval
  <2>3. CASE p # q /\ (Identity(work[p]))
    <3>1. /\ pc'[q] = pc[q] /\ work'[q] = work[q] /\ lease'[q] = lease[q]
          /\ maker' = maker /\ loc' = loc
          /\ \A d \in Dirs : LockMoves(p, d)
      BY <1>18, <2>3 DEF BeginRemoval, Goto, LockMoves
    <3> QED
      BY <2>3, <3>1, OthersHold
  <2>4. CASE p # q /\ ~(Identity(work[p]))
    <3>1. /\ pc'[q] = pc[q] /\ work'[q] = work[q] /\ lease'[q] = lease[q]
          /\ maker' = maker /\ loc' = loc
          /\ \A d \in Dirs : LockMoves(p, d)
      BY <1>18, <2>4, Ending DEF BeginRemoval, LockMoves
    <3> QED
      BY <2>4, <3>1, OthersHold
  <2> QED BY <2>1, <2>2, <2>3, <2>4
<1>19. ASSUME NEW p \in Procs, NEW n \in Names, ListEntry(p, n) PROVE RemoverHolds'
  <2> SUFFICES ASSUME NEW q \in Procs PROVE HoldsFor(q)'
    BY DEF RemoverHolds
  <2>1. CASE p = q /\ (LooksLikeTrace(n, files[work[p]][n]))
    BY <1>19, <2>1 DEF ListEntry, Goto
  <2>2. CASE p = q /\ ~(LooksLikeTrace(n, files[work[p]][n]))
    BY <1>19, <2>2, Ending DEF ListEntry
  <2>3. CASE p # q /\ (LooksLikeTrace(n, files[work[p]][n]))
    <3>1. /\ pc'[q] = pc[q] /\ work'[q] = work[q] /\ lease'[q] = lease[q]
          /\ maker' = maker /\ loc' = loc
          /\ \A d \in Dirs : LockMoves(p, d)
      BY <1>19, <2>3 DEF ListEntry, Goto, LockMoves
    <3> QED
      BY <2>3, <3>1, OthersHold
  <2>4. CASE p # q /\ ~(LooksLikeTrace(n, files[work[p]][n]))
    <3>1. /\ pc'[q] = pc[q] /\ work'[q] = work[q] /\ lease'[q] = lease[q]
          /\ maker' = maker /\ loc' = loc
          /\ \A d \in Dirs : LockMoves(p, d)
      BY <1>19, <2>4, Ending DEF ListEntry, LockMoves
    <3> QED
      BY <2>4, <3>1, OthersHold
  <2> QED BY <2>1, <2>2, <2>3, <2>4
<1>20. ASSUME NEW p \in Procs, ListEnd(p) PROVE RemoverHolds'
  <2> SUFFICES ASSUME NEW q \in Procs PROVE HoldsFor(q)'
    BY DEF RemoverHolds
  <2>1. CASE p = q
    BY <1>20, <2>1 DEF ListEnd, Goto
  <2>2. CASE p # q
    BY <1>20, <2>2 DEF ListEnd, Goto
  <2> QED BY <2>1, <2>2
<1>21. ASSUME NEW p \in Procs, NEW n \in Names, CheckEntry(p, n) PROVE RemoverHolds'
  <2> SUFFICES ASSUME NEW q \in Procs PROVE HoldsFor(q)'
    BY DEF RemoverHolds
  <2>1. CASE p = q /\ (Identity(work[p]) /\ files[work[p]][n] = scan[p][n])
    BY <1>21, <2>1 DEF CheckEntry, Goto
  <2>2. CASE p = q /\ ~(Identity(work[p]) /\ files[work[p]][n] = scan[p][n])
    BY <1>21, <2>2, Ending DEF CheckEntry
  <2>3. CASE p # q /\ (Identity(work[p]) /\ files[work[p]][n] = scan[p][n])
    <3>1. /\ pc'[q] = pc[q] /\ work'[q] = work[q] /\ lease'[q] = lease[q]
          /\ maker' = maker /\ loc' = loc
          /\ \A d \in Dirs : LockMoves(p, d)
      BY <1>21, <2>3 DEF CheckEntry, Goto, LockMoves
    <3> QED
      BY <2>3, <3>1, OthersHold
  <2>4. CASE p # q /\ ~(Identity(work[p]) /\ files[work[p]][n] = scan[p][n])
    <3>1. /\ pc'[q] = pc[q] /\ work'[q] = work[q] /\ lease'[q] = lease[q]
          /\ maker' = maker /\ loc' = loc
          /\ \A d \in Dirs : LockMoves(p, d)
      BY <1>21, <2>4, Ending DEF CheckEntry, LockMoves
    <3> QED
      BY <2>4, <3>1, OthersHold
  <2> QED BY <2>1, <2>2, <2>3, <2>4
<1>22. ASSUME NEW p \in Procs, UnlinkEntry(p) PROVE RemoverHolds'
  <2> SUFFICES ASSUME NEW q \in Procs PROVE HoldsFor(q)'
    BY DEF RemoverHolds
  <2>1. CASE p = q /\ (GiveUp(p))
    BY <1>22, <2>1, Ending DEF UnlinkEntry
  <2>2. CASE p = q /\ ~(GiveUp(p))
    BY <1>22, <2>2 DEF UnlinkEntry, Goto
  <2>3. CASE p # q /\ (GiveUp(p))
    <3>1. /\ pc'[q] = pc[q] /\ work'[q] = work[q] /\ lease'[q] = lease[q]
          /\ maker' = maker /\ loc' = loc
          /\ \A d \in Dirs : LockMoves(p, d)
      BY <1>22, <2>3, Ending DEF UnlinkEntry, LockMoves
    <3> QED
      BY <2>3, <3>1, OthersHold
  <2>4. CASE p # q /\ ~(GiveUp(p))
    <3>1. /\ pc'[q] = pc[q] /\ work'[q] = work[q] /\ lease'[q] = lease[q]
          /\ maker' = maker /\ loc' = loc
          /\ \A d \in Dirs : LockMoves(p, d)
      BY <1>22, <2>4 DEF UnlinkEntry, Goto, LockMoves
    <3> QED
      BY <2>4, <3>1, OthersHold
  <2> QED BY <2>1, <2>2, <2>3, <2>4
<1>23. ASSUME NEW p \in Procs, CheckMarker(p) PROVE RemoverHolds'
  <2> SUFFICES ASSUME NEW q \in Procs PROVE HoldsFor(q)'
    BY DEF RemoverHolds
  <2>1. CASE p = q /\ (Identity(work[p]))
    BY <1>23, <2>1 DEF CheckMarker, Goto
  <2>2. CASE p = q /\ ~(Identity(work[p]))
    BY <1>23, <2>2, Ending DEF CheckMarker
  <2>3. CASE p # q /\ (Identity(work[p]))
    <3>1. /\ pc'[q] = pc[q] /\ work'[q] = work[q] /\ lease'[q] = lease[q]
          /\ maker' = maker /\ loc' = loc
          /\ \A d \in Dirs : LockMoves(p, d)
      BY <1>23, <2>3 DEF CheckMarker, Goto, LockMoves
    <3> QED
      BY <2>3, <3>1, OthersHold
  <2>4. CASE p # q /\ ~(Identity(work[p]))
    <3>1. /\ pc'[q] = pc[q] /\ work'[q] = work[q] /\ lease'[q] = lease[q]
          /\ maker' = maker /\ loc' = loc
          /\ \A d \in Dirs : LockMoves(p, d)
      BY <1>23, <2>4, Ending DEF CheckMarker, LockMoves
    <3> QED
      BY <2>4, <3>1, OthersHold
  <2> QED BY <2>1, <2>2, <2>3, <2>4
<1>24. ASSUME NEW p \in Procs, Unmark(p) PROVE RemoverHolds'
  <2> SUFFICES ASSUME NEW q \in Procs PROVE HoldsFor(q)'
    BY DEF RemoverHolds
  <2>1. CASE p = q
    BY <1>24, <2>1 DEF Unmark, Goto
  <2>2. CASE p # q
    BY <1>24, <2>2 DEF Unmark, Goto
  <2> QED BY <2>1, <2>2
<1>25. ASSUME NEW p \in Procs, RemoveDir(p) PROVE RemoverHolds'
  <2> SUFFICES ASSUME NEW q \in Procs PROVE HoldsFor(q)'
    BY DEF RemoverHolds
  <2>1. CASE p = q
    BY <1>25, <2>1, Ending DEF RemoveDir, Release
  <2>2. CASE p # q
    BY <1>25, <2>2, Ending DEF RemoveDir, Release
  <2> QED BY <2>1, <2>2
<1>26. ASSUME NEW d \in Dirs, Age(d) PROVE RemoverHolds'
  <2> SUFFICES ASSUME NEW q \in Procs PROVE HoldsFor(q)'
    BY DEF RemoverHolds
  <2> QED
    BY <1>26 DEF Age
<1>27. ASSUME NEW d \in Dirs, MoveAside(d) PROVE RemoverHolds'
  <2> SUFFICES ASSUME NEW q \in Procs PROVE HoldsFor(q)'
    BY DEF RemoverHolds
  <2> QED
    BY <1>27 DEF MoveAside
<1>28. ASSUME NEW d \in Dirs, MoveBack(d) PROVE RemoverHolds'
  <2> SUFFICES ASSUME NEW q \in Procs PROVE HoldsFor(q)'
    BY DEF RemoverHolds
  <2> QED
    BY <1>28 DEF MoveBack
<1>29. ASSUME NEW d \in Dirs, NEW n \in Names, NEW x \in Strangers, Intrude(d, n, x) PROVE RemoverHolds'
  <2> SUFFICES ASSUME NEW q \in Procs PROVE HoldsFor(q)'
    BY DEF RemoverHolds
  <2> QED
    BY <1>29 DEF Intrude
<1>30. ASSUME NEW d \in Dirs, NEW s \in Paths, Occupy(d, s) PROVE RemoverHolds'
  <2> SUFFICES ASSUME NEW q \in Procs PROVE HoldsFor(q)'
    BY DEF RemoverHolds
  <2> QED
    BY <1>30 DEF Occupy
<1>31. CASE UNCHANGED vars
  BY <1>31
<1> QED
  BY <1>1, <1>2, <1>3, <1>4, <1>5, <1>6, <1>7, <1>8, <1>9, <1>10, <1>11, <1>12, <1>13, <1>14, <1>15, <1>16, <1>17, <1>18, <1>19, <1>20, <1>21, <1>22, <1>23, <1>24, <1>25, <1>26, <1>27, <1>28, <1>29, <1>30, <1>31 DEF Next, Process, Outside

(* Nothing happens to an unused inode.                                      *)
LEMMA NewIsCleanNext ==
  ASSUME IInv, BaseTypes, BaseTypes', [Next]_vars
  PROVE  NewIsClean'
<1> USE LeaseAssumption DEF IInv, BaseTypes, NewIsClean, LeaseHeld, CreatorIsMaker, RemoverHolds, HoldsFor, vars, procVars, dirVars, Creating, Opening, Probing, Removing
<1>1. ASSUME NEW p \in Procs, Start(p) PROVE NewIsClean'
  BY <1>1 DEF Start, Goto
<1>2. ASSUME NEW p \in Procs, Die(p) PROVE NewIsClean'
  BY <1>2 DEF Die
<1>3. ASSUME NEW p \in Procs, NEW c \in Procs, Fork(p, c) PROVE NewIsClean'
  BY <1>3 DEF Fork
<1>4. ASSUME NEW p \in Procs, NEW s \in Paths, Prepare(p, s) PROVE NewIsClean'
  BY <1>4 DEF Prepare
<1>5. ASSUME NEW p \in Procs, OpenSpill(p) PROVE NewIsClean'
  <2>1. CASE lease[p] = None
    BY <1>5, <2>1 DEF OpenSpill, Goto, Identity, InPlace
  <2>2. CASE ~(lease[p] = None)
    BY <1>5, <2>2 DEF OpenSpill, Goto, Identity, InPlace
  <2> QED BY <2>1, <2>2
<1>6. ASSUME NEW p \in Procs, NEW d \in Dirs, MakeDir(p, d) PROVE NewIsClean'
  BY <1>6 DEF MakeDir, Goto
<1>7. ASSUME NEW p \in Procs, MakeMarker(p) PROVE NewIsClean'
  BY <1>7 DEF MakeMarker, Goto
<1>8. ASSUME NEW p \in Procs, LockMarker(p) PROVE NewIsClean'
  BY <1>8 DEF LockMarker, Goto
<1>9. ASSUME NEW p \in Procs, WriteMarker(p) PROVE NewIsClean'
  BY <1>9 DEF WriteMarker, Goto
<1>10. ASSUME NEW p \in Procs, KeepLease(p) PROVE NewIsClean'
  BY <1>10 DEF KeepLease, Goto
<1>11. ASSUME NEW p \in Procs, CreateFails(p) PROVE NewIsClean'
  <2>1. CASE pc[p] \in {"locked", "written"}
    BY <1>11, <2>1, Ending DEF CreateFails, Release
  <2>2. CASE ~(pc[p] \in {"locked", "written"})
    BY <1>11, <2>2, Ending DEF CreateFails, Release
  <2> QED BY <2>1, <2>2
<1>12. ASSUME NEW p \in Procs, CheckOpen(p) PROVE NewIsClean'
  <2>1. CASE Identity(work[p])
    BY <1>12, <2>1, Ending DEF CheckOpen, Goto
  <2>2. CASE ~(Identity(work[p]))
    BY <1>12, <2>2, Ending DEF CheckOpen, Goto
  <2> QED BY <2>1, <2>2
<1>13. ASSUME NEW p \in Procs, CreateFile(p) PROVE NewIsClean'
  BY <1>13, Ending DEF CreateFile
<1>14. ASSUME NEW p \in Procs, Cleanup(p) PROVE NewIsClean'
  <2>1. CASE owner[p] = p /\ lease[p] # None
    BY <1>14, <2>1 DEF Cleanup, Release, Goto
  <2>2. CASE ~(owner[p] = p /\ lease[p] # None)
    BY <1>14, <2>2, SMTT(30) DEF Cleanup, Release, Goto
  <2> QED BY <2>1, <2>2
<1>15. ASSUME NEW p \in Procs, NEW d \in Dirs, SweepOpen(p, d) PROVE NewIsClean'
  BY <1>15 DEF SweepOpen, Identity, InPlace, Goto
<1>16. ASSUME NEW p \in Procs, SweepLock(p) PROVE NewIsClean'
  <2>1. CASE locked[work[p]] = {}
    BY <1>16, <2>1, Ending DEF SweepLock, Goto
  <2>2. CASE ~(locked[work[p]] = {})
    BY <1>16, <2>2, Ending DEF SweepLock, Goto
  <2> QED BY <2>1, <2>2
<1>17. ASSUME NEW p \in Procs, SweepCheck(p) PROVE NewIsClean'
  <2>1. CASE Sweepable(work[p])
    BY <1>17, <2>1 DEF SweepCheck, Goto
  <2>2. CASE ~(Sweepable(work[p]))
    <3>1. UNCHANGED <<loc, maker, files>>
      BY <1>17 DEF SweepCheck
    <3>2. \A d \in Dirs : locked'[d] \subseteq locked[d]
      BY <1>17, <2>2 DEF SweepCheck, Release
    <3> QED BY <3>1, <3>2
  <2> QED BY <2>1, <2>2
<1>18. ASSUME NEW p \in Procs, BeginRemoval(p) PROVE NewIsClean'
  <2>1. CASE Identity(work[p])
    BY <1>18, <2>1 DEF BeginRemoval, Goto
  <2>2. CASE ~(Identity(work[p]))
    BY <1>18, <2>2, Ending DEF BeginRemoval
  <2> QED BY <2>1, <2>2
<1>19. ASSUME NEW p \in Procs, NEW n \in Names, ListEntry(p, n) PROVE NewIsClean'
  <2>1. CASE LooksLikeTrace(n, files[work[p]][n])
    BY <1>19, <2>1 DEF ListEntry, Goto
  <2>2. CASE ~(LooksLikeTrace(n, files[work[p]][n]))
    BY <1>19, <2>2, Ending DEF ListEntry
  <2> QED BY <2>1, <2>2
<1>20. ASSUME NEW p \in Procs, ListEnd(p) PROVE NewIsClean'
  BY <1>20 DEF ListEnd, Goto
<1>21. ASSUME NEW p \in Procs, NEW n \in Names, CheckEntry(p, n) PROVE NewIsClean'
  <2>1. CASE Identity(work[p]) /\ files[work[p]][n] = scan[p][n]
    BY <1>21, <2>1 DEF CheckEntry, Goto
  <2>2. CASE ~(Identity(work[p]) /\ files[work[p]][n] = scan[p][n])
    BY <1>21, <2>2, Ending DEF CheckEntry
  <2> QED BY <2>1, <2>2
<1>22. ASSUME NEW p \in Procs, UnlinkEntry(p) PROVE NewIsClean'
  <2>1. CASE GiveUp(p)
    BY <1>22, <2>1, Ending DEF UnlinkEntry
  <2>2. CASE ~(GiveUp(p))
    BY <1>22, <2>2 DEF UnlinkEntry, Goto
  <2> QED BY <2>1, <2>2
<1>23. ASSUME NEW p \in Procs, CheckMarker(p) PROVE NewIsClean'
  <2>1. CASE Identity(work[p])
    BY <1>23, <2>1 DEF CheckMarker, Goto
  <2>2. CASE ~(Identity(work[p]))
    BY <1>23, <2>2, Ending DEF CheckMarker
  <2> QED BY <2>1, <2>2
<1>24. ASSUME NEW p \in Procs, Unmark(p) PROVE NewIsClean'
  BY <1>24 DEF Unmark, Goto
<1>25. ASSUME NEW p \in Procs, RemoveDir(p) PROVE NewIsClean'
  BY <1>25, Ending DEF RemoveDir, Release
<1>26. ASSUME NEW d \in Dirs, Age(d) PROVE NewIsClean'
  BY <1>26 DEF Age
<1>27. ASSUME NEW d \in Dirs, MoveAside(d) PROVE NewIsClean'
  BY <1>27 DEF MoveAside
<1>28. ASSUME NEW d \in Dirs, MoveBack(d) PROVE NewIsClean'
  BY <1>28 DEF MoveBack
<1>29. ASSUME NEW d \in Dirs, NEW n \in Names, NEW x \in Strangers, Intrude(d, n, x) PROVE NewIsClean'
  BY <1>29 DEF Intrude
<1>30. ASSUME NEW d \in Dirs, NEW s \in Paths, Occupy(d, s) PROVE NewIsClean'
  BY <1>30 DEF Occupy
<1>31. CASE UNCHANGED vars
  BY <1>31
<1> QED
  BY <1>1, <1>2, <1>3, <1>4, <1>5, <1>6, <1>7, <1>8, <1>9, <1>10, <1>11, <1>12, <1>13, <1>14, <1>15, <1>16, <1>17, <1>18, <1>19, <1>20, <1>21, <1>22, <1>23, <1>24, <1>25, <1>26, <1>27, <1>28, <1>29, <1>30, <1>31 DEF Next, Process, Outside

(* A live owner holds the lock and is the maker; a removal is the only      *)
(* holder or the maker: a directory has one claimant.                       *)
LEMMA OneClaimant == IInv => LeaseExclusive
<1> SUFFICES ASSUME IInv, NEW d \in Dirs, NEW p \in Procs, NEW q \in Procs,
                    Owns(p, d) \/ Removes(p, d), Owns(q, d) \/ Removes(q, d)
             PROVE  p = q
  BY DEF LeaseExclusive
<1> USE LeaseAssumption DEF IInv, LeaseHeld, RemoverHolds, HoldsFor, Owns, Removes
<1>1. CASE Owns(p, d) /\ Owns(q, d)
  BY <1>1
<1>2. CASE Owns(p, d) /\ Removes(q, d)
  BY <1>2
<1>3. CASE Removes(p, d) /\ Owns(q, d)
  BY <1>3
<1>4. CASE Removes(p, d) /\ Removes(q, d)
  BY <1>4
<1> QED
  BY <1>1, <1>2, <1>3, <1>4

-----------------------------------------------------------------------------
(* What a step does to the entries: the removal of one process goes on, ends *)
(* or looks at them, a trace is made, an entry goes, or something outside    *)
(* puts a file of its own there.                                             *)
Keeps ==
  /\ UNCHANGED <<scan, target, late>>
  /\ \A q \in Procs : /\ (pc'[q] = "unlink") <=> (pc[q] = "unlink")
                      /\ pc[q] = "unlink" => work'[q] = work[q]

OthersGoOn(p) == \A q \in Procs \ {p} : pc'[q] = pc[q] /\ work'[q] = work[q]

Forgets(p) ==
  /\ scan' = [scan EXCEPT ![p] = Nothing]
  /\ target' = [target EXCEPT ![p] = None]
  /\ late' = [late EXCEPT ![p] = FALSE]
  /\ pc'[p] # "unlink"
  /\ OthersGoOn(p)

Creates(p) ==
  /\ pc[p] = "opening"
  /\ files[work[p]]["trace"] = None
  /\ files' = [files EXCEPT ![work[p]]["trace"] = p]
  /\ Forgets(p)

Lists(p, n) ==
  /\ pc[p] = "scan"
  /\ LooksLikeTrace(n, files[work[p]][n])
  /\ scan' = [scan EXCEPT ![p][n] = files[work[p]][n]]
  /\ UNCHANGED <<pc, work, target, late, files>>

Checks(p, n) ==
  /\ pc[p] = "delete"
  /\ scan[p][n] # None
  /\ files[work[p]][n] = scan[p][n]
  /\ target' = [target EXCEPT ![p] = n]
  /\ pc' = [pc EXCEPT ![p] = "unlink"]
  /\ UNCHANGED <<work, scan, late, files>>

Unlinks(p) ==
  /\ pc[p] = "unlink"
  /\ files' = [files EXCEPT ![work[p]][target[p]] = None]
  /\ scan' = [scan EXCEPT ![p][target[p]] = None]
  /\ target' = [target EXCEPT ![p] = None]
  /\ late' = [late EXCEPT ![p] = FALSE]
  /\ pc' = [pc EXCEPT ![p] = "delete"]
  /\ UNCHANGED work

EntryChange ==
  \/ Keeps /\ UNCHANGED files
  \/ \E p \in Procs : Forgets(p) /\ UNCHANGED files
  \/ \E p \in Procs : Creates(p)
  \/ \E p \in Procs, n \in Names : Lists(p, n)
  \/ \E p \in Procs, n \in Names : Checks(p, n)
  \/ \E p \in Procs : Unlinks(p)
  \/ \E d \in Dirs, n \in Names, x \in Strangers : Intrude(d, n, x)

(* Whoever finishes or gives up forgets what it listed.                     *)
LEMMA EndingForgets ==
  ASSUME BaseTypes, NEW p \in Procs
  PROVE  /\ Finish(p) => Forgets(p)
         /\ GiveUp(p) => Forgets(p) /\ UNCHANGED files
BY DEF BaseTypes, Finish, GiveUp, Forgets, OthersGoOn

(* Every step is one of these.                                              *)
LEMMA EntryStep == ASSUME IInv, [Next]_vars PROVE EntryChange
<1> USE DEF vars, procVars, dirVars
<1>0. BaseTypes
  BY SplitTypes DEF IInv
<1>1. ASSUME NEW p \in Procs, Start(p) PROVE Keeps /\ UNCHANGED files
  BY <1>0, <1>1 DEF Start, Goto, Keeps, BaseTypes
<1>2. ASSUME NEW p \in Procs, Die(p) PROVE Forgets(p) /\ UNCHANGED files
  BY <1>0, <1>2 DEF Die, Forgets, OthersGoOn, BaseTypes
<1>3. ASSUME NEW p \in Procs, NEW c \in Procs, Fork(p, c) PROVE Keeps /\ UNCHANGED files
  BY <1>0, <1>3 DEF Fork, Keeps, BaseTypes
<1>4. ASSUME NEW p \in Procs, NEW s \in Paths, Prepare(p, s) PROVE Keeps /\ UNCHANGED files
  BY <1>4 DEF Prepare, Keeps
<1>5. ASSUME NEW p \in Procs, OpenSpill(p) PROVE Keeps /\ UNCHANGED files
  BY <1>0, <1>5 DEF OpenSpill, Goto, Keeps, BaseTypes
<1>6. ASSUME NEW p \in Procs, NEW d \in Dirs, MakeDir(p, d) PROVE Keeps /\ UNCHANGED files
  BY <1>0, <1>6 DEF MakeDir, Goto, Keeps, BaseTypes
<1>7. ASSUME NEW p \in Procs, MakeMarker(p) \/ LockMarker(p) \/ WriteMarker(p)
      PROVE  Keeps /\ UNCHANGED files
  BY <1>0, <1>7 DEF MakeMarker, LockMarker, WriteMarker, Goto, Keeps, BaseTypes
<1>8. ASSUME NEW p \in Procs, KeepLease(p) PROVE Keeps /\ UNCHANGED files
  BY <1>0, <1>8 DEF KeepLease, Goto, Keeps, BaseTypes
<1>9. ASSUME NEW p \in Procs, CreateFails(p) PROVE Forgets(p) /\ UNCHANGED files
  BY <1>0, <1>9, EndingForgets DEF CreateFails
<1>10. ASSUME NEW p \in Procs, CheckOpen(p)
       PROVE  (Keeps \/ Forgets(p)) /\ UNCHANGED files
  <2>1. CASE Identity(work[p])
    BY <1>0, <1>10, <2>1 DEF CheckOpen, Goto, Keeps, BaseTypes
  <2>2. CASE ~Identity(work[p])
    BY <1>0, <1>10, <2>2, EndingForgets DEF CheckOpen
  <2> QED BY <2>1, <2>2
<1>11. ASSUME NEW p \in Procs, CreateFile(p)
       PROVE  Creates(p) \/ (Forgets(p) /\ UNCHANGED files)
  BY <1>0, <1>11, EndingForgets DEF CreateFile, Creates
<1>12. ASSUME NEW p \in Procs, Cleanup(p) PROVE Keeps /\ UNCHANGED files
  BY <1>0, <1>12 DEF Cleanup, Goto, Keeps, BaseTypes
<1>13. ASSUME NEW p \in Procs, NEW d \in Dirs, SweepOpen(p, d) PROVE Keeps /\ UNCHANGED files
  BY <1>0, <1>13 DEF SweepOpen, Goto, Keeps, BaseTypes
<1>14. ASSUME NEW p \in Procs, SweepLock(p)
       PROVE  (Keeps \/ Forgets(p)) /\ UNCHANGED files
  <2>1. CASE locked[work[p]] = {}
    BY <1>0, <1>14, <2>1 DEF SweepLock, Goto, Keeps, BaseTypes
  <2>2. CASE locked[work[p]] # {}
    BY <1>0, <1>14, <2>2, EndingForgets DEF SweepLock
  <2> QED BY <2>1, <2>2
<1>15. ASSUME NEW p \in Procs, SweepCheck(p)
       PROVE  (Keeps \/ Forgets(p)) /\ UNCHANGED files
  <2>1. CASE Sweepable(work[p])
    BY <1>0, <1>15, <2>1 DEF SweepCheck, Goto, Keeps, BaseTypes
  <2>2. CASE ~Sweepable(work[p])
    BY <1>0, <1>15, <2>2, EndingForgets DEF SweepCheck
  <2> QED BY <2>1, <2>2
<1>16. ASSUME NEW p \in Procs, BeginRemoval(p) \/ CheckMarker(p)
       PROVE  (Keeps \/ Forgets(p)) /\ UNCHANGED files
  <2>1. CASE Identity(work[p])
    BY <1>0, <1>16, <2>1 DEF BeginRemoval, CheckMarker, Goto, Keeps, BaseTypes
  <2>2. CASE ~Identity(work[p])
    BY <1>0, <1>16, <2>2, EndingForgets DEF BeginRemoval, CheckMarker
  <2> QED BY <2>1, <2>2
<1>17. ASSUME NEW p \in Procs, NEW n \in Names, ListEntry(p, n)
       PROVE  Lists(p, n) \/ (Forgets(p) /\ UNCHANGED files)
  <2>1. CASE LooksLikeTrace(n, files[work[p]][n])
    BY <1>17, <2>1 DEF ListEntry, Lists
  <2>2. CASE ~LooksLikeTrace(n, files[work[p]][n])
    BY <1>0, <1>17, <2>2, EndingForgets DEF ListEntry
  <2> QED BY <2>1, <2>2
<1>18. ASSUME NEW p \in Procs, ListEnd(p) \/ Unmark(p) PROVE Keeps /\ UNCHANGED files
  BY <1>0, <1>18 DEF ListEnd, Unmark, Goto, Keeps, BaseTypes
<1>19. ASSUME NEW p \in Procs, NEW n \in Names, CheckEntry(p, n)
       PROVE  Checks(p, n) \/ (Forgets(p) /\ UNCHANGED files)
  <2>1. CASE Identity(work[p]) /\ files[work[p]][n] = scan[p][n]
    BY <1>19, <2>1 DEF CheckEntry, Checks, Goto
  <2>2. CASE ~(Identity(work[p]) /\ files[work[p]][n] = scan[p][n])
    BY <1>0, <1>19, <2>2, EndingForgets DEF CheckEntry
  <2> QED BY <2>1, <2>2
<1>20. ASSUME NEW p \in Procs, UnlinkEntry(p)
       PROVE  Unlinks(p) \/ (Forgets(p) /\ UNCHANGED files)
  <2>1. CASE GiveUp(p)
    BY <1>0, <2>1, EndingForgets
  <2>2. CASE ~GiveUp(p)
    BY <1>20, <2>2 DEF UnlinkEntry, Unlinks, Goto
  <2> QED BY <2>1, <2>2
<1>21. ASSUME NEW p \in Procs, RemoveDir(p) PROVE Forgets(p) /\ UNCHANGED files
  BY <1>0, <1>21, EndingForgets DEF RemoveDir
<1>22. ASSUME NEW d \in Dirs, Age(d) \/ MoveAside(d) \/ MoveBack(d)
       PROVE  Keeps /\ UNCHANGED files
  BY <1>22 DEF Age, MoveAside, MoveBack, Keeps
<1>23. ASSUME NEW d \in Dirs, NEW s \in Paths, Occupy(d, s) PROVE Keeps /\ UNCHANGED files
  BY <1>23 DEF Occupy, Keeps
<1>24. CASE UNCHANGED vars
  BY <1>24 DEF EntryChange, Keeps
<1>25. ASSUME NEW p \in Procs, Process(p) PROVE EntryChange
  BY <1>25, <1>1, <1>2, <1>3, <1>4, <1>5, <1>6, <1>7, <1>8, <1>9, <1>10, <1>11, <1>12,
     <1>13, <1>14, <1>15, <1>16, <1>17, <1>18, <1>19, <1>20, <1>21
  DEF Process, EntryChange
<1>26. CASE Outside
  BY <1>26, <1>22, <1>23 DEF Outside, EntryChange
<1> QED
  BY <1>24, <1>25, <1>26 DEF Next

-----------------------------------------------------------------------------
(* A removal lists, checks and unlinks in the directory it has open.        *)
LEMMA Typed ==
  ASSUME IInv
  PROVE  /\ BaseTypes /\ EntryTypes
         /\ \A p \in Procs : pc[p] \in Opening \cup Removing => work[p] \in Dirs
BY SplitTypes DEF IInv, CreatorIsMaker, RemoverHolds, HoldsFor

(* What the names of a directory lead to has a type.                        *)
LEMMA EntriesNext == ASSUME IInv, [Next]_vars PROVE EntryTypes'
<1> USE Typed, NothingTyped DEF EntryTypes
<1>1. CASE Keeps /\ UNCHANGED files
  BY <1>1 DEF Keeps
<1>2. ASSUME NEW p \in Procs, Forgets(p), UNCHANGED files PROVE EntryTypes'
  BY <1>2 DEF Forgets
<1>3. ASSUME NEW p \in Procs, Creates(p) PROVE EntryTypes'
  <2>1. work[p] \in Dirs
    BY <1>3 DEF Creates, Opening
  <2>2. [files[work[p]] EXCEPT !["trace"] = p] \in [Names -> Files \cup {None}]
    BY <2>1
  <2>3. files' \in [Dirs -> [Names -> Files \cup {None}]]
    BY <1>3, <2>1, <2>2 DEF Creates
  <2> QED BY <1>3, <2>3 DEF Creates, Forgets
<1>4. ASSUME NEW p \in Procs, NEW n \in Names, Lists(p, n) PROVE EntryTypes'
  <2>1. work[p] \in Dirs
    BY <1>4 DEF Lists, Removing
  <2>2. [scan[p] EXCEPT ![n] = files[work[p]][n]] \in [Names -> Files \cup {None}]
    BY <2>1
  <2>3. scan' \in [Procs -> [Names -> Files \cup {None}]]
    BY <1>4, <2>2 DEF Lists
  <2> QED BY <1>4, <2>3 DEF Lists
<1>5. ASSUME NEW p \in Procs, NEW n \in Names, Checks(p, n) PROVE EntryTypes'
  BY <1>5 DEF Checks
<1>6. ASSUME NEW p \in Procs, Unlinks(p) PROVE EntryTypes'
  <2>1. work[p] \in Dirs /\ target[p] \in Names
    BY <1>6 DEF Unlinks, IInv, Checked, CheckedFor
  <2>2. /\ [files[work[p]] EXCEPT ![target[p]] = None] \in [Names -> Files \cup {None}]
        /\ [scan[p] EXCEPT ![target[p]] = None] \in [Names -> Files \cup {None}]
    BY <2>1
  <2>3. /\ files' \in [Dirs -> [Names -> Files \cup {None}]]
        /\ scan' \in [Procs -> [Names -> Files \cup {None}]]
    BY <1>6, <2>1, <2>2 DEF Unlinks
  <2> QED BY <1>6, <2>3 DEF Unlinks
<1>7. ASSUME NEW d \in Dirs, NEW n \in Names, NEW x \in Strangers, Intrude(d, n, x)
      PROVE  EntryTypes'
  <2>1. [files[d] EXCEPT ![n] = x] \in [Names -> Files \cup {None}]
    OBVIOUS
  <2>2. files' \in [Dirs -> [Names -> Files \cup {None}]]
    BY <1>7, <2>1 DEF Intrude
  <2>3. late' \in [Procs -> BOOLEAN]
    BY <1>7 DEF Intrude
  <2> QED BY <1>7, <2>2, <2>3 DEF Intrude
<1> QED
  BY EntryStep, <1>1, <1>2, <1>3, <1>4, <1>5, <1>6, <1>7 DEF EntryChange

(* Every action keeps the types.                                            *)
LEMMA TypeNext == ASSUME IInv, [Next]_vars PROVE TypeOK'
BY BaseNext, EntriesNext, SplitTypes

(* What an entry is after a step.                                           *)
FilesChange ==
  \/ UNCHANGED files
  \/ \E p \in Procs : Creates(p) /\ work[p] \in Dirs
  \/ \E p \in Procs : Unlinks(p) /\ work[p] \in Dirs /\ target[p] \in Names
  \/ \E d \in Dirs, n \in Names, x \in Strangers : Intrude(d, n, x)

LEMMA FilesStep == ASSUME IInv, [Next]_vars PROVE FilesChange
<1>1. \A p \in Procs : Unlinks(p) => target[p] \in Names
  BY DEF IInv, Checked, CheckedFor, Unlinks
<1>2. \A p \in Procs : pc[p] \in {"opening", "unlink"} => work[p] \in Dirs
  BY Typed DEF Opening, Removing
<1> QED
  BY EntryStep, <1>1, <1>2
  DEF EntryChange, FilesChange, Lists, Checks, Creates, Unlinks

(* A preflight passes nothing else.                                         *)
LEMMA ScanLooksNext == ASSUME IInv, [Next]_vars PROVE ScanLooks'
<1> USE Typed, NothingTyped DEF EntryTypes, ScanLooks
<1>0. ScanLooks
  BY DEF IInv
<1>1. CASE Keeps
  BY <1>0, <1>1 DEF Keeps
<1>2. ASSUME NEW p \in Procs, Forgets(p) PROVE ScanLooks'
  BY <1>0, <1>2 DEF Forgets
<1>3. ASSUME NEW p \in Procs, NEW n \in Names, Lists(p, n) PROVE ScanLooks'
  <2>1. /\ LooksLikeTrace(n, scan'[p][n])
        /\ \A q \in Procs, m \in Names : q # p \/ m # n => scan'[q][m] = scan[q][m]
    BY <1>3 DEF Lists
  <2> QED BY <1>0, <2>1
<1>4. ASSUME NEW p \in Procs, Unlinks(p) PROVE ScanLooks'
  <2>1. target[p] \in Names
    BY <1>4 DEF Unlinks, IInv, Checked, CheckedFor
  <2>2. \A q \in Procs, m \in Names : scan'[q][m] \in {None, scan[q][m]}
    BY <1>4, <2>1 DEF Unlinks
  <2> QED BY <1>0, <2>2
<1>5. CASE UNCHANGED scan
  BY <1>0, <1>5
<1> QED
  BY EntryStep, <1>1, <1>2, <1>3, <1>4, <1>5 DEF EntryChange, Creates, Checks, Intrude

(* What was checked stays unless something outside replaces it: nobody else *)
(* removes anything there.                                                  *)
LEMMA CheckedNext == ASSUME IInv, [Next]_vars PROVE Checked'
<1> USE Typed, NothingTyped, Kinds DEF BaseTypes, EntryTypes
<1>0. \A q \in Procs : CheckedFor(q)
  BY DEF IInv, Checked
<1> SUFFICES ASSUME NEW q \in Procs PROVE CheckedFor(q)'
  BY DEF Checked
<1>1. CASE Keeps /\ UNCHANGED files
  BY <1>0, <1>1 DEF Keeps, CheckedFor
<1>2. ASSUME NEW p \in Procs, Forgets(p), UNCHANGED files PROVE CheckedFor(q)'
  BY <1>0, <1>2 DEF Forgets, OthersGoOn, CheckedFor
<1>3. ASSUME NEW p \in Procs, Creates(p) PROVE CheckedFor(q)'
  <2>1. work[p] \in Dirs
    BY <1>3 DEF Creates, Opening
  <2>2. \A d \in Dirs, n \in Names : files[d][n] # None => files'[d][n] = files[d][n]
    BY <1>3, <2>1 DEF Creates
  <2> QED BY <1>0, <1>3, <2>2 DEF Creates, Forgets, OthersGoOn, CheckedFor
<1>4. ASSUME NEW p \in Procs, NEW n \in Names, Lists(p, n) PROVE CheckedFor(q)'
  <2>1. pc[q] = "unlink" => scan'[q] = scan[q]
    BY <1>4 DEF Lists
  <2> QED BY <1>0, <1>4, <2>1 DEF Lists, CheckedFor
<1>5. ASSUME NEW p \in Procs, NEW n \in Names, Checks(p, n) PROVE CheckedFor(q)'
  <2>1. CASE q = p
    BY <1>0, <1>5, <2>1 DEF Checks, CheckedFor, Removing
  <2>2. CASE q # p
    BY <1>0, <1>5, <2>2 DEF Checks, CheckedFor
  <2> QED BY <2>1, <2>2
<1>6. ASSUME NEW p \in Procs, Unlinks(p) PROVE CheckedFor(q)'
  <2>1. CASE q = p
    BY <1>0, <1>6, <2>1 DEF Unlinks, CheckedFor
  <2>2. CASE q # p
    <3>1. pc[q] = "unlink" => work[q] # work[p]
      <4> SUFFICES ASSUME pc[q] = "unlink", work[q] = work[p] PROVE FALSE
        OBVIOUS
      <4>1. Removes(p, work[p]) /\ Removes(q, work[p]) /\ work[p] \in Dirs
        BY <1>6 DEF Unlinks, Removes, Removing
      <4> QED BY <4>1, <2>2, OneClaimant DEF LeaseExclusive
    <3>2. pc[q] = "unlink" => files'[work[q]] = files[work[q]]
      BY <1>0, <1>6, <3>1 DEF Unlinks, CheckedFor
    <3>3. /\ pc'[q] = pc[q] /\ work'[q] = work[q] /\ scan'[q] = scan[q]
          /\ target'[q] = target[q] /\ late'[q] = late[q]
      BY <1>6, <2>2 DEF Unlinks
    <3> QED BY <1>0, <3>2, <3>3 DEF CheckedFor
  <2> QED BY <2>1, <2>2
<1>7. ASSUME NEW d \in Dirs, NEW n \in Names, NEW x \in Strangers, Intrude(d, n, x)
      PROVE  CheckedFor(q)'
  <2>1. /\ UNCHANGED <<pc, work, scan, target>>
        /\ late'[q] <=> late[q] \/ (pc[q] = "unlink" /\ work[q] = d /\ target[q] = n)
    BY <1>7 DEF Intrude
  <2>2. \A e \in Dirs, m \in Names : e # d \/ m # n => files'[e][m] = files[e][m]
    BY <1>7 DEF Intrude
  <2> QED BY <1>0, <2>1, <2>2 DEF CheckedFor
<1> QED
  BY EntryStep, <1>1, <1>2, <1>3, <1>4, <1>5, <1>6, <1>7 DEF EntryChange

-----------------------------------------------------------------------------
(* The steps that change a directory's place, its maker or its marker.      *)
DirChange ==
  \/ UNCHANGED <<maker, loc, marker>>
  \/ \E p \in Procs, d \in Dirs : MakeDir(p, d)
  \/ \E p \in Procs : MakeMarker(p) \/ WriteMarker(p) \/ Unmark(p) \/ RemoveDir(p)
  \/ \E d \in Dirs : MoveAside(d) \/ MoveBack(d)
  \/ \E d \in Dirs, s \in Paths : Occupy(d, s)

LEMMA DirStep == ASSUME [Next]_vars PROVE DirChange
<1> USE DEF vars, procVars, dirVars
<1>1. ASSUME NEW p \in Procs,
             \/ Start(p) \/ Die(p) \/ OpenSpill(p) \/ LockMarker(p) \/ KeepLease(p)
             \/ Cleanup(p) \/ ListEnd(p) \/ CreateFails(p) \/ CheckOpen(p)
             \/ CreateFile(p) \/ SweepLock(p) \/ SweepCheck(p)
      PROVE  UNCHANGED <<maker, loc, marker>>
  BY <1>1 DEF Start, Die, OpenSpill, LockMarker, KeepLease, Cleanup, ListEnd, CreateFails,
     CheckOpen, CreateFile, SweepLock, SweepCheck
<1>2. ASSUME NEW p \in Procs, BeginRemoval(p) \/ CheckMarker(p)
      PROVE  UNCHANGED <<maker, loc, marker>>
  BY <1>2, Ending DEF BeginRemoval, CheckMarker
<1>3. ASSUME NEW p \in Procs, NEW n \in Names, ListEntry(p, n) \/ CheckEntry(p, n)
      PROVE  UNCHANGED <<maker, loc, marker>>
  BY <1>3, Ending DEF ListEntry, CheckEntry
<1>4. ASSUME NEW p \in Procs, UnlinkEntry(p) PROVE UNCHANGED <<maker, loc, marker>>
  BY <1>4, Ending DEF UnlinkEntry
<1>5. ASSUME NEW p \in Procs, NEW c \in Procs, Fork(p, c)
      PROVE  UNCHANGED <<maker, loc, marker>>
  BY <1>5 DEF Fork
<1>6. ASSUME NEW p \in Procs, NEW s \in Paths, Prepare(p, s)
      PROVE  UNCHANGED <<maker, loc, marker>>
  BY <1>6 DEF Prepare
<1>7. ASSUME NEW p \in Procs, NEW d \in Dirs, SweepOpen(p, d)
      PROVE  UNCHANGED <<maker, loc, marker>>
  BY <1>7 DEF SweepOpen
<1>8. ASSUME NEW d \in Dirs, Age(d) PROVE UNCHANGED <<maker, loc, marker>>
  BY <1>8 DEF Age
<1>9. ASSUME NEW d \in Dirs, NEW n \in Names, NEW x \in Strangers, Intrude(d, n, x)
      PROVE  UNCHANGED <<maker, loc, marker>>
  BY <1>9 DEF Intrude
<1>10. CASE UNCHANGED vars
  BY <1>10 DEF DirChange
<1>11. ASSUME NEW p \in Procs, Process(p) PROVE DirChange
  BY <1>1, <1>2, <1>3, <1>4, <1>5, <1>6, <1>7, <1>11 DEF Process, DirChange
<1>12. CASE Outside
  BY <1>8, <1>9, <1>12 DEF Outside, DirChange
<1> QED
  BY <1>10, <1>11, <1>12 DEF Next

(* Only mkdir makes a directory, of an inode never used.                    *)
LEMMA MakerStep ==
  ASSUME [Next]_vars
  PROVE  /\ maker' = maker \/ \E p \in Procs, d \in Dirs : MakeDir(p, d)
         /\ \A d \in Dirs : loc[d] # "new" /\ loc \in [Dirs -> {"new", "home", "aside", "gone"}]
                            => loc'[d] # "new"
BY DirStep DEF DirChange, MakeDir, MakeMarker, WriteMarker, Unmark, RemoveDir, MoveAside,
   MoveBack, Occupy

(* Files are made only in a directory that has been made.                   *)
LEMMA NewIsEmptyNext == ASSUME IInv, [Next]_vars PROVE NewIsEmpty'
<1> USE Typed DEF BaseTypes, EntryTypes
<1>1. SUFFICES ASSUME NEW d \in Dirs, loc'[d] = "new" PROVE files'[d] = Nothing
  BY DEF NewIsEmpty
<1>2. loc[d] = "new" /\ files[d] = Nothing
  BY <1>1, MakerStep DEF IInv, NewIsEmpty
<1>3. ASSUME NEW p \in Procs, Creates(p) PROVE work[p] # d
  BY <1>2, <1>3, Kinds DEF Creates, IInv, CreatorIsMaker, LeaseHeld, NewIsClean, Opening
<1>4. ASSUME NEW p \in Procs, Unlinks(p) PROVE work[p] # d
  BY <1>2, <1>4 DEF Unlinks, IInv, RemoverHolds, HoldsFor, Removing
<1>5. ASSUME NEW e \in Dirs, NEW n \in Names, NEW x \in Strangers, Intrude(e, n, x)
      PROVE  e # d
  BY <1>2, <1>5 DEF Intrude
<1> QED
  BY <1>2, <1>3, <1>4, <1>5, FilesStep DEF FilesChange, Creates, Unlinks, Intrude

(* Files are created below the maker's descriptor.                          *)
LEMMA WritesStayAnchoredNext == ASSUME IInv, [Next]_vars PROVE WritesStayAnchored'
<1> USE Typed, NothingTyped, Kinds DEF BaseTypes, EntryTypes, WritesStayAnchored
<1>0. WritesStayAnchored
  BY DEF IInv
<1>1. ASSUME NEW p \in Procs, NEW d \in Dirs, MakeDir(p, d) PROVE WritesStayAnchored'
  <2>1. files[d] = Nothing /\ files' = files
    BY <1>1 DEF MakeDir, IInv, NewIsEmpty
  <2> QED BY <1>0, <1>1, <2>1 DEF MakeDir
<1>2. CASE maker' = maker
  <2>1. CASE UNCHANGED files
    BY <1>0, <1>2, <2>1
  <2>2. ASSUME NEW p \in Procs, Creates(p), work[p] \in Dirs PROVE WritesStayAnchored'
    <3>1. maker[work[p]] = p
      <4>1. lease[p] = work[p] /\ owner[p] = p
        BY <2>2 DEF Creates, IInv, CreatorIsMaker, Opening
      <4> QED BY <2>2, <4>1 DEF IInv, LeaseHeld
    <3>2. /\ files'[work[p]]["trace"] = p
          /\ \A d \in Dirs, n \in Names :
               d # work[p] \/ n # "trace" => files'[d][n] = files[d][n]
      BY <2>2 DEF Creates
    <3> QED BY <1>0, <1>2, <3>1, <3>2
  <2>3. ASSUME NEW p \in Procs, Unlinks(p), work[p] \in Dirs, target[p] \in Names
        PROVE  WritesStayAnchored'
    <3>1. \A d \in Dirs, n \in Names : files'[d][n] \in {None, files[d][n]}
      BY <2>3 DEF Unlinks
    <3> QED BY <1>0, <1>2, <3>1
  <2>4. ASSUME NEW d \in Dirs, NEW n \in Names, NEW x \in Strangers, Intrude(d, n, x)
        PROVE  WritesStayAnchored'
    <3>1. /\ files'[d][n] = x
          /\ \A e \in Dirs, m \in Names : e # d \/ m # n => files'[e][m] = files[e][m]
      BY <2>4 DEF Intrude
    <3> QED BY <1>0, <1>2, <3>1
  <2> QED BY <2>1, <2>2, <2>3, <2>4, FilesStep DEF FilesChange
<1> QED
  BY <1>1, <1>2, MakerStep

-----------------------------------------------------------------------------
(* The inductive invariant.                                                 *)
THEOREM Invariant == Spec => []IInv
<1>1. Init => IInv
  <2> SUFFICES ASSUME Init PROVE IInv
    OBVIOUS
  <2> USE LeaseAssumption, NothingTyped DEF Init
  <2>1. BaseTypes
    BY DEF BaseTypes
  <2>2. EntryTypes
    BY DEF EntryTypes
  <2>3. LeaseHeld /\ CreatorIsMaker /\ RemoverHolds
    BY DEF LeaseHeld, CreatorIsMaker, RemoverHolds, HoldsFor, Creating, Opening, Probing, Removing
  <2>4. NewIsClean /\ NewIsEmpty
    BY DEF NewIsClean, NewIsEmpty
  <2>5. ScanLooks /\ Checked
    BY DEF ScanLooks, Checked, CheckedFor
  <2>6. WritesStayAnchored
    BY Kinds DEF WritesStayAnchored
  <2> QED
    BY <2>1, <2>2, <2>3, <2>4, <2>5, <2>6, SplitTypes DEF IInv
<1>2. IInv /\ [Next]_vars => IInv'
  <2> SUFFICES ASSUME IInv, [Next]_vars PROVE IInv'
    OBVIOUS
  <2>1. TypeOK' /\ BaseTypes /\ BaseTypes'
    BY TypeNext, SplitTypes, Typed
  <2> QED
    BY <2>1, LeaseHeldNext, CreatorIsMakerNext, RemoverHoldsNext, NewIsCleanNext,
       NewIsEmptyNext, ScanLooksNext, CheckedNext, WritesStayAnchoredNext DEF IInv
<1> QED
  BY <1>1, <1>2, PTL DEF Spec

(* Every variable keeps its type.                                           *)
THEOREM TypesHold == Spec => []TypeOK
<1>1. IInv => TypeOK
  BY DEF IInv
<1> QED
  BY <1>1, Invariant, PTL

(* Trace files are only in the directory of the session that wrote them.    *)
THEOREM WritesAnchored == Spec => []WritesStayAnchored
<1>1. IInv => WritesStayAnchored
  BY DEF IInv
<1> QED
  BY <1>1, Invariant, PTL

(* No two processes claim a directory.                                      *)
THEOREM LeaseIsExclusive == Spec => []LeaseExclusive
BY OneClaimant, Invariant, PTL

(* A marker changes in the hands of the creator or of a remover.            *)
LEMMA MarkerStep ==
  ASSUME BaseTypes, [Next]_vars, NEW d \in Dirs
  PROVE  \/ marker'[d] = marker[d]
         \/ \E p \in Procs : work[p] = d /\ pc[p] \in {"made", "locked", "unmark"}
BY DirStep DEF BaseTypes, DirChange, MakeDir, MakeMarker, WriteMarker, Unmark, RemoveDir,
   MoveAside, MoveBack, Occupy

(* Only an empty directory without a marker goes.                           *)
LEMMA GoneStep ==
  ASSUME BaseTypes, [Next]_vars, NEW d \in Dirs, loc'[d] = "gone"
  PROVE  loc[d] = "gone" \/ Empty(d)
BY DirStep DEF BaseTypes, DirChange, MakeDir, MakeMarker, WriteMarker, Unmark, RemoveDir,
   MoveAside, MoveBack, Occupy

(* No step takes anything from a directory whose owner lives.               *)
THEOREM LiveIsKept == Spec => LiveDirectoryKept
<1> DEFINE Kept ==
      \A d \in Dirs, q \in Procs :
        Owns(q, d) =>
          /\ marker'[d] = marker[d]
          /\ loc'[d] = "gone" => loc[d] = "gone"
          /\ Outside \/ \A n \in Names : files[d][n] \in {None, files'[d][n]}
<1>1. ASSUME IInv, [Next]_vars PROVE Kept
  <2> SUFFICES ASSUME NEW e \in Dirs, NEW q \in Procs, Owns(q, e)
               PROVE  /\ marker'[e] = marker[e]
                      /\ loc'[e] = "gone" => loc[e] = "gone"
                      /\ Outside \/ \A n \in Names : files[e][n] \in {None, files'[e][n]}
    OBVIOUS
  <2> USE <1>1, Typed
  <2>1. \A p \in Procs : ~Removes(p, e)
    BY OneClaimant, Kinds
    DEF IInv, LeaseExclusive, Removes, Owns, RemoverHolds, HoldsFor, Removing
  <2>2. marker'[e] = marker[e]
    <3>1. \A p \in Procs : work[p] = e => pc[p] \notin {"made", "locked"}
      BY Kinds DEF IInv, CreatorIsMaker, LeaseHeld, Owns, Creating
    <3> QED BY <2>1, <3>1, MarkerStep DEF Removes, Removing
  <2>3. loc'[e] = "gone" => loc[e] = "gone"
    BY GoneStep DEF Owns, Empty, HasMarker
  <2>4. ASSUME NEW p \in Procs, Creates(p), work[p] \in Dirs
        PROVE  \A n \in Names : files[e][n] \in {None, files'[e][n]}
    BY <2>4, NothingTyped DEF Creates, EntryTypes
  <2>5. ASSUME NEW p \in Procs, Unlinks(p), work[p] \in Dirs PROVE files'[e] = files[e]
    <3>1. work[p] # e
      BY <2>1, <2>5 DEF Unlinks, Removes, Removing
    <3> QED BY <2>5, <3>1 DEF Unlinks, EntryTypes
  <2>6. ASSUME NEW d \in Dirs, NEW n \in Names, NEW x \in Strangers, Intrude(d, n, x)
        PROVE  Outside
    BY <2>6 DEF Outside
  <2> QED BY <2>2, <2>3, <2>4, <2>5, <2>6, FilesStep DEF FilesChange
<1>2. IInv /\ [Next]_vars => [Kept]_vars
  BY <1>1
<1> QED
  BY <1>2, Invariant, PTL DEF Spec, LiveDirectoryKept

(* No step takes the directory of a file that relm did not write, and one   *)
(* takes the file only where remove_owned goes by a name: it listed the     *)
(* file as a trace, or it had checked the name before the file came.        *)
THEOREM StrangersAreKept == Spec => StrangersKept
<1> DEFINE Kept ==
      \A d \in Dirs, n \in Names : files[d][n] \in Strangers =>
        /\ loc'[d] = "gone" => loc[d] = "gone"
        /\ \/ Outside
           \/ files'[d][n] = files[d][n]
           \/ \E p \in Procs :
                /\ Removes(p, d) /\ n = target[p]
                /\ n # "other"
                /\ \/ late[p]
                   \/ files[d][n] = scan[p][n] /\ files[d][n] \in Regular
<1>1. ASSUME IInv, [Next]_vars PROVE Kept
  <2> SUFFICES ASSUME NEW e \in Dirs, NEW m \in Names, files[e][m] \in Strangers
               PROVE  /\ loc'[e] = "gone" => loc[e] = "gone"
                      /\ \/ Outside
                         \/ files'[e][m] = files[e][m]
                         \/ \E p \in Procs :
                              /\ Removes(p, e) /\ m = target[p]
                              /\ m # "other"
                              /\ \/ late[p]
                                 \/ files[e][m] = scan[p][m] /\ files[e][m] \in Regular
    OBVIOUS
  <2> USE <1>1, Typed, NothingTyped, Kinds
  <2>1. loc'[e] = "gone" => loc[e] = "gone"
    BY GoneStep DEF Empty, Strangers
  <2>2. ASSUME NEW p \in Procs, Creates(p), work[p] \in Dirs
        PROVE  files'[e][m] = files[e][m]
    BY <2>2 DEF Creates, EntryTypes
  <2>3. ASSUME NEW p \in Procs, Unlinks(p), work[p] \in Dirs, target[p] \in Names,
               files'[e][m] # files[e][m]
        PROVE  /\ Removes(p, e) /\ m = target[p]
               /\ m # "other"
               /\ late[p] \/ (files[e][m] = scan[p][m] /\ files[e][m] \in Regular)
    <3>1. work[p] = e /\ target[p] = m
      BY <2>3 DEF Unlinks, EntryTypes
    <3>2. /\ scan[p][m] # None
          /\ late[p] \/ files[e][m] = scan[p][m]
      BY <2>3, <3>1 DEF Unlinks, IInv, Checked, CheckedFor
    <3>3. m # "other" /\ scan[p][m] \in Procs \cup Regular
      BY <3>2 DEF IInv, ScanLooks, LooksLikeTrace
    <3> QED BY <2>3, <3>1, <3>2, <3>3 DEF Unlinks, Removes, Removing
  <2>4. ASSUME NEW d \in Dirs, NEW n \in Names, NEW x \in Strangers, Intrude(d, n, x)
        PROVE  Outside
    BY <2>4 DEF Outside
  <2> QED BY <2>1, <2>2, <2>3, <2>4, FilesStep DEF FilesChange
<1>2. IInv /\ [Next]_vars => [Kept]_vars
  BY <1>1
<1> QED
  BY <1>2, Invariant, PTL DEF Spec, StrangersKept
==============================================================================

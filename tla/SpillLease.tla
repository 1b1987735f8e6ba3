------------------------------ MODULE SpillLease ------------------------------
(***************************************************************************)
(* The lifetime lease on a session's managed spill directory: the C++       *)
(* bridge rebirth-llm/native/spill_lease.cpp, the registry of               *)
(* rebirth-llm/src/spill_lease.rs and the R session logic of R/zzz.R.       *)
(*                                                                         *)
(* Several R processes share one cache directory.  Each registers a path of *)
(* its own, creates the directory with an flock'ed marker at its first      *)
(* spill, writes trace files in it and removes it at exit; each removes, on *)
(* load, the aged directories nobody holds.  Processes fork, crash and      *)
(* restart under a recycled pid, and something outside the program (a user  *)
(* tidying the cache) moves directories and puts files of its own into them *)
(* or over the entries there.                                               *)
(*                                                                         *)
(* A directory is an inode: `home' is the path it was made at, `loc' where  *)
(* its name is now.  The marker is made once per directory.  A flock        *)
(* belongs to an open file description, which fork shares, so `locked' is   *)
(* the set of processes that have the locked description open: the lock is  *)
(* free when it is empty.  What a name in a directory leads to is an inode  *)
(* too: the trace of a process, or a stranger.  relm goes by the name and   *)
(* by what stat says, so it cannot tell a stranger that looks like a trace. *)
(* Each process does one registry or sweep operation at a time: the         *)
(* registry has a mutex, and R loads and unloads the package on its main    *)
(* thread.                                                                  *)
(***************************************************************************)
EXTENDS Naturals, FiniteSets

CONSTANTS
  Procs,     \* process ids; the operating system recycles them
  Paths,     \* managed session paths <cache>/spill/<pid>-<token>
  Dirs,      \* inode numbers of directories; each is used once
  None,      \* no process, path or directory
  Regular,   \* files relm did not write: the user's, regular, of one link
  Odd,       \* ... links, directories, files of more links or other users
  MaxMoves   \* bound on the moves and the intrusions from outside

ASSUME LeaseAssumption ==
  /\ None \notin Procs \cup Paths \cup Dirs \cup Regular \cup Odd
  /\ Procs \cap (Regular \cup Odd) = {}
  /\ Regular \cap Odd = {}
  /\ MaxMoves \in Nat

VARIABLES
  pc,       \* what each process is doing, "dead" if it is not running
  path,     \* registry: the session path the process registered
  owner,    \* registry: the pid recorded with it (copied by fork)
  lease,    \* registry: the directory whose lease the entry keeps
  work,     \* the directory the operation in progress has open
  scan,     \* what the preflight of a removal found under each name
  target,   \* the name a removal has checked and is about to unlink
  late,     \* another file was put under that name since (history)
  home,     \* per directory: the path it was made at
  loc,      \* per directory: "new", "home", "aside" (moved) or "gone"
  maker,    \* per directory: the process that made it (history)
  marker,   \* per directory: "none", "empty", "format" or "unlinked"
  locked,   \* per directory: processes holding the locked description
  files,    \* per directory: what each name in it leads to
  old,      \* per directory: its modification time is below the cutoff
  moves     \* how often something outside moved or intruded

procVars == <<pc, path, owner, lease, work, scan, target, late>>
dirVars  == <<home, loc, maker, marker, locked, files, old>>
vars     == <<procVars, dirVars, moves>>

Creating == {"mkdir", "made", "marked", "locked", "written"}
Opening  == {"check", "opening"}
Probing  == {"probe", "probed"}
Removing == {"remove", "scan", "delete", "unlink", "unmark", "rmdir"}

\* A trace has a fresh name of the form trace-*.arrow; "stray" is another
\* name of this form, and "other" is any other name but the marker's.
Names == {"trace", "stray", "other"}

Strangers == Regular \cup Odd
Files     == Procs \cup Strangers
Nothing   == [n \in Names |-> None]

TypeOK ==
  /\ pc \in [Procs -> {"dead", "idle", "stuck"} \cup Creating \cup Opening
                        \cup Probing \cup Removing]
  /\ path \in [Procs -> Paths \cup {None}]
  /\ owner \in [Procs -> Procs \cup {None}]
  /\ lease \in [Procs -> Dirs \cup {None}]
  /\ work \in [Procs -> Dirs \cup {None}]
  /\ scan \in [Procs -> [Names -> Files \cup {None}]]
  /\ target \in [Procs -> Names \cup {None}]
  /\ late \in [Procs -> BOOLEAN]
  /\ home \in [Dirs -> Paths \cup {None}]
  /\ loc \in [Dirs -> {"new", "home", "aside", "gone"}]
  /\ maker \in [Dirs -> Procs \cup {None}]
  /\ marker \in [Dirs -> {"none", "empty", "format", "unlinked"}]
  /\ locked \in [Dirs -> SUBSET Procs]
  /\ files \in [Dirs -> [Names -> Files \cup {None}]]
  /\ old \in [Dirs -> BOOLEAN]
  /\ moves \in 0..MaxMoves

Init ==
  /\ pc = [p \in Procs |-> "dead"]
  /\ path = [p \in Procs |-> None]
  /\ owner = [p \in Procs |-> None]
  /\ lease = [p \in Procs |-> None]
  /\ work = [p \in Procs |-> None]
  /\ scan = [p \in Procs |-> Nothing]
  /\ target = [p \in Procs |-> None]
  /\ late = [p \in Procs |-> FALSE]
  /\ home = [d \in Dirs |-> None]
  /\ loc = [d \in Dirs |-> "new"]
  /\ maker = [d \in Dirs |-> None]
  /\ marker = [d \in Dirs |-> "none"]
  /\ locked = [d \in Dirs |-> {}]
  /\ files = [d \in Dirs |-> Nothing]
  /\ old = [d \in Dirs |-> FALSE]
  /\ moves = 0

-----------------------------------------------------------------------------
(* What the file system answers. *)

\* d's name is at the path it was made at.
InPlace(d) == loc[d] = "home"

\* Some directory is at path s.
Taken(s) == \E d \in Dirs : InPlace(d) /\ home[d] = s

\* The marker can be opened by name.
HasMarker(d) == marker[d] \in {"empty", "format"}

\* Lease::identity: the path still leads to the directory that was opened,
\* and the marker in it is still the locked one, with its one link.
Identity(d) == InPlace(d) /\ HasMarker(d)

\* rmdir succeeds on an empty directory only.
Empty(d) == files[d] = Nothing /\ ~HasMarker(d)

(* Operators named Mutant... are not part of the system.  Each is the       *)
(* operator defined after it with one plausible defect, and shows that the  *)
(* properties notice that defect.                                          *)
(* The lock is given up explicitly, for every process that shares it.       *)
MutantRelease(p, d) == locked' = [locked EXCEPT ![d] = {}]

\* Close every descriptor p has on d.  An flock ends with the last one.
Release(p, d) == locked' = [locked EXCEPT ![d] = @ \ {p}]

\* The operation of p is over; its temporaries are dropped.
Finish(p) ==
  /\ pc' = [pc EXCEPT ![p] = "idle"]
  /\ work' = [work EXCEPT ![p] = None]
  /\ scan' = [scan EXCEPT ![p] = Nothing]
  /\ target' = [target EXCEPT ![p] = None]
  /\ late' = [late EXCEPT ![p] = FALSE]

Goto(p, step) == pc' = [pc EXCEPT ![p] = step]

-----------------------------------------------------------------------------
(* The life of a process. *)

\* A fresh R process loads the package.
Start(p) ==
  /\ pc[p] = "dead"
  /\ Goto(p, "idle")
  /\ UNCHANGED <<path, owner, lease, work, scan, target, late, dirVars, moves>>

\* p ends, by a crash or after its exit handlers: the kernel closes its
\* descriptors, the files stay.
Die(p) ==
  /\ pc[p] # "dead"
  /\ pc' = [pc EXCEPT ![p] = "dead"]
  /\ path' = [path EXCEPT ![p] = None]
  /\ owner' = [owner EXCEPT ![p] = None]
  /\ lease' = [lease EXCEPT ![p] = None]
  /\ work' = [work EXCEPT ![p] = None]
  /\ scan' = [scan EXCEPT ![p] = Nothing]
  /\ target' = [target EXCEPT ![p] = None]
  /\ late' = [late EXCEPT ![p] = FALSE]
  /\ locked' = [d \in Dirs |-> locked[d] \ {p}]
  /\ UNCHANGED <<home, loc, maker, marker, files, old, moves>>

\* p forks c (parallel::mclapply): the child has a copy of the registry and
\* shares every open description.  R forks on its main thread, so never
\* inside a sweep or a cleanup; a worker thread may be inside an open, and
\* then the child's copy of the registry mutex stays locked.
Fork(p, c) ==
  /\ pc[p] \in {"idle", "stuck"} \cup Creating \cup Opening
  /\ pc[c] = "dead"
  /\ pc' = [pc EXCEPT ![c] = IF pc[p] = "idle" THEN "idle" ELSE "stuck"]
  /\ path' = [path EXCEPT ![c] = path[p]]
  /\ owner' = [owner EXCEPT ![c] = owner[p]]
  /\ lease' = [lease EXCEPT ![c] = lease[p]]
  /\ locked' = [d \in Dirs |-> IF p \in locked[d] THEN locked[d] \cup {c}
                                                   ELSE locked[d]]
  /\ UNCHANGED <<work, scan, target, late, home, loc, maker, marker, files,
                 old, moves>>

-----------------------------------------------------------------------------
(* Registering a session and opening a spill file in its directory. *)

\* spill_session_dir and prepare_managed_spill: memory only.  The path has
\* the pid and a fresh token in it, so no running process has it; a dead
\* one may have had it.
Prepare(p, s) ==
  /\ pc[p] = "idle"
  /\ path[p] = None
  /\ \A q \in Procs : path[q] # s
  /\ path' = [path EXCEPT ![p] = s]
  /\ owner' = [owner EXCEPT ![p] = p]
  /\ UNCHANGED <<pc, lease, work, scan, target, late, dirVars, moves>>

\* open_managed_spill, under the registry mutex: an entry inherited through
\* fork is refused; a lease must still be valid; without one, make it.
OpenSpill(p) ==
  /\ pc[p] = "idle"
  /\ path[p] # None
  /\ owner[p] = p
  /\ IF lease[p] = None
       THEN /\ Goto(p, "mkdir")
            /\ UNCHANGED work
       ELSE /\ Identity(lease[p])
            /\ Goto(p, "check")
            /\ work' = [work EXCEPT ![p] = lease[p]]
  /\ UNCHANGED <<path, owner, lease, scan, target, late, dirVars, moves>>

\* acquire(create): mkdirat fails if the path is taken.
MakeDir(p, d) ==
  /\ pc[p] = "mkdir"
  /\ loc[d] = "new"
  /\ ~Taken(path[p])
  /\ home' = [home EXCEPT ![d] = path[p]]
  /\ loc' = [loc EXCEPT ![d] = "home"]
  /\ maker' = [maker EXCEPT ![d] = p]
  /\ work' = [work EXCEPT ![p] = d]
  /\ Goto(p, "made")
  /\ UNCHANGED <<path, owner, lease, scan, target, late, marker, locked, files,
                 old, moves>>

\* acquire(create): openat(O_CREAT | O_EXCL) makes the marker, empty.
MakeMarker(p) ==
  /\ pc[p] = "made"
  /\ loc[work[p]] # "gone"
  /\ marker' = [marker EXCEPT ![work[p]] = "empty"]
  /\ old' = [old EXCEPT ![work[p]] = FALSE]
  /\ Goto(p, "marked")
  /\ UNCHANGED <<path, owner, lease, work, scan, target, late, home, loc, maker,
                 locked, files, moves>>

\* acquire: flock(LOCK_EX | LOCK_NB).  A sweep that probes the directory at
\* this moment makes it fail.
LockMarker(p) ==
  /\ pc[p] = "marked"
  /\ locked[work[p]] = {}
  /\ locked' = [locked EXCEPT ![work[p]] = {p}]
  /\ Goto(p, "locked")
  /\ UNCHANGED <<path, owner, lease, work, scan, target, late, home, loc, maker,
                 marker, files, old, moves>>

\* acquire(create): write the format line and read it back.
WriteMarker(p) ==
  /\ pc[p] = "locked"
  /\ marker' = [marker EXCEPT ![work[p]] = "format"]
  /\ Goto(p, "written")
  /\ UNCHANGED <<path, owner, lease, work, scan, target, late, home, loc, maker,
                 locked, files, old, moves>>

\* acquire(create): the last check, then the registry keeps the lease.
KeepLease(p) ==
  /\ pc[p] = "written"
  /\ Identity(work[p])
  /\ lease' = [lease EXCEPT ![p] = work[p]]
  /\ Goto(p, "check")
  /\ UNCHANGED <<path, owner, work, scan, target, late, dirVars, moves>>

\* Any step of the creation fails (the path is taken, the directory is gone,
\* the lock is held, the disk is full, the path leads elsewhere): what is on
\* disk stays, the descriptors are closed and the entry has no lease.
CreateFails(p) ==
  /\ \/ pc[p] = "mkdir"
     \/ pc[p] = "made"
     \/ pc[p] = "marked" /\ locked[work[p]] # {}
     \/ pc[p] = "locked"
     \/ pc[p] = "written" /\ ~Identity(work[p])
  /\ IF pc[p] \in {"locked", "written"} THEN Release(p, work[p])
                                        ELSE UNCHANGED locked
  /\ Finish(p)
  /\ UNCHANGED <<path, owner, lease, home, loc, maker, marker, files, old,
                 moves>>

\* relm_spill_lease_open: the identity check before the file is created.
CheckOpen(p) ==
  /\ pc[p] = "check"
  /\ IF Identity(work[p])
       THEN Goto(p, "opening") /\ UNCHANGED <<work, scan, target, late>>
       ELSE Finish(p)
  /\ UNCHANGED <<path, owner, lease, dirVars, moves>>

(* The file is opened by the session's path.                                *)
MutantCreateFile(p) ==
  /\ pc[p] = "opening"
  /\ files' = [d \in Dirs |->
                 IF InPlace(d) /\ home[d] = path[p] /\ files[d]["trace"] = None
                   THEN [files[d] EXCEPT !["trace"] = p] ELSE files[d]]
  /\ Finish(p)
  /\ UNCHANGED <<path, owner, lease, home, loc, maker, marker, locked, old, moves>>

\* relm_spill_lease_open: openat(O_EXCL) below the leased directory's
\* descriptor, wherever its name is by now; a name that is taken is refused.
\* The second trace of a session is not told apart from its first.  The check
\* after it decides only whether the caller gets the descriptor: the file
\* stays in either case.
CreateFile(p) ==
  /\ pc[p] = "opening"
  /\ IF files[work[p]]["trace"] = None
       THEN /\ files' = [files EXCEPT ![work[p]]["trace"] = p]
            /\ old' = [old EXCEPT ![work[p]] = FALSE]
       ELSE UNCHANGED <<files, old>>
  /\ Finish(p)
  /\ UNCHANGED <<path, owner, lease, home, loc, maker, marker, locked, moves>>

-----------------------------------------------------------------------------
(* Removing a directory: at exit, and on load for the aged orphans. *)

(* An inherited entry is cleaned up like the process's own.                 *)
MutantCleanup(p) ==
  /\ pc[p] = "idle"
  /\ lease[p] # None
  /\ path' = [path EXCEPT ![p] = None]
  /\ owner' = [owner EXCEPT ![p] = None]
  /\ lease' = [lease EXCEPT ![p] = None]
  /\ Goto(p, "remove")
  /\ work' = [work EXCEPT ![p] = lease[p]]
  /\ UNCHANGED <<locked, scan, target, late, home, loc, maker, marker, files, old,
                 moves>>

\* cleanup_spill_session and cleanup_managed_spill: the entry leaves the
\* registry first.  An inherited entry only loses its descriptors.
Cleanup(p) ==
  /\ pc[p] = "idle"
  /\ path[p] # None
  /\ path' = [path EXCEPT ![p] = None]
  /\ owner' = [owner EXCEPT ![p] = None]
  /\ lease' = [lease EXCEPT ![p] = None]
  /\ IF owner[p] = p /\ lease[p] # None
       THEN /\ Goto(p, "remove")
            /\ work' = [work EXCEPT ![p] = lease[p]]
            /\ UNCHANGED locked
       ELSE /\ IF lease[p] # None THEN Release(p, lease[p])
                                  ELSE UNCHANGED locked
            /\ UNCHANGED <<pc, work>>
  /\ UNCHANGED <<scan, target, late, home, loc, maker, marker, files, old, moves>>

\* sweep_old_spill_dirs and acquire(no create): every directory below the
\* root but the session's own; open it and its marker.
SweepOpen(p, d) ==
  /\ pc[p] = "idle"
  /\ Identity(d)
  /\ home[d] # path[p]
  /\ work' = [work EXCEPT ![p] = d]
  /\ Goto(p, "probe")
  /\ UNCHANGED <<path, owner, lease, scan, target, late, dirVars, moves>>

\* acquire(no create): flock(LOCK_EX | LOCK_NB).
SweepLock(p) ==
  /\ pc[p] = "probe"
  /\ IF locked[work[p]] = {}
       THEN /\ locked' = [locked EXCEPT ![work[p]] = {p}]
            /\ Goto(p, "probed")
            /\ UNCHANGED <<work, scan, target, late>>
       ELSE Finish(p) /\ UNCHANGED locked
  /\ UNCHANGED <<path, owner, lease, home, loc, maker, marker, files, old,
                 moves>>

\* acquire(no create) and relm_spill_lease_sweep: the marker has its link
\* and the format line, the path leads to this directory, and it is old.
Sweepable(d) == marker[d] = "format" /\ Identity(d) /\ old[d]

SweepCheck(p) ==
  /\ pc[p] = "probed"
  /\ IF Sweepable(work[p])
       THEN Goto(p, "remove") /\ UNCHANGED <<work, scan, target, late, locked>>
       ELSE Finish(p) /\ Release(p, work[p])
  /\ UNCHANGED <<path, owner, lease, home, loc, maker, marker, files, old,
                 moves>>

\* remove_owned: give up and close, whatever was removed so far.
GiveUp(p) ==
  /\ Finish(p)
  /\ Release(p, work[p])
  /\ UNCHANGED <<home, loc, marker, files, old>>

\* remove_owned: the identity, before anything else.
BeginRemoval(p) ==
  /\ pc[p] = "remove"
  /\ IF Identity(work[p])
       THEN Goto(p, "scan") /\ UNCHANGED <<work, scan, target, late, dirVars>>
       ELSE GiveUp(p) /\ UNCHANGED maker
  /\ UNCHANGED <<path, owner, lease, moves>>

\* What remove_owned takes for a trace: by its name, and by what stat says.
LooksLikeTrace(n, f) == n # "other" /\ f \in Procs \cup Regular

\* remove_owned, the preflight: look at one entry below the descriptor.  One
\* that does not look like a trace refuses the whole removal.
ListEntry(p, n) ==
  /\ pc[p] = "scan"
  /\ scan[p][n] = None
  /\ LET f == files[work[p]][n] IN
       /\ f # None
       /\ IF LooksLikeTrace(n, f)
            THEN /\ scan' = [scan EXCEPT ![p][n] = f]
                 /\ UNCHANGED <<pc, work, target, late, dirVars>>
            ELSE GiveUp(p) /\ UNCHANGED maker
  /\ UNCHANGED <<path, owner, lease, moves>>

\* remove_owned, the preflight: every entry was looked at.  One that comes
\* now is not seen.
ListEnd(p) ==
  /\ pc[p] = "scan"
  /\ \A n \in Names : files[work[p]][n] # None => scan[p][n] # None
  /\ Goto(p, "delete")
  /\ UNCHANGED <<path, owner, lease, work, scan, target, late, dirVars, moves>>

(* The file under the name is not compared with the one of the preflight.   *)
MutantCheckEntry(p, n) ==
  /\ pc[p] = "delete"
  /\ scan[p][n] # None
  /\ IF Identity(work[p]) /\ LooksLikeTrace(n, files[work[p]][n])
       THEN /\ Goto(p, "unlink")
            /\ target' = [target EXCEPT ![p] = n]
            /\ UNCHANGED <<work, scan, late, dirVars>>
       ELSE GiveUp(p) /\ UNCHANGED maker
  /\ UNCHANGED <<path, owner, lease, moves>>

\* remove_owned: the next entry of the preflight is checked; its name must
\* still lead to the same file.
CheckEntry(p, n) ==
  /\ pc[p] = "delete"
  /\ scan[p][n] # None
  /\ IF Identity(work[p]) /\ files[work[p]][n] = scan[p][n]
       THEN /\ Goto(p, "unlink")
            /\ target' = [target EXCEPT ![p] = n]
            /\ UNCHANGED <<work, scan, late, dirVars>>
       ELSE GiveUp(p) /\ UNCHANGED maker
  /\ UNCHANGED <<path, owner, lease, moves>>

\* remove_owned: unlinkat by name removes what is under the name by now, or
\* fails (it is a directory, it may not be removed).
UnlinkEntry(p) ==
  /\ pc[p] = "unlink"
  /\ \/ /\ files' = [files EXCEPT ![work[p]][target[p]] = None]
        /\ old' = [old EXCEPT ![work[p]] = FALSE]
        /\ scan' = [scan EXCEPT ![p][target[p]] = None]
        /\ target' = [target EXCEPT ![p] = None]
        /\ late' = [late EXCEPT ![p] = FALSE]
        /\ Goto(p, "delete")
        /\ UNCHANGED <<work, home, loc, marker, locked>>
     \/ GiveUp(p)
  /\ UNCHANGED <<path, owner, lease, maker, moves>>

\* remove_owned: every entry is gone; the identity once more.
CheckMarker(p) ==
  /\ pc[p] = "delete"
  /\ scan[p] = Nothing
  /\ IF Identity(work[p])
       THEN Goto(p, "unmark") /\ UNCHANGED <<work, scan, target, late, dirVars>>
       ELSE GiveUp(p) /\ UNCHANGED maker
  /\ UNCHANGED <<path, owner, lease, moves>>

\* remove_owned: unlink the marker below the descriptor.
Unmark(p) ==
  /\ pc[p] = "unmark"
  /\ marker' = [marker EXCEPT ![work[p]] = "unlinked"]
  /\ old' = [old EXCEPT ![work[p]] = FALSE]
  /\ Goto(p, "rmdir")
  /\ UNCHANGED <<path, owner, lease, work, scan, target, late, home, loc, maker,
                 locked, files, moves>>

\* remove_owned: rmdir by name, whatever is at the path now; then the lock
\* goes.
RemoveDir(p) ==
  /\ pc[p] = "rmdir"
  /\ loc' = [d \in Dirs |->
               IF InPlace(d) /\ home[d] = home[work[p]] /\ Empty(d)
                 THEN "gone" ELSE loc[d]]
  /\ Finish(p)
  /\ Release(p, work[p])
  /\ UNCHANGED <<path, owner, lease, home, maker, marker, files, old, moves>>

-----------------------------------------------------------------------------
(* What happens around the program. *)

\* Seven days pass without a change to d.
Age(d) ==
  /\ loc[d] # "new"
  /\ ~old[d]
  /\ old' = [old EXCEPT ![d] = TRUE]
  /\ UNCHANGED <<procVars, home, loc, maker, marker, locked, files, moves>>

\* Something renames d away ...
MoveAside(d) ==
  /\ InPlace(d)
  /\ moves < MaxMoves
  /\ moves' = moves + 1
  /\ loc' = [loc EXCEPT ![d] = "aside"]
  /\ UNCHANGED <<procVars, home, maker, marker, locked, files, old>>

\* ... and back, if its place is free.
MoveBack(d) ==
  /\ loc[d] = "aside"
  /\ ~Taken(home[d])
  /\ loc' = [loc EXCEPT ![d] = "home"]
  /\ UNCHANGED <<procVars, home, maker, marker, locked, files, old, moves>>

\* Something puts a file of its own under a name of d, perhaps over the
\* entry that is there.  One that has another name elsewhere has two links.
Intrude(d, n, x) ==
  /\ loc[d] \in {"home", "aside"}
  /\ moves < MaxMoves
  /\ moves' = moves + 1
  /\ \A e \in Dirs, m \in Names : files[e][m] # x
  /\ files' = [files EXCEPT ![d][n] = x]
  /\ old' = [old EXCEPT ![d] = FALSE]
  /\ late' = [p \in Procs |->
                late[p] \/ (pc[p] = "unlink" /\ work[p] = d /\ target[p] = n)]
  /\ UNCHANGED <<pc, path, owner, lease, work, scan, target, home, loc, maker,
                 marker, locked>>

\* Something makes a directory of its own at a session's path; Dirs bounds
\* how often.
Occupy(d, s) ==
  /\ loc[d] = "new"
  /\ ~Taken(s)
  /\ home' = [home EXCEPT ![d] = s]
  /\ loc' = [loc EXCEPT ![d] = "home"]
  /\ UNCHANGED <<procVars, maker, marker, locked, files, old, moves>>

Process(p) ==
  \/ Start(p)
  \/ Die(p)
  \/ \E c \in Procs : Fork(p, c)
  \/ \E s \in Paths : Prepare(p, s)
  \/ OpenSpill(p)
  \/ \E d \in Dirs : MakeDir(p, d)
  \/ MakeMarker(p)
  \/ LockMarker(p)
  \/ WriteMarker(p)
  \/ KeepLease(p)
  \/ CreateFails(p)
  \/ CheckOpen(p)
  \/ CreateFile(p)
  \/ Cleanup(p)
  \/ \E d \in Dirs : SweepOpen(p, d)
  \/ SweepLock(p)
  \/ SweepCheck(p)
  \/ BeginRemoval(p)
  \/ \E n \in Names : ListEntry(p, n)
  \/ ListEnd(p)
  \/ \E n \in Names : CheckEntry(p, n)
  \/ UnlinkEntry(p)
  \/ CheckMarker(p)
  \/ Unmark(p)
  \/ RemoveDir(p)

Outside ==
  \E d \in Dirs :
    \/ Age(d)
    \/ MoveAside(d)
    \/ MoveBack(d)
    \/ \E n \in Names, x \in Strangers : Intrude(d, n, x)
    \/ \E s \in Paths : Occupy(d, s)

Next == (\E p \in Procs : Process(p)) \/ Outside

Spec == Init /\ [][Next]_vars

-----------------------------------------------------------------------------

\* q is a live session that holds the lease on d and has not begun its own
\* cleanup.  A forked child holds the descriptors but is not the owner.
Owns(q, d) ==
  /\ pc[q] # "dead"
  /\ lease[q] = d
  /\ owner[q] = q
  /\ marker[d] = "format"

\* p is in the middle of removing d.
Removes(p, d) == pc[p] \in Removing /\ work[p] = d

\* A directory has one claimant: the live session whose lease it is, or the
\* one process that removes it, whatever forks, crashes, recycled pids and
\* concurrent sweeps came before (acquire, remove_owned).
LeaseExclusive ==
  \A d \in Dirs, p \in Procs, q \in Procs :
    /\ Owns(p, d) \/ Removes(p, d)
    /\ Owns(q, d) \/ Removes(q, d)
    => p = q

\* Age alone never takes a live session's directory away: while its owner
\* runs and has not begun its cleanup, no step of any process removes an
\* entry, the marker or the directory itself (relm_spill_lease_sweep,
\* cleanup_managed_spill).
LiveDirectoryKept ==
  [][\A d \in Dirs, q \in Procs :
       Owns(q, d) =>
         /\ marker'[d] = marker[d]
         /\ loc'[d] = "gone" => loc[d] = "gone"
         /\ Outside \/ \A n \in Names : files[d][n] \in {None, files'[d][n]}]_vars

\* Trace files are only in the directory of the session that wrote them:
\* not in one that was put at its path between the identity check and the
\* creation of the file (relm_spill_lease_open).
WritesStayAnchored ==
  \A d \in Dirs, n \in Names : files[d][n] \in Procs => files[d][n] = maker[d]

\* A file that relm did not write survives every step of every process, and
\* so does its directory, with the two exceptions that remove_owned leaves by
\* going by name: it looks like a trace and was there, under this name, when
\* the removal did its preflight; or it was put under a name the removal had
\* just checked, before the unlink.  Nothing that comes after the preflight
\* goes otherwise, whoever wrote it, and nothing under another name ever.
StrangersKept ==
  [][\A d \in Dirs, n \in Names : files[d][n] \in Strangers =>
        /\ loc'[d] = "gone" => loc[d] = "gone"
        /\ \/ Outside
           \/ files'[d][n] = files[d][n]
           \/ \E p \in Procs :
                /\ Removes(p, d) /\ n = target[p]
                /\ n # "other"
                /\ \/ late[p]
                   \/ files[d][n] = scan[p][n] /\ files[d][n] \in Regular]_vars
==============================================================================

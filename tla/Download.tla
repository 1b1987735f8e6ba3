------------------------------ MODULE Download ------------------------------
(***************************************************************************)
(* The model cache of R/download.R: sessions that download the same pinned  *)
(* model to the same directory, each of them perhaps killed at any point.   *)
(* A session checks the file that is there, removes a wrong one, fetches to *)
(* a temporary file of its own, verifies that, and moves it into place, by  *)
(* a rename or, where the file system refuses one, by R's file.copy, which  *)
(* creates the file and then appends to it.                                 *)
(***************************************************************************)
EXTENDS Naturals

CONSTANT Sessions

VARIABLES
  pc,         \* per session: its place in download_verify
  part,       \* per session: what its temporary file has
  dest,       \* what the destination path has
  ended,      \* a call came to its end, with a path or with an error (history)
  copied,     \* a rename was refused (history)
  undeleted   \* an unlink of the destination failed (history)

vars == <<pc, part, dest, ended, copied, undeleted>>

Contents == {"none", "leftover", "empty", "partial", "mixed", "verified"}

TypeOK ==
  /\ pc \in [Sessions -> {"idle", "check", "remove", "fetch", "verify", "move", "create",
                          "append", "leave"}]
  /\ part \in [Sessions -> {"none", "wrong", "verified"}]
  /\ dest \in Contents
  /\ ended \in BOOLEAN /\ copied \in BOOLEAN /\ undeleted \in BOOLEAN

Init ==
  /\ pc = [s \in Sessions |-> "idle"]
  /\ part = [s \in Sessions |-> "none"]
  /\ dest \in {"none", "leftover", "verified"}
  /\ ended = FALSE /\ copied = FALSE /\ undeleted = FALSE

Goto(s, place) == pc' = [pc EXCEPT ![s] = place]

Call(s) ==
  /\ pc[s] = "idle"
  /\ Goto(s, "check")
  /\ UNCHANGED <<part, dest, ended, copied, undeleted>>

\* file.exists, and the checksum of what is there.  A file that is wrong,
\* that cannot be read or that is gone by the time it is read is to go.
Check(s) ==
  /\ pc[s] = "check"
  /\ \/ dest = "verified" /\ Goto(s, "leave")
     \/ dest = "none" /\ Goto(s, "fetch")
     \/ Goto(s, "remove")
  /\ UNCHANGED <<part, dest, ended, copied, undeleted>>

\* unlink of whatever the path has by now.  Its result is not looked at: a
\* file that cannot be removed stays, and the call goes on.
RemoveWrong(s) ==
  /\ pc[s] = "remove"
  /\ Goto(s, "fetch")
  /\ \/ dest' = "none" /\ UNCHANGED undeleted
     \/ dest # "none" /\ undeleted' = TRUE /\ UNCHANGED dest
  /\ UNCHANGED <<part, ended, copied>>

(* Operators named Mutant... are not part of the system: this one fetches   *)
(* to the final path and has the checksum look there.                       *)
MutantFetch(s) ==
  /\ pc[s] = "fetch"
  /\ \/ /\ Goto(s, "verify")
        /\ \E bytes \in {"wrong", "verified"} :
             /\ part' = [part EXCEPT ![s] = bytes]
             /\ dest' = IF bytes = "wrong" THEN "mixed" ELSE bytes
     \/ Goto(s, "leave") /\ dest' = "partial" /\ UNCHANGED part
  /\ UNCHANGED <<ended, copied, undeleted>>

\* fetch_url: the model, other bytes, or an error after partial ones.
Fetch(s) ==
  /\ pc[s] = "fetch"
  /\ \/ /\ Goto(s, "verify")
        /\ \E bytes \in {"wrong", "verified"} : part' = [part EXCEPT ![s] = bytes]
     \/ Goto(s, "leave") /\ UNCHANGED part
  /\ UNCHANGED <<dest, ended, copied, undeleted>>

Verify(s) ==
  /\ pc[s] = "verify"
  /\ Goto(s, IF part[s] = "verified" THEN "move" ELSE "leave")
  /\ UNCHANGED <<part, dest, ended, copied, undeleted>>

-----------------------------------------------------------------------------
(* move_into_place.                                                         *)

Rename(s) ==
  /\ pc[s] = "move"
  /\ Goto(s, "leave")
  /\ dest' = part[s] /\ part' = [part EXCEPT ![s] = "none"]
  /\ UNCHANGED <<ended, copied, undeleted>>

Refused(s) ==
  /\ pc[s] = "move"
  /\ Goto(s, "create")
  /\ copied' = TRUE
  /\ UNCHANGED <<part, dest, ended, undeleted>>

\* file.copy: file.create, or no copy.
Create(s) ==
  /\ pc[s] = "create"
  /\ \/ Goto(s, "append") /\ dest' = "empty"
     \/ Goto(s, "leave") /\ UNCHANGED dest
  /\ UNCHANGED <<part, ended, copied, undeleted>>

\* file.append, of all or of some of it, to what the path has by now.
Append(s) ==
  /\ pc[s] = "append"
  /\ Goto(s, "leave")
  /\ \/ dest' = IF dest \in {"none", "empty"} THEN part[s] ELSE "mixed"
     \/ dest' = IF dest \in {"none", "empty"} THEN "partial" ELSE "mixed"
  /\ UNCHANGED <<part, ended, copied, undeleted>>

-----------------------------------------------------------------------------
\* The value or the error, with on.exit removing the temporary file.
Leave(s) ==
  /\ pc[s] = "leave"
  /\ Goto(s, "idle")
  /\ part' = [part EXCEPT ![s] = "none"]
  /\ ended' = TRUE
  /\ UNCHANGED <<dest, copied, undeleted>>

\* The session is killed; nobody looks at its temporary file again.
Die(s) ==
  /\ pc[s] # "idle"
  /\ Goto(s, "idle")
  /\ part' = [part EXCEPT ![s] = "none"]
  /\ UNCHANGED <<dest, ended, copied, undeleted>>

Step(s) ==
  \/ Call(s) \/ Check(s) \/ RemoveWrong(s) \/ Fetch(s) \/ Verify(s) \/ Rename(s)
  \/ Refused(s) \/ Create(s) \/ Append(s) \/ Leave(s) \/ Die(s)

Next == \E s \in Sessions : Step(s)

Spec == Init /\ [][Next]_vars

-----------------------------------------------------------------------------
(***************************************************************************)
(* Properties.                                                             *)
(***************************************************************************)
(* "The destination path never contains unverified or partial bytes" of a   *)
(* download, and a corrupt file from before is gone once any call came to   *)
(* its end, with a path or with an error, unless its unlink failed:         *)
(* whatever the sessions do between each other's steps and wherever they    *)
(* are killed, as long as the file system refuses no rename                 *)
(* (download_verify, move_into_place).  That a corrupt file can stay at all *)
(* is not what the comment at download.R:234-235 says: the code does not    *)
(* look at the result of the unlink.                                        *)
DestinationVerified ==
  ~copied => \/ dest \in {"none", "verified"}
             \/ dest = "leftover" /\ (ended => undeleted)
=============================================================================

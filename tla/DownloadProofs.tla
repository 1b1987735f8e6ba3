--------------------------- MODULE DownloadProofs ---------------------------
(***************************************************************************)
(* Proofs about Download, for every set of sessions.                        *)
(***************************************************************************)
EXTENDS Download, TLAPS

(* Only a verified file is moved, and as long as the file system refused no *)
(* rename nobody copies; a session that is past its look at a corrupt file  *)
(* has removed it, unless the unlink failed, and nothing brings it back.    *)
MovedVerified(s) == pc[s] \in {"move", "create", "append"} => part[s] = "verified"
NotCopying(s) == ~copied => pc[s] \notin {"create", "append"}
BeforeRemoval(s) ==
  ~copied /\ ~undeleted /\ dest = "leftover" => pc[s] \in {"idle", "check", "remove"}

DownloadInv ==
  /\ TypeOK
  /\ \A s \in Sessions : MovedVerified(s) /\ NotCopying(s) /\ BeforeRemoval(s)
  /\ DestinationVerified

(* An empty cache and idle sessions satisfy the invariant.                  *)
LEMMA InitDownload == Init => DownloadInv
BY DEF Init, DownloadInv, TypeOK, MovedVerified, NotCopying, BeforeRemoval,
       DestinationVerified, Contents

(* Every step keeps the types, the sizes and the sessions.                  *)
LEMMA StepTypes == ASSUME DownloadInv, [Next]_vars PROVE TypeOK'
<1>1. ASSUME NEW s \in Sessions, Step(s) PROVE TypeOK'
  <2> USE DEF DownloadInv, MovedVerified, TypeOK, Goto, Contents
  <2>1. CASE Call(s) BY <2>1 DEF Call
  <2>2. CASE Check(s) BY <2>2 DEF Check
  <2>3. CASE RemoveWrong(s) BY <2>3 DEF RemoveWrong
  <2>4. CASE Fetch(s) BY <2>4 DEF Fetch
  <2>5. CASE Verify(s) BY <2>5 DEF Verify
  <2>6. CASE Rename(s) BY <2>6 DEF Rename
  <2>7. CASE Refused(s) BY <2>7 DEF Refused
  <2>8. CASE Create(s) BY <2>8 DEF Create
  <2>9. CASE Append(s) BY <2>9 DEF Append
  <2>10. CASE Leave(s) BY <2>10 DEF Leave
  <2>11. CASE Die(s) BY <2>11 DEF Die
  <2> QED
    BY <1>1, <2>1, <2>2, <2>3, <2>4, <2>5, <2>6, <2>7, <2>8, <2>9, <2>10, <2>11 DEF Step
<1>2. CASE UNCHANGED vars BY <1>2 DEF DownloadInv, TypeOK, vars
<1> QED BY <1>1, <1>2 DEF Next

(* A step of one session keeps what is known of the cache and of all others.*)
LEMMA StepKeeps ==
  ASSUME DownloadInv, TypeOK', NEW s \in Sessions, Step(s)
  PROVE  DownloadInv'
<1> USE DEF DownloadInv, TypeOK, MovedVerified, NotCopying, BeforeRemoval,
            DestinationVerified, Goto
<1>1. CASE Call(s) BY <1>1 DEF Call
<1>2. CASE Check(s) BY <1>2 DEF Check
<1>3. CASE RemoveWrong(s) BY <1>3 DEF RemoveWrong
<1>4. CASE Fetch(s) BY <1>4 DEF Fetch
<1>5. CASE Verify(s) BY <1>5 DEF Verify
<1>6. CASE Rename(s) BY <1>6 DEF Rename
<1>7. CASE Refused(s) BY <1>7 DEF Refused
<1>8. CASE Create(s) BY <1>8 DEF Create
<1>9. CASE Append(s) BY <1>9 DEF Append
<1>10. CASE Leave(s) BY <1>10 DEF Leave
<1>11. CASE Die(s) BY <1>11 DEF Die
<1> QED
  BY <1>1, <1>2, <1>3, <1>4, <1>5, <1>6, <1>7, <1>8, <1>9, <1>10, <1>11 DEF Step

(* The invariant is inductive.                                              *)
LEMMA NextKeeps == ASSUME DownloadInv, [Next]_vars PROVE DownloadInv'
<1>1. TypeOK' BY StepTypes
<1>2. CASE Next BY <1>1, <1>2, StepKeeps DEF Next
<1>3. CASE UNCHANGED vars
  BY <1>3 DEF DownloadInv, TypeOK, vars, MovedVerified, NotCopying, BeforeRemoval,
              DestinationVerified
<1> QED BY <1>2, <1>3

(* The invariant of the download holds in every behaviour: what is moved    *)
(* into place is what was verified, and who has looked at a corrupt file    *)
(* has removed it before it fetches, or could not (download_verify).        *)
THEOREM DownloadInvariant == Spec => []DownloadInv
BY InitDownload, NextKeeps, PTL DEF Spec

(* For every number of sessions, killed anywhere, the destination never has *)
(* unverified or partial bytes of a download, nor the corrupt file of before*)
(* after a call came to its end unless its unlink failed, while renames     *)
(* work.                                                                    *)
THEOREM DestinationIsVerified == Spec => []DestinationVerified
<1>1. DownloadInv => DestinationVerified BY DEF DownloadInv
<1> QED BY DownloadInvariant, <1>1, PTL

(* The variables of the download keep their types.                          *)
THEOREM DownloadTypes == Spec => []TypeOK
<1>1. DownloadInv => TypeOK BY DEF DownloadInv
<1> QED BY DownloadInvariant, <1>1, PTL
=============================================================================

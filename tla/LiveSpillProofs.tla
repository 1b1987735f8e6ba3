--------------------------- MODULE LiveSpillProofs ---------------------------
(***************************************************************************)
(* Proofs about LiveSpill, for every number of states, rows and batches,    *)
(* every queue and every budget.                                            *)
(***************************************************************************)
EXTENDS LiveSpill, WellFoundedInduction, NaturalsInduction, TLAPS

(* The worker while a writer of its state may run, and before that.         *)
Decoding == {"tap", "push", "sampled", "closing", "join", "unwind", "unwinding", "dropJoin"}
Preparing == {"decode", "opened", "register", "registering", "spawn"}

(* A writer runs only while the worker taps, joins or unwinds; neither of   *)
(* them takes up more than there is.                                       *)
WriterInv ==
  /\ wpc \notin {"none", "done"} => pc \in Decoding
  /\ pc \in Decoding => wpc # "none"
  /\ wpc = "write" => left > 0
  /\ pc = "push" => pushed < Targets

(* The slot holds the state that the worker waits for.                      *)
SlotInv ==
  pending # 0 => pc = "waiting" /\ pending = state /\ unanswered /\ ~drained

(* The queue of the state stays registered, and a flag that its             *)
(* registration did not see is carried to it by the main thread.            *)
CancelInv ==
  /\ (pc = "registering") = (latch = "worker")
  /\ (main \in {"abort", "wake"}) = (latch = "main")
  /\ pc \in {"registering", "spawn"} \cup Decoding => registered = state
  /\ pc \in {"spawn"} \cup Decoding /\ flag => aborted \/ main \in {"lock", "abort"}

(* What is left of the budget is enough for the file of the state.          *)
BudgetInv ==
  /\ pc \in Preparing => bytes[state] = 0
  /\ \A k \in Ids : k > state => bytes[k] = 0
  /\ pc \in Decoding => spent + bytes[state] <= Budget

(* Who has the file of the state, by where the two threads stand.           *)
Has(f, h) == file[state] = f /\ holder[state] = h
StateFile ==
  /\ pc = "decode" => Has("none", "nobody")
  /\ pc = "opened" => Has("partial", "nobody")
  /\ pc \in {"register", "registering", "spawn"} => Has("partial", "worker")
  /\ pc \in Decoding =>
       /\ wpc \in {"schema", "pop", "write", "end", "failing"} => Has("partial", "writer")
       /\ wpc \in {"failed", "tell"} => Has("gone", "nobody")
       /\ wpc = "done" => Has("whole", "thread") \/ Has("gone", "nobody")
  /\ pc \in {"publish", "dropping"} => Has("whole", "worker")
  /\ pc = "waiting" => Has("whole", IF pending = 0 THEN "caller" ELSE "slot")
  /\ pc \in {"ending", "returned"} =>
       \/ Has("gone", "nobody") \/ Has("whole", "caller") \/ Has("none", "nobody")
       \/ Has("partial", "nobody") /\ bytes[state] = 0

(* The files of the states before are the caller's, the later ones are not  *)
(* made yet.                                                               *)
FileInv ==
  /\ StateFile
  /\ \A k \in Ids : k < state => file[k] = "whole" /\ holder[k] = "caller"
  /\ \A k \in Ids : k > state => file[k] = "none" /\ holder[k] = "nobody"

SpillInv == TypeOK /\ WriterInv /\ SlotInv /\ CancelInv /\ BudgetInv /\ FileInv

(* The Boolean part of TypeOK.                                              *)
Flags ==
  /\ parked \in BOOLEAN /\ waits \in BOOLEAN
  /\ closed \in BOOLEAN /\ aborted \in BOOLEAN /\ error \in BOOLEAN
  /\ flag \in BOOLEAN /\ accepted \in BOOLEAN
  /\ unanswered \in BOOLEAN /\ drained \in BOOLEAN

(* A session without a writer satisfies the invariant.                      *)
LEMMA InitSpill == Init => SpillInv
<1> SUFFICES ASSUME Init PROVE SpillInv OBVIOUS
<1>1. Flags BY Zenon DEF Init, Flags
<1>2. TypeOK BY <1>1, SpillAssumption DEF Init, TypeOK, Ids, Flags
<1>3. WriterInv /\ SlotInv /\ CancelInv /\ BudgetInv
  BY SpillAssumption
     DEF Init, WriterInv, SlotInv, CancelInv, BudgetInv, Decoding, Preparing, Ids
<1>4. FileInv BY SpillAssumption DEF Init, FileInv, StateFile, Has, Decoding, Ids
<1> QED BY <1>2, <1>3, <1>4 DEF SpillInv

(* Every step keeps the types.                                              *)
LEMMA TypesKept ==
  ASSUME SpillInv, [Next]_vars
  PROVE  TypeOK'
<1> USE SpillAssumption DEF SpillInv, TypeOK, WriterInv, BudgetInv, Decoding,
    Preparing, Ids, Goto, Unlocked, Own, Remove, worker, queue, writer, disk, cancel, control
<1>1. CASE CannotOpen BY <1>1 DEF CannotOpen
<1>2. CASE OpenFile BY <1>2 DEF OpenFile
<1>3. CASE OwnFile BY <1>3 DEF OwnFile
<1>4. CASE CannotOwn BY <1>4 DEF CannotOwn
<1>5. CASE Register
  <2>1. Flags' BY <1>5, Zenon DEF Register, Flags
  <2> QED BY <1>5, <2>1 DEF Register, Flags
<1>6. CASE Registered BY <1>6 DEF Registered
<1>7. CASE Spawn
  <2>1. Flags' BY <1>7, Zenon DEF Spawn, Flags
  <2> QED BY <1>7, <2>1 DEF Spawn, Flags
<1>8. CASE CannotSpawn BY <1>8 DEF CannotSpawn
<1>9. CASE Tap BY <1>9 DEF Tap
<1>10. CASE PushRefused BY <1>10 DEF PushRefused, Refuses
<1>11. CASE Push
  <2>1. Flags' BY <1>11, Zenon DEF Push, Flags
  <2> QED BY <1>11, <2>1 DEF Push, Refuses, Flags
<1>12. CASE PushWaits BY <1>12 DEF PushWaits, Refuses
<1>13. CASE LeaveDecode BY <1>13 DEF LeaveDecode
<1>14. CASE Sampled BY <1>14 DEF Sampled
<1>15. CASE Close BY <1>15 DEF Close
<1>16. CASE WakeWriter
  <2>1. Flags' BY <1>16, Zenon DEF WakeWriter, Flags
  <2> QED BY <1>16, <2>1 DEF WakeWriter, Flags
<1>17. CASE Joined BY <1>17 DEF Joined, Complete
<1>18. CASE JoinedFailure
  <2>1. Flags' BY <1>18, Zenon DEF JoinedFailure, DropThread, Remove, Flags
  <2>2. CASE holder[state] = "thread"
    BY <1>18, <2>1, <2>2 DEF JoinedFailure, DropThread, Flags
  <2>3. CASE holder[state] # "thread"
    BY <1>18, <2>1, <2>3 DEF JoinedFailure, DropThread, Flags
  <2> QED BY <2>2, <2>3
<1>19. CASE Publish
  <2>1. Flags' BY <1>19, Zenon DEF Publish, Flags
  <2> QED BY <1>19, <2>1 DEF Publish, Flags
<1>20. CASE PublishCancelled BY <1>20 DEF PublishCancelled
<1>21. CASE Answered BY <1>21 DEF Answered
<1>22. CASE WaitCancelled BY <1>22 DEF WaitCancelled
<1>23. CASE DropAbandoned BY <1>23 DEF DropAbandoned
<1>24. CASE AbortQueue BY <1>24 DEF AbortQueue
<1>25. CASE WakeAborted
  <2>1. Flags' BY <1>25, Zenon DEF WakeAborted, Flags
  <2> QED BY <1>25, <2>1 DEF WakeAborted, Flags
<1>26. CASE JoinDropped
  <2>1. Flags' BY <1>26, Zenon DEF JoinDropped, DropThread, Remove, Flags
  <2>2. CASE holder[state] = "thread"
    BY <1>26, <2>1, <2>2 DEF JoinDropped, DropThread, Flags
  <2>3. CASE holder[state] # "thread"
    BY <1>26, <2>1, <2>3 DEF JoinDropped, DropThread, Flags
  <2> QED BY <2>2, <2>3
<1>27. CASE Return BY <1>27 DEF Return
<1>28. CASE WriteFails BY <1>28 DEF WriteFails
<1>29. CASE WriteSchema BY <1>29 DEF WriteSchema, Write, Limit
<1>30. CASE SeesAbort BY <1>30 DEF SeesAbort
<1>31. CASE Pop
  <2>1. Flags' BY <1>31, Zenon DEF Pop, Flags
  <2> QED BY <1>31, <2>1 DEF Pop, Flags
<1>32. CASE SeesClosed BY <1>32 DEF SeesClosed
<1>33. CASE PopWaits BY <1>33 DEF PopWaits
<1>34. CASE WriteBatch BY <1>34 DEF WriteBatch, Write, Limit
<1>35. CASE WriteEnd BY <1>35 DEF WriteEnd, Write, Limit
<1>36. CASE LeaveLoop BY <1>36 DEF LeaveLoop
<1>37. CASE Fail BY <1>37 DEF Fail
<1>38. CASE TellFailure
  <2>1. Flags' BY <1>38, Zenon DEF TellFailure, Flags
  <2> QED BY <1>38, <2>1 DEF TellFailure, Flags
<1>39. CASE StoreFlag BY <1>39 DEF StoreFlag
<1>40. CASE LockQueue BY <1>40 DEF LockQueue, Upgradable
<1>41. CASE NoQueue BY <1>41 DEF NoQueue, Upgradable
<1>42. CASE Abort BY <1>42 DEF Abort
<1>43. CASE Wake
  <2>1. Flags' BY <1>43, Zenon DEF Wake, Flags
  <2> QED BY <1>43, <2>1 DEF Wake, Flags
<1>44. CASE Accept BY <1>44 DEF Accept, Terminal
<1>45. CASE Drain BY <1>45 DEF Drain
<1>46. CASE Acknowledge
  <2>1. Flags' BY <1>46, Zenon DEF Acknowledge, Flags
  <2> QED BY <1>46, <2>1 DEF Acknowledge, Flags
<1>47. CASE Finished BY <1>47 DEF Finished, vars
<1>48. CASE UNCHANGED vars BY <1>48 DEF vars
<1> QED
  BY <1>1, <1>2, <1>3, <1>4, <1>5, <1>6, <1>7, <1>8, <1>9, <1>10, <1>11, <1>12, <1>13,
     <1>14, <1>15, <1>16, <1>17, <1>18, <1>19, <1>20, <1>21, <1>22, <1>23, <1>24, <1>25, <1>26,
     <1>27, <1>28, <1>29, <1>30, <1>31, <1>32, <1>33, <1>34, <1>35, <1>36, <1>37, <1>38, <1>39,
     <1>40, <1>41, <1>42, <1>43, <1>44, <1>45, <1>46, <1>47, <1>48
     DEF Next, Worker, Writer, Cancelling

(* Every step keeps the writer's place and its command in agreement.        *)
LEMMA WriterKept ==
  ASSUME SpillInv, [Next]_vars
  PROVE  WriterInv'
<1> USE SpillAssumption DEF SpillInv, TypeOK, WriterInv, Decoding, Ids,
    Goto, Unlocked, Own, Remove, worker, queue, writer, disk, cancel, control
<1>1. CASE CannotOpen BY <1>1 DEF CannotOpen
<1>2. CASE OpenFile BY <1>2 DEF OpenFile
<1>3. CASE OwnFile BY <1>3 DEF OwnFile
<1>4. CASE CannotOwn BY <1>4 DEF CannotOwn
<1>5. CASE Register BY <1>5 DEF Register
<1>6. CASE Registered BY <1>6 DEF Registered
<1>7. CASE Spawn BY <1>7 DEF Spawn
<1>8. CASE CannotSpawn BY <1>8 DEF CannotSpawn
<1>9. CASE Tap BY <1>9 DEF Tap
<1>10. CASE PushRefused BY <1>10 DEF PushRefused, Refuses
<1>11. CASE Push BY <1>11 DEF Push, Refuses
<1>12. CASE PushWaits BY <1>12 DEF PushWaits, Refuses
<1>13. CASE LeaveDecode BY <1>13 DEF LeaveDecode
<1>14. CASE Sampled BY <1>14 DEF Sampled
<1>15. CASE Close BY <1>15 DEF Close
<1>16. CASE WakeWriter BY <1>16 DEF WakeWriter
<1>17. CASE Joined BY <1>17 DEF Joined, Complete
<1>18. CASE JoinedFailure BY <1>18 DEF JoinedFailure, DropThread
<1>19. CASE Publish BY <1>19 DEF Publish
<1>20. CASE PublishCancelled BY <1>20 DEF PublishCancelled
<1>21. CASE Answered BY <1>21 DEF Answered
<1>22. CASE WaitCancelled BY <1>22 DEF WaitCancelled
<1>23. CASE DropAbandoned BY <1>23 DEF DropAbandoned
<1>24. CASE AbortQueue BY <1>24 DEF AbortQueue
<1>25. CASE WakeAborted BY <1>25 DEF WakeAborted
<1>26. CASE JoinDropped BY <1>26 DEF JoinDropped, DropThread
<1>27. CASE Return BY <1>27 DEF Return
<1>28. CASE WriteFails BY <1>28 DEF WriteFails
<1>29. CASE WriteSchema BY <1>29 DEF WriteSchema, Write, Limit
<1>30. CASE SeesAbort BY <1>30 DEF SeesAbort
<1>31. CASE Pop BY <1>31 DEF Pop
<1>32. CASE SeesClosed BY <1>32 DEF SeesClosed
<1>33. CASE PopWaits BY <1>33 DEF PopWaits
<1>34. CASE WriteBatch BY <1>34 DEF WriteBatch, Write, Limit
<1>35. CASE WriteEnd BY <1>35 DEF WriteEnd, Write, Limit
<1>36. CASE LeaveLoop BY <1>36 DEF LeaveLoop
<1>37. CASE Fail BY <1>37 DEF Fail
<1>38. CASE TellFailure BY <1>38 DEF TellFailure
<1>39. CASE StoreFlag BY <1>39 DEF StoreFlag
<1>40. CASE LockQueue BY <1>40 DEF LockQueue, Upgradable
<1>41. CASE NoQueue BY <1>41 DEF NoQueue, Upgradable
<1>42. CASE Abort BY <1>42 DEF Abort
<1>43. CASE Wake BY <1>43 DEF Wake
<1>44. CASE Accept BY <1>44 DEF Accept, Terminal
<1>45. CASE Drain BY <1>45 DEF Drain
<1>46. CASE Acknowledge BY <1>46 DEF Acknowledge
<1>47. CASE Finished BY <1>47 DEF Finished, vars
<1>48. CASE UNCHANGED vars BY <1>48 DEF vars
<1> QED
  BY <1>1, <1>2, <1>3, <1>4, <1>5, <1>6, <1>7, <1>8, <1>9, <1>10, <1>11, <1>12, <1>13,
     <1>14, <1>15, <1>16, <1>17, <1>18, <1>19, <1>20, <1>21, <1>22, <1>23, <1>24, <1>25, <1>26,
     <1>27, <1>28, <1>29, <1>30, <1>31, <1>32, <1>33, <1>34, <1>35, <1>36, <1>37, <1>38, <1>39,
     <1>40, <1>41, <1>42, <1>43, <1>44, <1>45, <1>46, <1>47, <1>48
     DEF Next, Worker, Writer, Cancelling

(* Every step keeps the command slot in agreement with both threads.        *)
LEMMA SlotKept ==
  ASSUME SpillInv, [Next]_vars
  PROVE  SlotInv'
<1> USE SpillAssumption DEF SpillInv, TypeOK, SlotInv, WriterInv, Decoding, Ids,
    Goto, Unlocked, Own, Remove, worker, queue, writer, disk, cancel, control
<1>1. CASE CannotOpen BY <1>1 DEF CannotOpen
<1>2. CASE OpenFile BY <1>2 DEF OpenFile
<1>3. CASE OwnFile BY <1>3 DEF OwnFile
<1>4. CASE CannotOwn BY <1>4 DEF CannotOwn
<1>5. CASE Register BY <1>5 DEF Register
<1>6. CASE Registered BY <1>6 DEF Registered
<1>7. CASE Spawn BY <1>7 DEF Spawn
<1>8. CASE CannotSpawn BY <1>8 DEF CannotSpawn
<1>9. CASE Tap BY <1>9 DEF Tap
<1>10. CASE PushRefused BY <1>10 DEF PushRefused, Refuses
<1>11. CASE Push BY <1>11 DEF Push, Refuses
<1>12. CASE PushWaits BY <1>12 DEF PushWaits, Refuses
<1>13. CASE LeaveDecode BY <1>13 DEF LeaveDecode
<1>14. CASE Sampled BY <1>14 DEF Sampled
<1>15. CASE Close BY <1>15 DEF Close
<1>16. CASE WakeWriter BY <1>16 DEF WakeWriter
<1>17. CASE Joined BY <1>17 DEF Joined, Complete
<1>18. CASE JoinedFailure BY <1>18 DEF JoinedFailure, DropThread
<1>19. CASE Publish BY <1>19 DEF Publish
<1>20. CASE PublishCancelled BY <1>20 DEF PublishCancelled
<1>21. CASE Answered BY <1>21 DEF Answered
<1>22. CASE WaitCancelled BY <1>22 DEF WaitCancelled
<1>23. CASE DropAbandoned BY <1>23 DEF DropAbandoned
<1>24. CASE AbortQueue BY <1>24 DEF AbortQueue
<1>25. CASE WakeAborted BY <1>25 DEF WakeAborted
<1>26. CASE JoinDropped BY <1>26 DEF JoinDropped, DropThread
<1>27. CASE Return BY <1>27 DEF Return
<1>28. CASE WriteFails BY <1>28 DEF WriteFails
<1>29. CASE WriteSchema BY <1>29 DEF WriteSchema, Write, Limit
<1>30. CASE SeesAbort BY <1>30 DEF SeesAbort
<1>31. CASE Pop BY <1>31 DEF Pop
<1>32. CASE SeesClosed BY <1>32 DEF SeesClosed
<1>33. CASE PopWaits BY <1>33 DEF PopWaits
<1>34. CASE WriteBatch BY <1>34 DEF WriteBatch, Write, Limit
<1>35. CASE WriteEnd BY <1>35 DEF WriteEnd, Write, Limit
<1>36. CASE LeaveLoop BY <1>36 DEF LeaveLoop
<1>37. CASE Fail BY <1>37 DEF Fail
<1>38. CASE TellFailure BY <1>38 DEF TellFailure
<1>39. CASE StoreFlag BY <1>39 DEF StoreFlag
<1>40. CASE LockQueue BY <1>40 DEF LockQueue, Upgradable
<1>41. CASE NoQueue BY <1>41 DEF NoQueue, Upgradable
<1>42. CASE Abort BY <1>42 DEF Abort
<1>43. CASE Wake BY <1>43 DEF Wake
<1>44. CASE Accept BY <1>44 DEF Accept, Terminal
<1>45. CASE Drain BY <1>45 DEF Drain
<1>46. CASE Acknowledge BY <1>46 DEF Acknowledge
<1>47. CASE Finished BY <1>47 DEF Finished, vars
<1>48. CASE UNCHANGED vars BY <1>48 DEF vars
<1> QED
  BY <1>1, <1>2, <1>3, <1>4, <1>5, <1>6, <1>7, <1>8, <1>9, <1>10, <1>11, <1>12, <1>13,
     <1>14, <1>15, <1>16, <1>17, <1>18, <1>19, <1>20, <1>21, <1>22, <1>23, <1>24, <1>25, <1>26,
     <1>27, <1>28, <1>29, <1>30, <1>31, <1>32, <1>33, <1>34, <1>35, <1>36, <1>37, <1>38, <1>39,
     <1>40, <1>41, <1>42, <1>43, <1>44, <1>45, <1>46, <1>47, <1>48
     DEF Next, Worker, Writer, Cancelling

(* A cancelled writer is never left waiting.                                *)
LEMMA CancelKept ==
  ASSUME SpillInv, [Next]_vars
  PROVE  CancelInv'
<1> USE SpillAssumption DEF SpillInv, TypeOK, CancelInv, WriterInv, SlotInv, Decoding, Ids,
    Goto, Unlocked, Own, Remove, worker, queue, writer, disk, cancel, control
<1>1. CASE CannotOpen BY <1>1 DEF CannotOpen
<1>2. CASE OpenFile BY <1>2 DEF OpenFile
<1>3. CASE OwnFile BY <1>3 DEF OwnFile
<1>4. CASE CannotOwn BY <1>4 DEF CannotOwn
<1>5. CASE Register BY <1>5 DEF Register
<1>6. CASE Registered BY <1>6 DEF Registered
<1>7. CASE Spawn BY <1>7 DEF Spawn
<1>8. CASE CannotSpawn BY <1>8 DEF CannotSpawn
<1>9. CASE Tap BY <1>9 DEF Tap
<1>10. CASE PushRefused BY <1>10 DEF PushRefused, Refuses
<1>11. CASE Push BY <1>11 DEF Push, Refuses
<1>12. CASE PushWaits BY <1>12 DEF PushWaits, Refuses
<1>13. CASE LeaveDecode BY <1>13 DEF LeaveDecode
<1>14. CASE Sampled BY <1>14 DEF Sampled
<1>15. CASE Close BY <1>15 DEF Close
<1>16. CASE WakeWriter BY <1>16 DEF WakeWriter
<1>17. CASE Joined BY <1>17 DEF Joined, Complete
<1>18. CASE JoinedFailure BY <1>18 DEF JoinedFailure, DropThread
<1>19. CASE Publish BY <1>19 DEF Publish
<1>20. CASE PublishCancelled BY <1>20 DEF PublishCancelled
<1>21. CASE Answered BY <1>21 DEF Answered
<1>22. CASE WaitCancelled BY <1>22 DEF WaitCancelled
<1>23. CASE DropAbandoned BY <1>23 DEF DropAbandoned
<1>24. CASE AbortQueue BY <1>24 DEF AbortQueue
<1>25. CASE WakeAborted BY <1>25 DEF WakeAborted
<1>26. CASE JoinDropped BY <1>26 DEF JoinDropped, DropThread
<1>27. CASE Return BY <1>27 DEF Return
<1>28. CASE WriteFails BY <1>28 DEF WriteFails
<1>29. CASE WriteSchema BY <1>29 DEF WriteSchema, Write, Limit
<1>30. CASE SeesAbort BY <1>30 DEF SeesAbort
<1>31. CASE Pop BY <1>31 DEF Pop
<1>32. CASE SeesClosed BY <1>32 DEF SeesClosed
<1>33. CASE PopWaits BY <1>33 DEF PopWaits
<1>34. CASE WriteBatch BY <1>34 DEF WriteBatch, Write, Limit
<1>35. CASE WriteEnd BY <1>35 DEF WriteEnd, Write, Limit
<1>36. CASE LeaveLoop BY <1>36 DEF LeaveLoop
<1>37. CASE Fail BY <1>37 DEF Fail
<1>38. CASE TellFailure BY <1>38 DEF TellFailure
<1>39. CASE StoreFlag BY <1>39 DEF StoreFlag
<1>40. CASE LockQueue BY <1>40 DEF LockQueue, Upgradable
<1>41. CASE NoQueue BY <1>41 DEF NoQueue, Upgradable
<1>42. CASE Abort BY <1>42 DEF Abort
<1>43. CASE Wake BY <1>43 DEF Wake
<1>44. CASE Accept BY <1>44 DEF Accept, Terminal
<1>45. CASE Drain BY <1>45 DEF Drain
<1>46. CASE Acknowledge BY <1>46 DEF Acknowledge
<1>47. CASE Finished BY <1>47 DEF Finished, vars
<1>48. CASE UNCHANGED vars BY <1>48 DEF vars
<1> QED
  BY <1>1, <1>2, <1>3, <1>4, <1>5, <1>6, <1>7, <1>8, <1>9, <1>10, <1>11, <1>12, <1>13,
     <1>14, <1>15, <1>16, <1>17, <1>18, <1>19, <1>20, <1>21, <1>22, <1>23, <1>24, <1>25, <1>26,
     <1>27, <1>28, <1>29, <1>30, <1>31, <1>32, <1>33, <1>34, <1>35, <1>36, <1>37, <1>38, <1>39,
     <1>40, <1>41, <1>42, <1>43, <1>44, <1>45, <1>46, <1>47, <1>48
     DEF Next, Worker, Writer, Cancelling

(* Every step keeps the account of the spill quota.                         *)
LEMMA BudgetKept ==
  ASSUME SpillInv, [Next]_vars
  PROVE  BudgetInv'
<1> USE SpillAssumption DEF SpillInv, TypeOK, BudgetInv, WriterInv, SlotInv, Decoding,
    Preparing, Ids, Goto, Unlocked, Own, Remove, worker, queue, writer, disk, cancel, control
<1>1. CASE CannotOpen BY <1>1 DEF CannotOpen
<1>2. CASE OpenFile BY <1>2 DEF OpenFile
<1>3. CASE OwnFile BY <1>3 DEF OwnFile
<1>4. CASE CannotOwn BY <1>4 DEF CannotOwn
<1>5. CASE Register BY <1>5 DEF Register
<1>6. CASE Registered BY <1>6 DEF Registered
<1>7. CASE Spawn BY <1>7 DEF Spawn
<1>8. CASE CannotSpawn BY <1>8 DEF CannotSpawn
<1>9. CASE Tap BY <1>9 DEF Tap
<1>10. CASE PushRefused BY <1>10 DEF PushRefused, Refuses
<1>11. CASE Push BY <1>11 DEF Push, Refuses
<1>12. CASE PushWaits BY <1>12 DEF PushWaits, Refuses
<1>13. CASE LeaveDecode BY <1>13 DEF LeaveDecode
<1>14. CASE Sampled BY <1>14 DEF Sampled
<1>15. CASE Close BY <1>15 DEF Close
<1>16. CASE WakeWriter BY <1>16 DEF WakeWriter
<1>17. CASE Joined BY <1>17 DEF Joined, Complete
<1>18. CASE JoinedFailure BY <1>18 DEF JoinedFailure, DropThread
<1>19. CASE Publish BY <1>19 DEF Publish
<1>20. CASE PublishCancelled BY <1>20 DEF PublishCancelled
<1>21. CASE Answered BY <1>21 DEF Answered
<1>22. CASE WaitCancelled BY <1>22 DEF WaitCancelled
<1>23. CASE DropAbandoned BY <1>23 DEF DropAbandoned
<1>24. CASE AbortQueue BY <1>24 DEF AbortQueue
<1>25. CASE WakeAborted BY <1>25 DEF WakeAborted
<1>26. CASE JoinDropped BY <1>26 DEF JoinDropped, DropThread
<1>27. CASE Return BY <1>27 DEF Return
<1>28. CASE WriteFails BY <1>28 DEF WriteFails
<1>29. CASE WriteSchema BY <1>29, SMTT(30) DEF WriteSchema, Write, Limit
<1>30. CASE SeesAbort BY <1>30 DEF SeesAbort
<1>31. CASE Pop BY <1>31 DEF Pop
<1>32. CASE SeesClosed BY <1>32 DEF SeesClosed
<1>33. CASE PopWaits BY <1>33 DEF PopWaits
<1>34. CASE WriteBatch BY <1>34 DEF WriteBatch, Write, Limit
<1>35. CASE WriteEnd BY <1>35, SMTT(30) DEF WriteEnd, Write, Limit
<1>36. CASE LeaveLoop BY <1>36 DEF LeaveLoop
<1>37. CASE Fail BY <1>37 DEF Fail
<1>38. CASE TellFailure BY <1>38 DEF TellFailure
<1>39. CASE StoreFlag BY <1>39 DEF StoreFlag
<1>40. CASE LockQueue BY <1>40 DEF LockQueue, Upgradable
<1>41. CASE NoQueue BY <1>41 DEF NoQueue, Upgradable
<1>42. CASE Abort BY <1>42 DEF Abort
<1>43. CASE Wake BY <1>43 DEF Wake
<1>44. CASE Accept BY <1>44 DEF Accept, Terminal
<1>45. CASE Drain BY <1>45 DEF Drain
<1>46. CASE Acknowledge BY <1>46 DEF Acknowledge
<1>47. CASE Finished BY <1>47 DEF Finished, vars
<1>48. CASE UNCHANGED vars BY <1>48 DEF vars
<1> QED
  BY <1>1, <1>2, <1>3, <1>4, <1>5, <1>6, <1>7, <1>8, <1>9, <1>10, <1>11, <1>12, <1>13,
     <1>14, <1>15, <1>16, <1>17, <1>18, <1>19, <1>20, <1>21, <1>22, <1>23, <1>24, <1>25, <1>26,
     <1>27, <1>28, <1>29, <1>30, <1>31, <1>32, <1>33, <1>34, <1>35, <1>36, <1>37, <1>38, <1>39,
     <1>40, <1>41, <1>42, <1>43, <1>44, <1>45, <1>46, <1>47, <1>48
     DEF Next, Worker, Writer, Cancelling

(* Every step keeps each file with exactly one owner.                       *)
LEMMA FilesKept ==
  ASSUME SpillInv, [Next]_vars
  PROVE  FileInv'
<1> USE SpillAssumption DEF SpillInv, TypeOK, FileInv, StateFile, Has, WriterInv, SlotInv,
    BudgetInv, Decoding, Preparing, Ids, Goto, Unlocked, Own, Remove, worker, queue, writer, disk, cancel, control
<1>1. CASE CannotOpen BY <1>1 DEF CannotOpen
<1>2. CASE OpenFile BY <1>2 DEF OpenFile
<1>3. CASE OwnFile BY <1>3 DEF OwnFile
<1>4. CASE CannotOwn BY <1>4 DEF CannotOwn
<1>5. CASE Register BY <1>5 DEF Register
<1>6. CASE Registered BY <1>6 DEF Registered
<1>7. CASE Spawn BY <1>7 DEF Spawn
<1>8. CASE CannotSpawn BY <1>8 DEF CannotSpawn
<1>9. CASE Tap BY <1>9 DEF Tap
<1>10. CASE PushRefused BY <1>10 DEF PushRefused, Refuses
<1>11. CASE Push BY <1>11 DEF Push, Refuses
<1>12. CASE PushWaits BY <1>12 DEF PushWaits, Refuses
<1>13. CASE LeaveDecode BY <1>13 DEF LeaveDecode
<1>14. CASE Sampled BY <1>14 DEF Sampled
<1>15. CASE Close BY <1>15 DEF Close
<1>16. CASE WakeWriter BY <1>16 DEF WakeWriter
<1>17. CASE Joined BY <1>17 DEF Joined, Complete
<1>18. CASE JoinedFailure BY <1>18 DEF JoinedFailure, DropThread
<1>19. CASE Publish BY <1>19 DEF Publish
<1>20. CASE PublishCancelled BY <1>20 DEF PublishCancelled
<1>21. CASE Answered BY <1>21 DEF Answered
<1>22. CASE WaitCancelled BY <1>22 DEF WaitCancelled
<1>23. CASE DropAbandoned BY <1>23 DEF DropAbandoned
<1>24. CASE AbortQueue BY <1>24 DEF AbortQueue
<1>25. CASE WakeAborted BY <1>25 DEF WakeAborted
<1>26. CASE JoinDropped BY <1>26 DEF JoinDropped, DropThread
<1>27. CASE Return BY <1>27 DEF Return
<1>28. CASE WriteFails BY <1>28 DEF WriteFails
<1>29. CASE WriteSchema BY <1>29 DEF WriteSchema, Write, Limit
<1>30. CASE SeesAbort BY <1>30 DEF SeesAbort
<1>31. CASE Pop BY <1>31 DEF Pop
<1>32. CASE SeesClosed BY <1>32 DEF SeesClosed
<1>33. CASE PopWaits BY <1>33 DEF PopWaits
<1>34. CASE WriteBatch BY <1>34 DEF WriteBatch, Write, Limit
<1>35. CASE WriteEnd BY <1>35 DEF WriteEnd, Write, Limit
<1>36. CASE LeaveLoop BY <1>36 DEF LeaveLoop
<1>37. CASE Fail BY <1>37 DEF Fail
<1>38. CASE TellFailure BY <1>38 DEF TellFailure
<1>39. CASE StoreFlag BY <1>39 DEF StoreFlag
<1>40. CASE LockQueue BY <1>40 DEF LockQueue, Upgradable
<1>41. CASE NoQueue BY <1>41 DEF NoQueue, Upgradable
<1>42. CASE Abort BY <1>42 DEF Abort
<1>43. CASE Wake BY <1>43 DEF Wake
<1>44. CASE Accept BY <1>44 DEF Accept, Terminal
<1>45. CASE Drain BY <1>45 DEF Drain
<1>46. CASE Acknowledge BY <1>46 DEF Acknowledge
<1>47. CASE Finished BY <1>47 DEF Finished, vars
<1>48. CASE UNCHANGED vars BY <1>48 DEF vars
<1> QED
  BY <1>1, <1>2, <1>3, <1>4, <1>5, <1>6, <1>7, <1>8, <1>9, <1>10, <1>11, <1>12, <1>13,
     <1>14, <1>15, <1>16, <1>17, <1>18, <1>19, <1>20, <1>21, <1>22, <1>23, <1>24, <1>25, <1>26,
     <1>27, <1>28, <1>29, <1>30, <1>31, <1>32, <1>33, <1>34, <1>35, <1>36, <1>37, <1>38, <1>39,
     <1>40, <1>41, <1>42, <1>43, <1>44, <1>45, <1>46, <1>47, <1>48
     DEF Next, Worker, Writer, Cancelling

(* The invariant is inductive.                                              *)
LEMMA SpillKept == ASSUME SpillInv, [Next]_vars PROVE SpillInv'
BY TypesKept, WriterKept, SlotKept, CancelKept, BudgetKept, FilesKept DEF SpillInv

(* The invariant of the spilled traces: where the two threads stand decides *)
(* who owns the file of the state, what the slot holds, and whether a       *)
(* cancellation still has to be carried to the queue.                       *)
THEOREM SpillInvariant == Spec => []SpillInv
BY InitSpill, SpillKept, PTL DEF Spec

(* Every variable keeps its type; in particular what was spent never        *)
(* exceeds the budget (Capture.spill_written).                              *)
THEOREM SpillTypes == Spec => []TypeOK
<1>1. SpillInv => TypeOK BY DEF SpillInv
<1> QED BY SpillInvariant, <1>1, PTL

(* Registering a queue and cancelling never miss each other, for every      *)
(* number of states and cancellations (LiveCancel::register and cancel).    *)
THEOREM SpillCancelReachesWriter == Spec => []CancelReachesWriter
<1>1. SpillInv => CancelReachesWriter
  BY DEF SpillInv, WriterInv, CancelInv, CancelReachesWriter, Unlocked
<1> QED BY SpillInvariant, <1>1, PTL

(* However the job ends, its writer is joined and its files are removed but *)
(* for those the caller took and one that nobody could own.                 *)
THEOREM SpillOnlyDeliveredRemain == Spec => []OnlyDeliveredRemain
<1>1. SpillInv => OnlyDeliveredRemain
  <2> SUFFICES ASSUME SpillInv, Terminal PROVE OnlyDeliveredRemain
    BY DEF OnlyDeliveredRemain
  <2>1. wpc \in {"none", "done"}
    BY DEF SpillInv, WriterInv, Terminal, Decoding
  <2>2. ASSUME NEW k \in Ids, Orphan(k)
        PROVE  holder[k] = "nobody" /\ bytes[k] = 0 /\ k = state
    <3>1. k = state
      BY <2>2 DEF SpillInv, FileInv, Orphan, TypeOK, Ids
    <3> QED BY <2>2, <3>1 DEF SpillInv, FileInv, StateFile, Has, Orphan, Terminal, Decoding
  <2> QED BY <2>1, <2>2 DEF OnlyDeliveredRemain
<1> QED BY SpillInvariant, <1>1, PTL

-----------------------------------------------------------------------------
(* The refinement: a step changes the status of at most the state's file.   *)

Changes ==
  {<<"absent", "open">>, <<"open", "whole">>, <<"whole", "delivered">>,
   <<"open", "removed">>, <<"whole", "removed">>, <<"open", "leaked">>}

(* A step moves the status of at most one file, forward.                    *)
LEMMA StatusMoves ==
  ASSUME SpillInv, SpillInv', [Next]_vars, NEW k \in Ids
  PROVE  \/ Status(k)' = Status(k)
         \/ k = state /\ <<Status(k), Status(k)'>> \in Changes
<1> USE SpillAssumption DEF SpillInv, TypeOK, FileInv, StateFile, Has, WriterInv, SlotInv,
    Decoding, Ids, Status, Changes, Goto, Unlocked, Own, Remove, worker, queue, writer,
    disk, cancel, control
<1>1. CASE CannotOpen BY <1>1 DEF CannotOpen
<1>2. CASE OpenFile BY <1>2 DEF OpenFile
<1>3. CASE OwnFile BY <1>3 DEF OwnFile
<1>4. CASE CannotOwn BY <1>4 DEF CannotOwn
<1>5. CASE Register BY <1>5 DEF Register
<1>6. CASE Registered BY <1>6 DEF Registered
<1>7. CASE Spawn BY <1>7 DEF Spawn
<1>8. CASE CannotSpawn BY <1>8 DEF CannotSpawn
<1>9. CASE Tap BY <1>9 DEF Tap
<1>10. CASE PushRefused BY <1>10 DEF PushRefused, Refuses
<1>11. CASE Push BY <1>11 DEF Push, Refuses
<1>12. CASE PushWaits BY <1>12 DEF PushWaits, Refuses
<1>13. CASE LeaveDecode BY <1>13 DEF LeaveDecode
<1>14. CASE Sampled BY <1>14 DEF Sampled
<1>15. CASE Close BY <1>15 DEF Close
<1>16. CASE WakeWriter BY <1>16 DEF WakeWriter
<1>17. CASE Joined BY <1>17 DEF Joined, Complete
<1>18. CASE JoinedFailure BY <1>18 DEF JoinedFailure, DropThread
<1>19. CASE Publish BY <1>19 DEF Publish
<1>20. CASE PublishCancelled BY <1>20 DEF PublishCancelled
<1>21. CASE Answered BY <1>21 DEF Answered
<1>22. CASE WaitCancelled BY <1>22, SMTT(30) DEF WaitCancelled
<1>23. CASE DropAbandoned BY <1>23 DEF DropAbandoned
<1>24. CASE AbortQueue BY <1>24 DEF AbortQueue
<1>25. CASE WakeAborted BY <1>25 DEF WakeAborted
<1>26. CASE JoinDropped BY <1>26 DEF JoinDropped, DropThread
<1>27. CASE Return BY <1>27 DEF Return
<1>28. CASE WriteFails BY <1>28 DEF WriteFails
<1>29. CASE WriteSchema BY <1>29 DEF WriteSchema, Write, Limit
<1>30. CASE SeesAbort BY <1>30 DEF SeesAbort
<1>31. CASE Pop BY <1>31 DEF Pop
<1>32. CASE SeesClosed BY <1>32 DEF SeesClosed
<1>33. CASE PopWaits BY <1>33 DEF PopWaits
<1>34. CASE WriteBatch BY <1>34 DEF WriteBatch, Write, Limit
<1>35. CASE WriteEnd BY <1>35 DEF WriteEnd, Write, Limit
<1>36. CASE LeaveLoop BY <1>36 DEF LeaveLoop
<1>37. CASE Fail BY <1>37 DEF Fail
<1>38. CASE TellFailure BY <1>38 DEF TellFailure
<1>39. CASE StoreFlag BY <1>39 DEF StoreFlag
<1>40. CASE LockQueue BY <1>40 DEF LockQueue, Upgradable
<1>41. CASE NoQueue BY <1>41 DEF NoQueue, Upgradable
<1>42. CASE Abort BY <1>42 DEF Abort
<1>43. CASE Wake BY <1>43 DEF Wake
<1>44. CASE Accept BY <1>44 DEF Accept, Terminal
<1>45. CASE Drain BY <1>45 DEF Drain
<1>46. CASE Acknowledge BY <1>46 DEF Acknowledge
<1>47. CASE Finished BY <1>47 DEF Finished, vars
<1>48. CASE UNCHANGED vars BY <1>48 DEF vars
<1> QED
  BY <1>1, <1>2, <1>3, <1>4, <1>5, <1>6, <1>7, <1>8, <1>9, <1>10, <1>11, <1>12, <1>13,
     <1>14, <1>15, <1>16, <1>17, <1>18, <1>19, <1>20, <1>21, <1>22, <1>23, <1>24, <1>25, <1>26,
     <1>27, <1>28, <1>29, <1>30, <1>31, <1>32, <1>33, <1>34, <1>35, <1>36, <1>37, <1>38, <1>39,
     <1>40, <1>41, <1>42, <1>43, <1>44, <1>45, <1>46, <1>47, <1>48
     DEF Next, Worker, Writer, Cancelling

------------------------------------------------------------------------

StatusOf == [k \in Ids |-> Status(k)]

(* Every step is a step of TraceFiles or a stutter.                         *)
LEMMA StepTraces ==
  ASSUME SpillInv, SpillInv', [Next]_vars
  PROVE  [Traces!Next]_StatusOf
<1>1. CASE \A k \in Ids : Status(k)' = Status(k)
  BY <1>1 DEF StatusOf, Ids
<1>2. CASE \E k \in Ids : Status(k)' # Status(k)
  <2>1. PICK k \in Ids : Status(k)' # Status(k) BY <1>2
  <2>2. k = state /\ <<Status(k), Status(k)'>> \in Changes BY <2>1, StatusMoves
  <2>3. \A j \in Ids : j # k => Status(j)' = Status(j) BY <2>2, StatusMoves
  <2>4. StatusOf' = [StatusOf EXCEPT ![k] = Status(k)']
    BY <2>3 DEF StatusOf, Ids
  <2>5. StatusOf[k] = Status(k) BY DEF StatusOf
  <2>6. ASSUME NEW j \in 1 .. k - 1 PROVE StatusOf[j] = "delivered"
    <3>1. j \in Ids /\ j < state
      BY <2>2, SpillAssumption DEF SpillInv, TypeOK, Ids
    <3>2. file[j] = "whole" /\ holder[j] = "caller"
      BY <3>1 DEF SpillInv, FileInv
    <3>3. Status(j) = "delivered" BY <3>2 DEF Status
    <3> QED BY <3>1, <3>3 DEF StatusOf
  <2>7. Traces!Ids = Ids BY DEF Traces!Ids, Ids
  <2>8. Traces!Create(k) \/ Traces!Complete(k) \/ Traces!Deliver(k) \/ Traces!Remove(k)
          \/ Traces!Leak(k)
    BY <2>2, <2>4, <2>5, <2>6
       DEF Changes, StatusOf, Traces!Create, Traces!Complete, Traces!Deliver, Traces!Remove,
           Traces!Leak
  <2> QED BY <2>7, <2>8 DEF Traces!Next
<1> QED BY <1>1, <1>2

(* The initial states are initial states of TraceFiles.                     *)
LEMMA InitTraces == ASSUME Init PROVE Traces!Init
BY DEF Init, Traces!Init, Traces!Ids, Ids, Status

(* The writer, the worker and the main thread together implement the life   *)
(* of the files that TraceFiles describes, for every number of states.      *)
THEOREM SpillImplementsTraces == Spec => ImplementsTraces
<1>1. Init => Traces!Init BY InitTraces
<1>2. SpillInv /\ SpillInv' /\ [Next]_vars => [Traces!Next]_StatusOf BY StepTraces
<1> QED BY SpillInvariant, <1>1, <1>2, PTL DEF Spec, ImplementsTraces, Traces!Spec, StatusOf

-----------------------------------------------------------------------------
(* The budget: a sum over the files.  NaturalsInduction states induction    *)
(* for an operator P(_), which no backend can instantiate; the sets that    *)
(* are closed under successor serve as well.                                *)

(* Induction, for a set.                                                    *)
LEMMA SetInduction ==
  ASSUME NEW S, 0 \in S, \A n \in Nat : n \in S => n + 1 \in S
  PROVE  Nat \subseteq S
<1> SUFFICES ASSUME Nat \ S # {} PROVE FALSE OBVIOUS
<1>1. IsWellFoundedOn(OpToRel(<, Nat), Nat) BY NatLessThanWellFounded
<1>2. PICK x \in Nat \ S : \A y \in Nat \ S : <<y, x>> \notin OpToRel(<, Nat)
  BY <1>1, WFMin
<1>3. x - 1 \in Nat /\ x - 1 < x OBVIOUS
<1>4. x - 1 \in S BY <1>2, <1>3 DEF OpToRel
<1> QED BY <1>3, <1>4

(* There is a function that is defined as DiskUse is, so DiskUse is one.    *)
LEMMA DiskUseExists ==
  DiskUse = [k \in 0 .. States |-> IF k = 0 THEN 0 ELSE DiskUse[k - 1] + OnDisk(k)]
<1> DEFINE Sums(f, n) == f = [k \in 0 .. n |-> IF k = 0 THEN 0 ELSE f[k - 1] + OnDisk(k)]
           S == {n \in Nat : \E f : Sums(f, n)}
<1>1. 0 \in S
  <2>1. Sums([k \in 0 .. 0 |-> 0], 0) OBVIOUS
  <2> QED BY <2>1
<1>2. ASSUME NEW n \in Nat, n \in S PROVE n + 1 \in S
  <2>1. PICK f : Sums(f, n) BY <1>2
  <2> DEFINE g == [k \in 0 .. n + 1 |-> IF k = n + 1 THEN f[n] + OnDisk(n + 1) ELSE f[k]]
  <2> HIDE DEF Sums
  <2>2. \A k \in 0 .. n : f[k] = IF k = 0 THEN 0 ELSE f[k - 1] + OnDisk(k)
    BY <2>1 DEF Sums
  <2>3. \A k \in 0 .. n + 1 : g[k] = IF k = 0 THEN 0 ELSE g[k - 1] + OnDisk(k)
    BY <2>2
  <2>4. DOMAIN g = 0 .. n + 1 /\ g = [k \in 0 .. n + 1 |-> g[k]] OBVIOUS
  <2> HIDE DEF g
  <2>5. Sums(g, n + 1) BY <2>3, <2>4 DEF Sums
  <2> QED BY <2>5
<1>3. States \in S
  <2> HIDE DEF S
  <2> QED BY <1>1, <1>2, SetInduction, SpillAssumption
<1> QED BY <1>3 DEF DiskUse

(* What is used by the files up to one is what is used before it and its    *)
(* own length.                                                             *)
UseSums ==
  /\ DiskUse[0] = 0
  /\ \A k \in Ids : DiskUse[k] = DiskUse[k - 1] + OnDisk(k)

(* So DiskUse adds up.                                                      *)
LEMMA UseSumsUp == UseSums
<1> DEFINE f == DiskUse
<1>1. f = [k \in 0 .. States |-> IF k = 0 THEN 0 ELSE f[k - 1] + OnDisk(k)]
  BY DiskUseExists
<1> HIDE DEF f
<1>2. \A k \in 0 .. States : f[k] = IF k = 0 THEN 0 ELSE f[k - 1] + OnDisk(k)
  BY <1>1
<1>3. f[0] = 0 /\ \A k \in Ids : f[k] = f[k - 1] + OnDisk(k)
  BY <1>2, SpillAssumption DEF Ids
<1> QED BY <1>3 DEF f, UseSums

(* The sum is a number.                                                     *)
LEMMA UseIsNatural ==
  ASSUME TypeOK
  PROVE  \A k \in 0 .. States : DiskUse[k] \in Nat
<1> DEFINE S == {n \in Nat : n <= States => DiskUse[n] \in Nat}
<1>1. \A k \in Ids : OnDisk(k) \in Nat BY SpillAssumption DEF TypeOK, OnDisk, Ids
<1>2. 0 \in S BY UseSumsUp DEF UseSums
<1>3. ASSUME NEW n \in Nat, n \in S PROVE n + 1 \in S
  <2>1. CASE n + 1 <= States
    <3>1. n + 1 \in Ids BY <2>1, SpillAssumption DEF Ids
    <3>2. DiskUse[n + 1] = DiskUse[n] + OnDisk(n + 1) BY <3>1, UseSumsUp DEF UseSums
    <3> QED BY <1>1, <1>3, <2>1, <3>1, <3>2, SpillAssumption
  <2> QED BY <2>1, SpillAssumption
<1>4. Nat \subseteq S
  <2> HIDE DEF S
  <2> QED BY <1>2, <1>3, SetInduction
<1> QED BY <1>4, SpillAssumption

(* Files that stay as they are use as much as before.                       *)
LEMMA UseStays ==
  ASSUME NEW m \in 0 .. States, \A k \in Ids : k <= m => OnDisk(k)' = OnDisk(k)
  PROVE  DiskUse'[m] = DiskUse[m]
<1> DEFINE S == {n \in Nat : n <= m => DiskUse'[n] = DiskUse[n]}
<1>1. UseSums' BY UseSumsUp, PTL
<1>2. 0 \in S BY <1>1, UseSumsUp DEF UseSums
<1>3. ASSUME NEW n \in Nat, n \in S PROVE n + 1 \in S
  <2>1. CASE n + 1 <= m
    <3>1. n + 1 \in Ids /\ Ids' = Ids BY <2>1, SpillAssumption DEF Ids
    <3>2. DiskUse[n + 1] = DiskUse[n] + OnDisk(n + 1) BY <3>1, UseSumsUp DEF UseSums
    <3>3. DiskUse'[n + 1] = DiskUse'[n] + OnDisk(n + 1)' BY <1>1, <3>1 DEF UseSums
    <3> QED BY <1>3, <2>1, <3>1, <3>2, <3>3
  <2> QED BY <2>1
<1>4. Nat \subseteq S
  <2> HIDE DEF S
  <2> QED BY <1>2, <1>3, SetInduction
<1> QED BY <1>4

(* Files of which nothing is on the disk add nothing.                       *)
LEMMA UseEnds ==
  ASSUME TypeOK, NEW m \in Ids, \A k \in Ids : k > m => OnDisk(k) = 0
  PROVE  DiskUse[States] = DiskUse[m]
<1> DEFINE S == {n \in Nat : n \in m .. States => DiskUse[n] = DiskUse[m]}
<1>1. 0 \in S BY SpillAssumption DEF Ids
<1>2. ASSUME NEW n \in Nat, n \in S PROVE n + 1 \in S
  <2>1. CASE n + 1 \in m .. States /\ n + 1 # m
    <3>1. n + 1 \in Ids /\ n \in m .. States BY <2>1, SpillAssumption DEF Ids
    <3>2. DiskUse[n + 1] = DiskUse[n] + OnDisk(n + 1) BY <3>1, UseSumsUp DEF UseSums
    <3>3. DiskUse[n] \in Nat /\ OnDisk(n + 1) = 0
      BY <2>1, <3>1, UseIsNatural, SpillAssumption DEF Ids
    <3> QED BY <1>2, <3>1, <3>2, <3>3
  <2> QED BY <2>1
<1>3. Nat \subseteq S
  <2> HIDE DEF S
  <2> QED BY <1>1, <1>2, SetInduction
<1> QED BY <1>3, SpillAssumption DEF Ids

(* Where the account of the state's file is closed.                         *)
Settled == {"publish", "waiting", "dropping", "ending", "returned"}

(* spill_written is the length of the files before; that of the state's     *)
(* file is in it once the worker is through with it.                        *)
AccountInv ==
  /\ DiskUse[state - 1] <= spent
  /\ pc \in Settled => DiskUse[state] <= spent

(* What a step does to the account: it adds the file of the state, or goes  *)
(* to the next state, or leaves it alone.                                   *)
Closes ==
  /\ state' = state /\ spent' = spent + OnDisk(state)
  /\ OnDisk(state)' = OnDisk(state)
Advances == pc = "waiting" /\ pc' = "decode" /\ state' = state + 1 /\ UNCHANGED <<spent, disk>>
Beside ==
  /\ UNCHANGED <<state, spent>>
  /\ pc' \in Settled =>
       OnDisk(state)' = 0 \/ (pc \in Settled /\ OnDisk(state)' = OnDisk(state))
EarlierKept == \A k \in Ids : k < state => OnDisk(k)' = OnDisk(k)

(* Every step is one of these, and leaves the files before alone.           *)
LEMMA AccountSteps ==
  ASSUME SpillInv, [Next]_vars
  PROVE  EarlierKept /\ (Closes \/ Advances \/ Beside)
<1> USE SpillAssumption DEF SpillInv, TypeOK, FileInv, StateFile, Has, WriterInv, SlotInv,
    BudgetInv, Decoding, Preparing, Settled, Ids, OnDisk, EarlierKept, Goto, Own, Remove,
    worker, queue, writer, disk, cancel, control
<1>1. CASE OpenFile \/ OwnFile \/ Register \/ Registered \/ Spawn
  BY <1>1 DEF OpenFile, OwnFile, Register, Registered, Spawn, Beside
<1>2. CASE CannotOpen \/ CannotOwn \/ CannotSpawn
  BY <1>2 DEF CannotOpen, CannotOwn, CannotSpawn, Beside
<1>3. CASE Tap \/ PushRefused \/ Push \/ PushWaits \/ LeaveDecode \/ Sampled \/ Close
           \/ WakeWriter
  BY <1>3 DEF Tap, PushRefused, Push, PushWaits, LeaveDecode, Sampled, Close, WakeWriter,
              Beside
<1>4. CASE Joined
  BY <1>4 DEF Joined, Complete, Closes
<1>5. CASE JoinedFailure \/ JoinDropped
  BY <1>5 DEF JoinedFailure, JoinDropped, DropThread, Beside
<1>6. CASE Publish \/ PublishCancelled \/ WaitCancelled \/ DropAbandoned \/ Return
  BY <1>6 DEF Publish, PublishCancelled, WaitCancelled, DropAbandoned, Return, Beside
<1>7. CASE Answered
  BY <1>7 DEF Answered, Advances, Beside
<1>8. CASE AbortQueue \/ WakeAborted
  BY <1>8 DEF AbortQueue, WakeAborted, Beside
<1>9. CASE WriteSchema \/ WriteBatch \/ WriteEnd
  BY <1>9 DEF WriteSchema, WriteBatch, WriteEnd, Write, Beside
<1>10. CASE WriteFails \/ SeesAbort \/ Pop \/ SeesClosed \/ PopWaits \/ LeaveLoop \/ Fail
            \/ TellFailure
  BY <1>10 DEF WriteFails, SeesAbort, Pop, SeesClosed, PopWaits, LeaveLoop, Fail,
               TellFailure, Beside
<1>11. CASE Cancelling \/ Accept \/ Drain \/ Acknowledge
  BY <1>11 DEF Cancelling, StoreFlag, LockQueue, NoQueue, Abort, Wake, Accept, Drain,
               Acknowledge, Beside
<1>12. CASE Finished \/ UNCHANGED vars
  BY <1>12 DEF Finished, vars, Beside
<1> QED
  BY <1>1, <1>2, <1>3, <1>4, <1>5, <1>6, <1>7, <1>8, <1>9, <1>10, <1>11, <1>12
     DEF Next, Worker, Writer

(* The account is kept by every step.                                       *)
LEMMA AccountKept ==
  ASSUME SpillInv, SpillInv', AccountInv, [Next]_vars
  PROVE  AccountInv'
<1>1. state \in Ids /\ state' \in Ids /\ state - 1 \in 0 .. States /\ Ids' = Ids
  BY SpillAssumption DEF SpillInv, TypeOK, Ids
<1>2. EarlierKept BY AccountSteps
<1>3. DiskUse'[state - 1] = DiskUse[state - 1]
  BY <1>1, <1>2, UseStays, SpillAssumption DEF EarlierKept, Ids
<1>4. DiskUse[state] = DiskUse[state - 1] + OnDisk(state)
  BY <1>1, UseSumsUp DEF UseSums
<1>5. \A k \in Ids : DiskUse'[k] = DiskUse'[k - 1] + (OnDisk(k))'
  <2>1. UseSums' BY UseSumsUp, PTL
  <2> QED BY <1>1, <2>1 DEF UseSums
<1>6. /\ DiskUse[state - 1] \in Nat /\ DiskUse[state] \in Nat /\ OnDisk(state) \in Nat
      /\ spent \in Nat
  <2>1. TypeOK /\ state \in 0 .. States
    BY <1>1, SpillAssumption DEF SpillInv, Ids
  <2>2. DiskUse[state - 1] \in Nat /\ DiskUse[state] \in Nat
    BY <1>1, <2>1, UseIsNatural
  <2>3. bytes[state] \in Nat /\ spent \in Nat
    BY <1>1, <2>1, SpillAssumption DEF TypeOK
  <2> QED BY <2>2, <2>3 DEF OnDisk
<1>7. CASE Closes
  <2>1. DiskUse'[state] = DiskUse[state]
    BY <1>1, <1>3, <1>4, <1>5, <1>7 DEF Closes
  <2> QED BY <1>3, <1>4, <1>6, <1>7, <2>1 DEF Closes, AccountInv
<1>8. CASE Advances
  <2>1. \A k \in Ids : (OnDisk(k))' = OnDisk(k)
    BY <1>8 DEF Advances, OnDisk, disk
  <2>2. DiskUse'[state] = DiskUse[state]
    BY <1>1, <2>1, UseStays, SpillAssumption DEF Ids
  <2>3. state' - 1 = state BY <1>1, <1>8 DEF Advances, Ids
  <2> QED BY <1>8, <2>2, <2>3 DEF Advances, AccountInv, Settled
<1>9. CASE Beside
  <2>1. CASE pc' \in Settled
    <3>1. DiskUse'[state] = DiskUse'[state - 1] + OnDisk(state)'
      BY <1>1, <1>5, <1>9 DEF Beside
    <3> QED BY <1>3, <1>4, <1>6, <1>9, <2>1, <3>1 DEF Beside, AccountInv
  <2>2. CASE pc' \notin Settled BY <1>3, <1>9, <2>2 DEF Beside, AccountInv
  <2> QED BY <2>1, <2>2
<1> QED BY <1>7, <1>8, <1>9, AccountSteps

(* A session begins with an empty account.                                  *)
LEMMA InitAccount == Init => AccountInv
<1> SUFFICES ASSUME Init PROVE AccountInv OBVIOUS
<1>1. DiskUse[0] = 0 BY UseSumsUp DEF UseSums
<1> QED BY <1>1 DEF Init, AccountInv, Settled

(* The files of a job together never exceed the budget of its traces, at    *)
(* any moment of any write, for every number of states (LimitedFile and     *)
(* Capture.remaining).                                                      *)
THEOREM SpillWithinBudget == Spec => []WithinBudget
<1>1. SpillInv /\ AccountInv => WithinBudget
  <2> SUFFICES ASSUME SpillInv, AccountInv PROVE DiskUse[States] <= Budget
    BY DEF WithinBudget
  <2>1. TypeOK /\ state \in Ids /\ state - 1 \in 0 .. States /\ spent \in 0 .. Budget
    BY SpillAssumption DEF SpillInv, TypeOK, Ids
  <2>2. \A k \in Ids : k > state => OnDisk(k) = 0
    BY DEF SpillInv, FileInv, OnDisk
  <2>3. DiskUse[States] = DiskUse[state]
    BY <2>1, <2>2, UseEnds
  <2>4. DiskUse[state] = DiskUse[state - 1] + OnDisk(state)
    BY <2>1, UseSumsUp DEF UseSums
  <2>5. DiskUse[state - 1] \in Nat /\ bytes[state] \in Nat /\ OnDisk(state) <= bytes[state]
    BY <2>1, UseIsNatural, SpillAssumption DEF TypeOK, Ids, OnDisk
  <2>6. CASE pc \in Settled
    BY <2>1, <2>3, <2>4, <2>5, <2>6, UseIsNatural, SpillAssumption DEF AccountInv, Ids
  <2>7. CASE pc \in Preparing
    BY <2>1, <2>3, <2>4, <2>5, <2>7, SpillAssumption
       DEF AccountInv, SpillInv, BudgetInv, OnDisk
  <2>8. CASE pc \in Decoding
    BY <2>1, <2>3, <2>4, <2>5, <2>8, SpillAssumption
       DEF AccountInv, SpillInv, BudgetInv, OnDisk
  <2> QED BY <2>1, <2>6, <2>7, <2>8 DEF TypeOK, Settled, Preparing, Decoding
<1>2. SpillInv /\ SpillInv' /\ AccountInv /\ [Next]_vars => AccountInv'
  BY AccountKept
<1> QED BY SpillInvariant, InitAccount, <1>1, <1>2, PTL DEF Spec
=============================================================================

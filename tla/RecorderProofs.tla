--------------------------- MODULE RecorderProofs ---------------------------
(***************************************************************************)
(* What holds of the recorder for every size of its queue, every number of *)
(* heap buffers and every combination of faults.                           *)
(***************************************************************************)
EXTENDS Recorder, SequenceTheorems, TLAPS

-----------------------------------------------------------------------------
(* Types.                                                                  *)

\* The min() of token_hander and fetch_token is an integer and a lower bound.
LEMMA MinBounds ==
  ASSUME NEW a \in Int, NEW b \in Int
  PROVE  Min(a, b) \in Int /\ Min(a, b) <= a /\ Min(a, b) <= b
BY DEF Min

\* Both halves of jobsqueue_date start at a cell an 8-bit squeue_t.node can name.
LEMMA Halves ==
  ASSUME TypeOK
  PROVE  /\ Seg \in Nat /\ Burst \in Nat /\ Burst <= Seg /\ 2 * Seg <= 256
         /\ OtherHalf \in {0, Seg} /\ {0, Seg} \subseteq 0 .. 255
BY SizesAssumption DEF TypeOK, OtherHalf

\* The set starts with every variable in its range.
LEMMA TypeInit == Init => TypeOK
<1> SUFFICES ASSUME Init PROVE TypeOK
  OBVIOUS
<1>1. cells \in [Cell -> Buf \cup {None}] /\ live \subseteq Buf
  BY DEF Init
<1>2. p = "none" /\ c = "idle" /\ mod \in Modes /\ sfd = FALSE
  BY DEF Init
<1>3. /\ preg \in Int /\ creg \in Int /\ token \in Int /\ node \in 0 .. 255 /\ lag \in Nat
      /\ act = 0 /\ base = 0 /\ count = 0 /\ count <= Burst /\ i \in Nat
  BY SizesAssumption DEF Init
<1>4. QED
  BY <1>1, <1>2, <1>3 DEF Init, TypeOK

\* No step of a thread, the user or the stick takes a variable out of its range.
LEMMA TypeStep == TypeOK /\ [Next]_vars => TypeOK'
<1> SUFFICES ASSUME TypeOK, [Next]_vars PROVE TypeOK'
  OBVIOUS
<1>0. /\ Seg \in Nat /\ Burst \in Nat /\ Burst <= Seg /\ 2 * Seg <= 256
      /\ OtherHalf \in {0, Seg} /\ {0, Seg} \subseteq 0 .. 255
  BY Halves
<1> USE <1>0
<1>1. CASE PInit
  BY <1>1 DEF TypeOK, PInit, queueVars, batchVars, fileVars, flagVars, envVars, PGoto, CGoto
<1>2. CASE PReady
  BY <1>2 DEF TypeOK, PReady, queueVars, batchVars, fileVars, flagVars, envVars, PGoto, CGoto
<1>3. CASE PCheck
  BY <1>3 DEF TypeOK, PCheck, queueVars, batchVars, fileVars, flagVars, envVars, PGoto, CGoto
<1>4. CASE PStore
  BY <1>4 DEF TypeOK, PStore, queueVars, batchVars, fileVars, flagVars, envVars, PGoto, CGoto, Min, Cell, May
<1>5. CASE PNoMem
  BY <1>5 DEF TypeOK, PNoMem, queueVars, batchVars, fileVars, flagVars, envVars, PGoto, CGoto
<1>6. CASE PLoadNode
  BY <1>6 DEF TypeOK, PLoadNode, queueVars, batchVars, fileVars, flagVars, envVars, PGoto, CGoto
<1>7. CASE PBumpNode
  BY <1>7 DEF TypeOK, PBumpNode, queueVars, batchVars, fileVars, flagVars, envVars, PGoto, CGoto
<1>8. CASE PLoadToken
  BY <1>8 DEF TypeOK, PLoadToken, queueVars, batchVars, fileVars, flagVars, envVars, PGoto, CGoto
<1>9. CASE PCredit
  BY <1>9 DEF TypeOK, PCredit, queueVars, batchVars, fileVars, flagVars, envVars, PGoto, CGoto
<1>10. CASE PStopCheck
  BY <1>10 DEF TypeOK, PStopCheck, queueVars, batchVars, fileVars, flagVars, envVars, PGoto, CGoto
<1>11. CASE PLeave
  BY <1>11 DEF TypeOK, PLeave, queueVars, batchVars, fileVars, flagVars, envVars, PGoto, CGoto
<1>12. CASE PWild
  BY <1>12 DEF TypeOK, PWild, queueVars, batchVars, fileVars, flagVars, envVars, PGoto, CGoto
<1>13. CASE CTop
  BY <1>13 DEF TypeOK, CTop, queueVars, batchVars, fileVars, flagVars, envVars, PGoto, CGoto
<1>14. CASE CSpin0
  BY <1>14 DEF TypeOK, CSpin0, queueVars, batchVars, fileVars, flagVars, envVars, PGoto, CGoto
<1>15. CASE CNotify
  BY <1>15 DEF TypeOK, CNotify, queueVars, batchVars, fileVars, flagVars, envVars, PGoto, CGoto
<1>16. CASE CSpin1
  BY <1>16 DEF TypeOK, CSpin1, queueVars, batchVars, fileVars, flagVars, envVars, PGoto, CGoto
<1>17. CASE CFetch
  BY <1>17 DEF TypeOK, CFetch, queueVars, batchVars, fileVars, flagVars, envVars, PGoto, CGoto, Min
<1>18. CASE CLoadToken
  BY <1>18 DEF TypeOK, CLoadToken, queueVars, batchVars, fileVars, flagVars, envVars, PGoto, CGoto
<1>19. CASE CTake
  BY <1>19 DEF TypeOK, CTake, queueVars, batchVars, fileVars, flagVars, envVars, PGoto, CGoto
<1>20. CASE CFetched
  BY <1>20 DEF TypeOK, CFetched, queueVars, batchVars, fileVars, flagVars, envVars, PGoto, CGoto
<1>21. CASE CAbort
  BY <1>21 DEF TypeOK, CAbort, queueVars, batchVars, fileVars, flagVars, envVars, PGoto, CGoto
<1>22. CASE CSwap
  BY <1>22 DEF TypeOK, CSwap, queueVars, batchVars, fileVars, flagVars, envVars, PGoto, CGoto
<1>23. CASE CFileFull
  <2>1. /\ wr_size' \in Nat /\ c' \in {"free", "mode"} /\ stop' \in {0, stop}
        /\ start_stop' \in {-1, start_stop} /\ sfd' \in BOOLEAN
    BY <1>23 DEF CFileFull, TypeOK
  <2>2. QED
    BY <1>23, <2>1 DEF CFileFull, TypeOK, queueVars, batchVars, fileVars, flagVars, envVars
<1>24. CASE CMode
  BY <1>24 DEF TypeOK, CMode, queueVars, batchVars, fileVars, flagVars, envVars, PGoto, CGoto, May
<1>25. CASE COpen
  <2>1. c' \in {"write", "mode"} /\ sfd' \in BOOLEAN
    BY <1>25 DEF COpen, TypeOK
  <2>2. QED
    BY <1>25, <2>1 DEF COpen, TypeOK, queueVars, batchVars, flagVars, envVars
<1>26. CASE CNoFile
  BY <1>26 DEF TypeOK, CNoFile, queueVars, batchVars, fileVars, flagVars, envVars, PGoto, CGoto
<1>27. CASE CWrite
  BY <1>27 DEF TypeOK, CWrite, queueVars, batchVars, fileVars, flagVars, envVars, PGoto, CGoto, Cell
<1>28. CASE CBatchDone
  BY <1>28 DEF TypeOK, CBatchDone, queueVars, batchVars, fileVars, flagVars, envVars, PGoto, CGoto
<1>29. CASE CFree
  <2>1. cells' \in [Cell -> Buf \cup {None}] /\ live' \subseteq Buf
    BY <1>29 DEF CFree, Destory, TypeOK
  <2>2. QED
    BY <1>29, <2>1 DEF CFree, TypeOK, queueVars, batchVars, fileVars, flagVars, envVars
<1>30. CASE CJoin
  BY <1>30 DEF TypeOK, CJoin, queueVars, batchVars, fileVars, flagVars, envVars, PGoto, CGoto
<1>31. CASE CClean
  <2>1. /\ cells' \in [Cell -> Buf \cup {None}] /\ live' \subseteq Buf
        /\ act' \in {0, Seg} /\ node' \in 0 .. 255 /\ lag' \in Nat
    BY <1>31 DEF CClean, Destory, TypeOK, queueVars
  <2>2. token' \in Int
    BY <1>31 DEF CClean, TypeOK, Min
  <2>3. /\ c' = "idle" /\ sfd' = FALSE /\ r_time_out_flag' = 0 /\ msg' = "STOP"
    BY <1>31 DEF CClean, CGoto
  <2>4. /\ p' = p /\ preg' = preg /\ creg' = creg /\ count' = count /\ base' = base /\ i' = i
        /\ ret' = ret /\ written' = written /\ mod' = mod /\ wr_size' = wr_size
        /\ start_stop' = start_stop /\ stop' = stop /\ wait_stop' = wait_stop
        /\ is_active' = is_active /\ is_start' = is_start
    BY <1>31 DEF CClean, batchVars
  <2>5. cells' \in [Cell -> Buf \cup {None}] /\ live' \subseteq Buf /\ count' \in Int /\ count' <= Burst
    BY <2>1, <2>4 DEF TypeOK
  <2>6. written' \in Buf \cup {None} /\ mod' \in Modes /\ sfd' \in BOOLEAN
    BY <2>3, <2>4 DEF TypeOK
  <2>7. node' \in 0 .. 255 /\ act' \in {0, Seg} /\ base' \in {0, Seg} /\ lag' \in Nat /\ i' \in Nat
    BY <2>1, <2>4 DEF TypeOK
  <2>8. QED
    BY <2>2, <2>3, <2>4, <2>5, <2>6, <2>7 DEF TypeOK
<1>32. CASE PWait
  BY <1>32 DEF TypeOK, PWait, queueVars, batchVars, fileVars, flagVars, envVars, PGoto, CGoto
<1>33. CASE CStart
  BY <1>33 DEF TypeOK, CStart, queueVars, batchVars, fileVars, flagVars, envVars, PGoto, CGoto
<1>34. CASE CStartFull
  BY <1>34 DEF TypeOK, CStartFull, queueVars, batchVars, fileVars, flagVars, envVars, PGoto, CGoto, May
<1>35. CASE UserStop
  BY <1>35 DEF TypeOK, UserStop, queueVars, batchVars, fileVars, flagVars, envVars
<1>36. CASE Deliver
  BY <1>36 DEF TypeOK, Deliver, queueVars, batchVars, fileVars, flagVars, envVars
<1>37. CASE Hotplug
  BY <1>37 DEF TypeOK, Hotplug, queueVars, batchVars, fileVars, flagVars, envVars
<1>38. CASE UNCHANGED vars
  BY <1>38 DEF TypeOK, vars, queueVars, batchVars, fileVars, flagVars, envVars
<1>39. QED
  BY <1>1, <1>2, <1>3, <1>4, <1>5, <1>6, <1>7, <1>8, <1>9, <1>10, <1>11, <1>12, <1>13, <1>14, <1>15, <1>16, <1>17, <1>18, <1>19, <1>20, <1>21, <1>22, <1>23, <1>24, <1>25, <1>26, <1>27, <1>28, <1>29, <1>30, <1>31, <1>32, <1>33, <1>34, <1>35, <1>36, <1>37, <1>38 DEF Next, Producer, Consumer

\* Every variable keeps its range.
THEOREM TypeCorrect == Spec => []TypeOK
<1>1. QED
  BY TypeInit, TypeStep, PTL DEF Spec

-----------------------------------------------------------------------------
(* The queue of pointers.                                                  *)

\* wr_usb and destory_date never index past the end of jobsqueue_date.
LEMMA BatchInQueue == TypeOK => Batch \subseteq Cell
BY Halves DEF TypeOK, Batch, Cell

\* Freeing and clearing a range of the queue leaves no dangling pointer.
LEMMA DestorySafe ==
  ASSUME TypeOK, MemorySafe, NEW range \in SUBSET Cell, Destory(range)
  PROVE  MemorySafe'
<1>1. \A k \in Cell : cells'[k] = IF k \in range THEN None ELSE cells[k]
  BY DEF Destory
<1>2. ASSUME NEW k \in Cell, cells'[k] # None
      PROVE  cells'[k] = cells[k] /\ cells'[k] \in live'
  <2>1. k \notin range /\ cells'[k] = cells[k]
    BY <1>1, <1>2
  <2>2. \A l \in range : cells[l] # cells[k]
    BY <1>2, <2>1 DEF MemorySafe
  <2>3. QED
    BY <1>2, <2>1, <2>2 DEF MemorySafe, Destory
<1>3. QED
  BY <1>2 DEF MemorySafe

\* No step stores a pointer twice or leaves a freed one in the queue.
LEMMA MemoryStep == TypeOK /\ MemorySafe /\ [Next]_vars => MemorySafe'
<1> SUFFICES ASSUME TypeOK, MemorySafe, [Next]_vars PROVE MemorySafe'
  OBVIOUS
<1>1. CASE UNCHANGED <<cells, live>>
  BY <1>1 DEF MemorySafe
<1>2. CASE PStore
  <2>1. PICK b \in Buf \ live : cells' = [cells EXCEPT ![node] = b] /\ live' = live \cup {b}
    BY <1>2 DEF PStore
  <2>2. \A k \in Cell : cells'[k] = IF k = node THEN b ELSE cells[k]
    BY <2>1 DEF TypeOK
  <2>3. \A k \in Cell : cells[k] # b
    BY NoneAssumption, <2>1 DEF MemorySafe, TypeOK
  <2>4. QED
    BY <2>1, <2>2, <2>3 DEF MemorySafe
<1>3. CASE CFree
  BY <1>3, BatchInQueue, DestorySafe DEF CFree
<1>4. CASE CClean
  <2>1. CASE UNCHANGED queueVars
    BY <2>1, <1>1 DEF queueVars
  <2>2. CASE ~UNCHANGED queueVars
    <3> DEFINE n == Min(token, Burst)
    <3>1. Destory(act .. act + n - 1)
      BY <1>4, <2>2 DEF CClean
    <3>2. act \in {0, Seg} /\ n \in Int /\ n <= Seg
      BY Halves DEF TypeOK, Min
    <3>3. act .. act + n - 1 \in SUBSET Cell
      BY <3>2, Halves DEF Cell
    <3>4. QED
      BY <3>1, <3>3, DestorySafe
  <2>3. QED
    BY <2>1, <2>2
<1>5. CASE Producer
  <2>1. CASE PInit
    BY <2>1, <1>1 DEF PInit, queueVars
  <2>2. CASE PReady
    BY <2>2, <1>1 DEF PReady, queueVars
  <2>3. CASE PCheck
    BY <2>3, <1>1 DEF PCheck, queueVars
  <2>4. CASE PNoMem
    BY <2>4, <1>1 DEF PNoMem, queueVars
  <2>5. CASE PLoadNode
    BY <2>5, <1>1 DEF PLoadNode, queueVars
  <2>6. CASE PBumpNode
    BY <2>6, <1>1 DEF PBumpNode, queueVars
  <2>7. CASE PLoadToken
    BY <2>7, <1>1 DEF PLoadToken, queueVars
  <2>8. CASE PCredit
    BY <2>8, <1>1 DEF PCredit, queueVars
  <2>9. CASE PStopCheck
    BY <2>9, <1>1 DEF PStopCheck, queueVars
  <2>10. CASE PLeave
    BY <2>10, <1>1 DEF PLeave, queueVars
  <2>11. CASE PWild
    BY <2>11, <1>1 DEF PWild, queueVars
  <2>12. QED
    BY <1>5, <1>2, <2>1, <2>2, <2>3, <2>4, <2>5, <2>6, <2>7, <2>8, <2>9, <2>10, <2>11 DEF Producer
<1>6. CASE Consumer
  <2>1. CASE CTop
    BY <2>1, <1>1 DEF CTop, queueVars
  <2>2. CASE CSpin0
    BY <2>2, <1>1 DEF CSpin0, queueVars
  <2>3. CASE CNotify
    BY <2>3, <1>1 DEF CNotify, queueVars
  <2>4. CASE CSpin1
    BY <2>4, <1>1 DEF CSpin1, queueVars
  <2>5. CASE CFetch
    BY <2>5, <1>1 DEF CFetch, queueVars
  <2>6. CASE CLoadToken
    BY <2>6, <1>1 DEF CLoadToken, queueVars
  <2>7. CASE CTake
    BY <2>7, <1>1 DEF CTake, queueVars
  <2>8. CASE CFetched
    BY <2>8, <1>1 DEF CFetched, queueVars
  <2>9. CASE CAbort
    BY <2>9, <1>1 DEF CAbort, queueVars
  <2>10. CASE CSwap
    BY <2>10, <1>1 DEF CSwap, queueVars
  <2>11. CASE CFileFull
    BY <2>11, <1>1 DEF CFileFull, queueVars
  <2>12. CASE CMode
    BY <2>12, <1>1 DEF CMode, queueVars
  <2>13. CASE COpen
    BY <2>13, <1>1 DEF COpen, queueVars
  <2>14. CASE CNoFile
    BY <2>14, <1>1 DEF CNoFile, queueVars
  <2>15. CASE CWrite
    BY <2>15, <1>1 DEF CWrite, queueVars
  <2>16. CASE CBatchDone
    BY <2>16, <1>1 DEF CBatchDone, queueVars
  <2>17. CASE CJoin
    BY <2>17, <1>1 DEF CJoin, queueVars
  <2>18. QED
    BY <1>6, <1>3, <1>4, <2>1, <2>2, <2>3, <2>4, <2>5, <2>6, <2>7, <2>8, <2>9, <2>10, <2>11, <2>12, <2>13, <2>14, <2>15, <2>16, <2>17 DEF Consumer
<1>7. CASE PWait \/ CStart \/ CStartFull \/ UserStop \/ Deliver \/ Hotplug
  BY <1>7, <1>1 DEF PWait, CStart, CStartFull, UserStop, Deliver, Hotplug, queueVars
<1>8. CASE UNCHANGED vars
  BY <1>8, <1>1 DEF vars, queueVars
<1>9. QED
  BY <1>5, <1>6, <1>7, <1>8 DEF Next

\* Under every fault and every interleaving the queue holds only allocated
\* buffers, each at most once: no use after free and no double free.
THEOREM NoDanglingFrame == Spec => []MemorySafe
<1>1. Init => MemorySafe
  BY DEF Init, MemorySafe
<1>2. QED
  BY <1>1, TypeCorrect, MemoryStep, PTL DEF Spec

-----------------------------------------------------------------------------
(* The end of a session.                                                   *)

\* The join of read_cache cannot be skipped unless calloc fails while fetch_token
\* is at work.
SessionInv == TypeOK /\ NeverOverdrawn /\ ProducerInsideSession

\* Unless calloc fails in that window, no step overdraws the bucket or skips the join.
LEMMA SessionStep ==
  ASSUME "nomemrace" \notin Faults
  PROVE  SessionInv /\ [Next]_vars => SessionInv'
<1> SUFFICES ASSUME SessionInv, [Next]_vars PROVE NeverOverdrawn' /\ ProducerInsideSession'
  BY TypeStep DEF SessionInv
<1>0. /\ Seg \in Nat /\ Burst \in Nat
      /\ token \in Int /\ preg \in Int /\ creg \in Int /\ count \in Int /\ count <= Burst
      /\ NeverOverdrawn /\ ProducerInsideSession
  BY Halves DEF SessionInv, TypeOK
<1> USE <1>0
<1>1. CASE PInit
  BY <1>1 DEF PInit, NeverOverdrawn, ProducerInsideSession, PGoto, CGoto, batchVars, May, Min
<1>2. CASE PReady
  BY <1>2 DEF PReady, NeverOverdrawn, ProducerInsideSession, PGoto, CGoto, batchVars, May, Min
<1>3. CASE PCheck
  BY <1>3 DEF PCheck, NeverOverdrawn, ProducerInsideSession, PGoto, CGoto, batchVars, May, Min
<1>4. CASE PStore
  BY <1>4 DEF PStore, NeverOverdrawn, ProducerInsideSession, PGoto, CGoto, batchVars, May, Min
<1>5. CASE PNoMem
  BY <1>5 DEF PNoMem, Fetching, NeverOverdrawn, ProducerInsideSession, PGoto, CGoto, batchVars, May, Min
<1>6. CASE PLoadNode
  BY <1>6 DEF PLoadNode, NeverOverdrawn, ProducerInsideSession, PGoto, CGoto, batchVars, May, Min
<1>7. CASE PBumpNode
  BY <1>7 DEF PBumpNode, NeverOverdrawn, ProducerInsideSession, PGoto, CGoto, batchVars, May, Min
<1>8. CASE PLoadToken
  BY <1>8 DEF PLoadToken, NeverOverdrawn, ProducerInsideSession, PGoto, CGoto, batchVars, May, Min
<1>9. CASE PCredit
  BY <1>9 DEF PCredit, NeverOverdrawn, ProducerInsideSession, PGoto, CGoto, batchVars, May, Min
<1>10. CASE PStopCheck
  BY <1>10 DEF PStopCheck, NeverOverdrawn, ProducerInsideSession, PGoto, CGoto, batchVars, May, Min
<1>11. CASE PLeave
  BY <1>11 DEF PLeave, NeverOverdrawn, ProducerInsideSession, PGoto, CGoto, batchVars, May, Min
<1>12. CASE PWild
  BY <1>12 DEF PWild, NeverOverdrawn, ProducerInsideSession, PGoto, CGoto, batchVars, May, Min
<1>13. CASE CTop
  BY <1>13 DEF CTop, NeverOverdrawn, ProducerInsideSession, PGoto, CGoto, batchVars, May, Min
<1>14. CASE CSpin0
  BY <1>14 DEF CSpin0, NeverOverdrawn, ProducerInsideSession, PGoto, CGoto, batchVars, May, Min
<1>15. CASE CNotify
  BY <1>15 DEF CNotify, NeverOverdrawn, ProducerInsideSession, PGoto, CGoto, batchVars, May, Min
<1>16. CASE CSpin1
  BY <1>16 DEF CSpin1, NeverOverdrawn, ProducerInsideSession, PGoto, CGoto, batchVars, May, Min
<1>17. CASE CFetch
  BY <1>17 DEF CFetch, NeverOverdrawn, ProducerInsideSession, PGoto, CGoto, batchVars, May, Min
<1>18. CASE CLoadToken
  BY <1>18 DEF CLoadToken, NeverOverdrawn, ProducerInsideSession, PGoto, CGoto, batchVars, May, Min
<1>19. CASE CTake
  BY <1>19 DEF CTake, NeverOverdrawn, ProducerInsideSession, PGoto, CGoto, batchVars, May, Min
<1>20. CASE CFetched
  BY <1>20 DEF CFetched, NeverOverdrawn, ProducerInsideSession, PGoto, CGoto, batchVars, May, Min
<1>21. CASE CAbort
  BY <1>21 DEF CAbort, NeverOverdrawn, ProducerInsideSession, PGoto, CGoto, batchVars, May, Min
<1>22. CASE CSwap
  BY <1>22 DEF CSwap, NeverOverdrawn, ProducerInsideSession, PGoto, CGoto, batchVars, May, Min
<1>23. CASE CFileFull
  BY <1>23 DEF CFileFull, NeverOverdrawn, ProducerInsideSession, PGoto, CGoto, batchVars, May, Min
<1>24. CASE CMode
  BY <1>24 DEF CMode, NeverOverdrawn, ProducerInsideSession, PGoto, CGoto, batchVars, May, Min
<1>25. CASE COpen
  BY <1>25 DEF COpen, NeverOverdrawn, ProducerInsideSession, PGoto, CGoto, batchVars, May, Min
<1>26. CASE CNoFile
  BY <1>26 DEF CNoFile, NeverOverdrawn, ProducerInsideSession, PGoto, CGoto, batchVars, May, Min
<1>27. CASE CWrite
  BY <1>27 DEF CWrite, NeverOverdrawn, ProducerInsideSession, PGoto, CGoto, batchVars, May, Min
<1>28. CASE CBatchDone
  BY <1>28 DEF CBatchDone, NeverOverdrawn, ProducerInsideSession, PGoto, CGoto, batchVars, May, Min
<1>29. CASE CFree
  BY <1>29 DEF CFree, NeverOverdrawn, ProducerInsideSession, PGoto, CGoto, batchVars, May, Min
<1>30. CASE CJoin
  BY <1>30 DEF CJoin, NeverOverdrawn, ProducerInsideSession, PGoto, CGoto, batchVars, May, Min
<1>31. CASE CClean
  BY <1>31 DEF CClean, NeverOverdrawn, ProducerInsideSession, PGoto, CGoto, batchVars, May, Min
<1>32. CASE PWait
  BY <1>32 DEF PWait, NeverOverdrawn, ProducerInsideSession, PGoto, CGoto, batchVars, May, Min
<1>33. CASE CStart
  BY <1>33 DEF CStart, NeverOverdrawn, ProducerInsideSession, PGoto, CGoto, batchVars, May, Min
<1>34. CASE CStartFull
  BY <1>34 DEF CStartFull, NeverOverdrawn, ProducerInsideSession, PGoto, CGoto, batchVars, May, Min
<1>35. CASE UserStop
  BY <1>35 DEF UserStop, NeverOverdrawn, ProducerInsideSession, PGoto, CGoto, batchVars, May, Min
<1>36. CASE Deliver
  BY <1>36 DEF Deliver, NeverOverdrawn, ProducerInsideSession, PGoto, CGoto, batchVars, May, Min
<1>37. CASE Hotplug
  BY <1>37 DEF Hotplug, NeverOverdrawn, ProducerInsideSession, PGoto, CGoto, batchVars, May, Min
<1>38. CASE UNCHANGED vars
  BY <1>38 DEF NeverOverdrawn, ProducerInsideSession, vars, batchVars
<1>39. QED
  BY <1>1, <1>2, <1>3, <1>4, <1>5, <1>6, <1>7, <1>8, <1>9, <1>10, <1>11, <1>12, <1>13, <1>14, <1>15, <1>16, <1>17, <1>18, <1>19, <1>20, <1>21, <1>22, <1>23, <1>24, <1>25, <1>26, <1>27, <1>28, <1>29, <1>30, <1>31, <1>32, <1>33, <1>34, <1>35, <1>36, <1>37, <1>38 DEF Next, Producer, Consumer

\* A session starts with an empty bucket and no thread.
LEMMA SessionInit == Init => SessionInv
BY TypeInit, SizesAssumption DEF Init, SessionInv, NeverOverdrawn, ProducerInsideSession, Min

\* Unless calloc fails in that window, usb_write_handler never unmaps the FPGA
\* memory under a running read_cache, whatever else goes wrong.
THEOREM SessionJoined ==
  ASSUME "nomemrace" \notin Faults
  PROVE  Spec => []ProducerInsideSession
<1>1. Init => SessionInv
  BY SessionInit
<1>2. SessionInv /\ [Next]_vars => SessionInv'
  BY SessionStep
<1>3. SessionInv => ProducerInsideSession
  BY DEF SessionInv
<1>4. QED
  BY <1>1, <1>2, <1>3, PTL DEF Spec

\* Under the same condition fetch_token never finds a negative bucket, although it
\* races token_hander for it: a lost update only leaves the bucket too full.
THEOREM BucketSound ==
  ASSUME "nomemrace" \notin Faults
  PROVE  Spec => []NeverOverdrawn
<1>1. Init => SessionInv
  BY SessionInit
<1>2. SessionInv /\ [Next]_vars => SessionInv'
  BY SessionStep
<1>3. SessionInv => NeverOverdrawn
  BY DEF SessionInv
<1>4. QED
  BY <1>1, <1>2, <1>3, PTL DEF Spec

-----------------------------------------------------------------------------
(***************************************************************************)
(* The handshake over stop and wait_stop, whatever faults there are.  The  *)
(* writing thread sets stop inside its loop in two places only, and        *)
(* read_cache acknowledges nothing else there: the STOP of the user leaves *)
(* the loop at once.                                                       *)
(***************************************************************************)
InLoop == c \notin {"idle", "join", "clean"}

\* Stop was set by the size of a single recording, or for want of a file.
OwnStop == start_stop = -1 \/ (mod = "SEG" /\ ~sfd /\ c \notin {"mode", "open"})

HandshakeInv ==
  /\ TypeOK
  /\ InLoop => /\ stop <= 0 => OwnStop \/ p = "dead"
               /\ wait_stop = 1 => OwnStop
               /\ start_stop = -1 => stop <= 0 \/ wait_stop = 1
               /\ ~sfd => wr_size = 0
  /\ c \in {"notify", "spin1"} /\ start_stop = -1 => wait_stop = 1
  /\ c = "spin1" => start_stop = -1
  /\ c \in {"mode", "open", "nofile"} => ~sfd
  /\ c = "nofile" => mod = "SEG"
  /\ c # "idle" /\ p = "leave" => wait_stop = 1 \/ r_time_out_flag = 1

\* No step of either thread breaks the handshake.
LEMMA HandshakeStep == HandshakeInv /\ [Next]_vars => HandshakeInv'
<1> SUFFICES ASSUME HandshakeInv, [Next]_vars PROVE HandshakeInv'
  OBVIOUS
<1>0. /\ stop \in {-1, 0, 1} /\ wait_stop \in {0, 1} /\ start_stop \in {-1, 0}
      /\ r_time_out_flag \in {0, 1} /\ FileMax \in Nat \ {0} /\ TypeOK'
  BY TypeStep, SizesAssumption DEF HandshakeInv, TypeOK
<1> USE <1>0 DEF HandshakeInv, InLoop, OwnStop
<1>1. CASE PInit \/ PReady \/ PCheck \/ PStore \/ PNoMem \/ PLoadNode \/ PBumpNode
           \/ PLoadToken \/ PCredit
  BY <1>1 DEF PInit, PReady, PCheck, PStore, PNoMem, PLoadNode, PBumpNode, PLoadToken,
              PCredit, PGoto, batchVars, fileVars, flagVars
<1>2. CASE PStopCheck
  BY <1>2 DEF PStopCheck, fileVars
<1>3. CASE PLeave
  BY <1>3 DEF PLeave, PGoto, fileVars
<1>4. CASE PWild \/ PWait
  BY <1>4 DEF PWild, PWait, fileVars, flagVars
<1>5. CASE CTop \/ CSpin0 \/ CSpin1 \/ CFetch \/ CLoadToken \/ CTake \/ CFetched \/ CAbort
           \/ CSwap
  BY <1>5 DEF CTop, CSpin0, CSpin1, CFetch, CLoadToken, CTake, CFetched, CAbort, CSwap, CGoto,
              fileVars, flagVars
<1>6. CASE CNotify
  BY <1>6 DEF CNotify, fileVars
<1>7. CASE CFileFull
  BY <1>7 DEF CFileFull
<1>8. CASE CMode \/ COpen \/ CNoFile
  BY <1>8 DEF CMode, COpen, CNoFile, CGoto, fileVars, flagVars
<1>9. CASE CWrite
  BY <1>9 DEF CWrite, flagVars
<1>10. CASE CBatchDone \/ CFree \/ CJoin \/ CClean
  BY <1>10 DEF CBatchDone, CFree, CJoin, CClean, CGoto, fileVars, flagVars
<1>11. CASE CStart \/ CStartFull
  BY <1>11 DEF CStart, CStartFull, CGoto
<1>12. CASE UserStop \/ Deliver \/ Hotplug
  BY <1>12 DEF UserStop, Deliver, Hotplug, fileVars, flagVars
<1>13. CASE UNCHANGED vars
  BY <1>13 DEF vars, fileVars, flagVars
<1>14. QED
  BY <1>1, <1>2, <1>3, <1>4, <1>5, <1>6, <1>7, <1>8, <1>9, <1>10, <1>11, <1>12, <1>13
     DEF Next, Producer, Consumer

\* The wait after a single recording always ends; the one at the head of the loop
\* hangs only after the writing thread has set stop itself.  (WaitsEnd)
THEOREM HandshakeHolds == Spec => []WaitsEnd
<1>1. Init => HandshakeInv
  BY TypeInit DEF Init, HandshakeInv, InLoop
<1>2. HandshakeInv /\ [Next]_vars => HandshakeInv'
  BY HandshakeStep
<1>3. HandshakeInv => WaitsEnd
  <2> SUFFICES ASSUME HandshakeInv PROVE WaitsEnd
    OBVIOUS
  <2>1. start_stop \in {-1, 0}
    BY DEF HandshakeInv, TypeOK
  <2>2. QED
    BY <2>1 DEF HandshakeInv, WaitsEnd, Stuck, InLoop, OwnStop
<1>4. QED
  BY <1>1, <1>2, <1>3, PTL DEF Spec

-----------------------------------------------------------------------------
(***************************************************************************)
(* The queue, as long as memory suffices, write() and open() succeed, a    *)
(* pulled stick stays out, and token_hander and fetch_token do not         *)
(* overlap.  Isolation and the order of the frames hold although the FPGA  *)
(* falls silent, the stick is pulled or fills up; that the bucket agrees   *)
(* with the queue and that no buffer is lost holds without any of these.   *)
(***************************************************************************)

(* The inductive invariant.                                                *)

Benign == {"silent", "unplug", "full"}

\* Exits of the writing loop that leave read_cache running, and the loop between
\* the stop test and them.
Ends == {"spin0", "spin1", "join"}
Looping == {"notify", "fetch", "sub", "subbed", "fetched", "swap", "write", "mode", "open"}

\* read_cache stores at most one more frame.
Closing ==
  \/ stop <= 0 \/ is_active = 0 \/ p \in {"leave", "dead"}
  \/ p = "check" /\ r_time_out_flag = 1

\* Why the exits may wait for read_cache: whoever leaves the loop has set stop,
\* or has seen that the thread is leaving by itself.
Stops ==
  /\ c \in Ends => Closing
  /\ c \in Looping /\ stop <= 0 => p = "dead"
  /\ c \in Looping /\ start_stop = -1 => c = "notify" /\ p = "dead"
  /\ c \in {"free", "top"} /\ start_stop = -1 => stop <= 0 \/ p = "dead"
  /\ c = "nofile" => stop <= 0 \/ p = "dead"
  /\ r_time_out_flag = 1 => c # "idle" /\ (stop <= 0 \/ p \in {"check", "leave", "dead"})
  /\ c = "free" /\ ret = "err" => Closing
  /\ c \in {"write", "mode", "open"} /\ ret = "err" => i = 0 \/ is_active = 0 \/ p = "dead"
  /\ c \in Looping \ {"mode", "open"} /\ ~sfd => p = "dead"
  /\ c \in {"free", "top"} /\ ~sfd => stop <= 0 \/ p = "dead"

\* squeue_t.node counts the frames in the active half; it trails the frames stored
\* by the one that token_hander is about to count.  The half never overflows: one
\* frame more than the swaps allow, and only while the session ends.
Place ==
  /\ node = IF p \in {"bump", "bumped"} THEN act + lag - 1 ELSE act + lag
  /\ p = "bumped" => preg = node
  /\ Fetching => ~Handling
  /\ p \in {"bump", "bumped"} => lag >= 1
  /\ lag <= Lag + 1
  /\ lag = Lag + 1 =>
       /\ c \in Ends \cup {"clean"} /\ p # "store"
       /\ p \in {"poll", "check"} => is_active = 0 \/ (p = "check" /\ r_time_out_flag = 1)
  /\ c = "idle" \/ p = "init" => lag = 0
  /\ Writing => base = OtherHalf
  /\ p # "wild"

\* The bucket and the batch count what is in the two halves.  Only a session that a
\* silent FPGA or a pulled stick ended may have taken tokens without their frames.
Owed == IF Handling THEN lag - 1 ELSE lag

Bucket ==
  /\ p = "credited" => preg = token
  /\ Handling => lag >= 1
  /\ ~Fetching /\ c \notin {"join", "clean"} => token = Owed
  /\ c \in {"join", "clean"} => token <= Owed
  /\ c = "sub" => count = lag /\ token = lag
  /\ c = "subbed" => count = lag /\ token = lag /\ creg = lag
  /\ c \in {"fetched", "swap"} => count = lag /\ token = 0
  /\ c = "swap" \/ Writing => count >= 1
  /\ Writing => i <= count
  /\ c \in {"mode", "open"} => i < count

\* Every cell that is counted holds a frame.
Filled ==
  /\ \A k \in act .. act + lag - 1 : cells[k] # None
  /\ Writing => \A k \in Batch : cells[k] # None

QueueInv == SessionInv /\ MemorySafe /\ Stops /\ Place /\ Bucket /\ Filled

\* Without any fault the bucket never loses a token, no cell holds a frame that is
\* not counted, and every buffer is in a cell.
Exact ==
  /\ r_time_out_flag = 0 /\ is_active = 1 /\ c # "nofile"
  /\ c \in {"join", "clean"} => token = Owed
  /\ \A k \in Cell : cells[k] # None =>
       k \in act .. act + lag - 1 \/ (Writing /\ k \in Batch)
  /\ live \subseteq {cells[k] : k \in Cell}

CleanInv == QueueInv /\ Exact

-----------------------------------------------------------------------------
(* Step by step.                                                           *)

\* The scalar types that the proofs below read.
LEMMA Scalars ==
  ASSUME TypeOK
  PROVE  /\ stop \in {-1, 0, 1} /\ start_stop \in {-1, 0} /\ r_time_out_flag \in {0, 1}
         /\ is_active \in {0, 1} /\ wait_stop \in {0, 1} /\ i \in Nat /\ count \in Int
         /\ sfd \in BOOLEAN
  BY DEF TypeOK

\* What a batch in the other half holds: wr_usb finds no NULL in it.
LEMMA FrameToWrite ==
  ASSUME QueueInv, c = "write", i < count
  PROVE  cells[base + i] # None
<1>1. i \in Nat /\ count \in Int /\ base \in {0, Seg} /\ Seg \in Nat
  BY SizesAssumption DEF QueueInv, SessionInv, TypeOK
<1>2. base + i \in Batch
  BY <1>1 DEF Batch
<1>3. QED
  BY <1>2 DEF QueueInv, Filled, Writing

\* The exits of the loop.
LEMMA StopsStep ==
  ASSUME Faults \subseteq Benign, QueueInv, [Next]_vars
  PROVE  Stops'
<1>0. /\ stop \in {-1, 0, 1} /\ start_stop \in {-1, 0} /\ r_time_out_flag \in {0, 1}
      /\ is_active \in {0, 1} /\ wait_stop \in {0, 1} /\ i \in Nat /\ count \in Int
      /\ sfd \in BOOLEAN
      /\ Stops /\ ProducerInsideSession
      /\ "werr" \notin Faults /\ "replug" \notin Faults
      /\ p = "init" => c \in {"top", "spin0", "notify", "spin1", "fetch", "join"}
  BY Scalars DEF QueueInv, SessionInv, NeverOverdrawn, Benign
<1> USE <1>0 DEF Stops, Closing, Ends, Looping, ProducerInsideSession, May, PGoto, CGoto,
                 queueVars, batchVars, fileVars, flagVars, envVars
<1>1. CASE PInit
  BY <1>1 DEF PInit
<1>2. CASE PReady
  BY <1>2 DEF PReady
<1>3. CASE PCheck
  BY <1>3 DEF PCheck
<1>4. CASE PStore
  BY <1>4 DEF PStore
<1>5. CASE PNoMem
  BY <1>5 DEF PNoMem
<1>6. CASE PLoadNode
  BY <1>6 DEF PLoadNode
<1>7. CASE PBumpNode
  BY <1>7 DEF PBumpNode
<1>8. CASE PLoadToken
  BY <1>8 DEF PLoadToken
<1>9. CASE PCredit
  BY <1>9 DEF PCredit
<1>10. CASE PStopCheck
  BY <1>10 DEF PStopCheck
<1>11. CASE PLeave
  BY <1>11 DEF PLeave
<1>12. CASE PWild
  BY <1>12 DEF PWild
<1>13. CASE CTop
  BY <1>13 DEF CTop
<1>14. CASE CSpin0
  BY <1>14 DEF CSpin0
<1>15. CASE CNotify
  BY <1>15 DEF CNotify
<1>16. CASE CSpin1
  BY <1>16 DEF CSpin1
<1>17. CASE CFetch
  BY <1>17 DEF CFetch
<1>18. CASE CLoadToken
  BY <1>18 DEF CLoadToken
<1>19. CASE CTake
  BY <1>19 DEF CTake
<1>20. CASE CFetched
  BY <1>20 DEF CFetched
<1>21. CASE CAbort
  BY <1>21 DEF CAbort
<1>22. CASE CSwap
  BY <1>22 DEF CSwap
<1>23. CASE CFileFull
  <2>1. CASE c' = "free" /\ stop' = 0
    BY <1>23, <2>1 DEF CFileFull
  <2>2. CASE mod # "SIG" /\ c' = "mode" /\ sfd' = FALSE /\ UNCHANGED <<start_stop, stop>>
    BY <1>23, <2>2 DEF CFileFull
  <2>3. QED
    BY <1>23, <2>1, <2>2 DEF CFileFull
<1>24. CASE CMode
  BY <1>24 DEF CMode
<1>25. CASE COpen
  BY <1>25 DEF COpen
<1>26. CASE CNoFile
  BY <1>26 DEF CNoFile
<1>27. CASE CWrite
  <2>1. cells[base + i] # None
    BY <1>27, FrameToWrite DEF CWrite
  <2>2. ret' = "ok" \/ (ret' = "err" /\ (~sfd \/ is_active = 0))
    BY <1>27, <2>1 DEF CWrite
  <2>3. UNCHANGED <<p, c, sfd, start_stop, flagVars, envVars>> /\ c = "write"
    BY <1>27 DEF CWrite
  <2>4. QED
    BY <2>2, <2>3
<1>28. CASE CBatchDone
  <2>1. count >= 1
    BY <1>28 DEF CBatchDone, QueueInv, Bucket, Writing
  <2>2. QED
    BY <1>28, <2>1 DEF CBatchDone
<1>29. CASE CFree
  BY <1>29 DEF CFree
<1>30. CASE CJoin
  BY <1>30 DEF CJoin
<1>31. CASE CClean
  BY <1>31 DEF CClean
<1>32. CASE PWait
  BY <1>32 DEF PWait
<1>33. CASE CStart
  BY <1>33 DEF CStart
<1>34. CASE CStartFull
  BY <1>34 DEF CStartFull
<1>35. CASE UserStop
  BY <1>35 DEF UserStop
<1>36. CASE Deliver
  BY <1>36 DEF Deliver
<1>37. CASE Hotplug
  BY <1>37 DEF Hotplug
<1>38. CASE UNCHANGED vars
  BY <1>38 DEF vars
<1>39. QED
  BY <1>1, <1>2, <1>3, <1>4, <1>5, <1>6, <1>7, <1>8, <1>9, <1>10, <1>11, <1>12, <1>13, <1>14,
     <1>15, <1>16, <1>17, <1>18, <1>19, <1>20, <1>21, <1>22, <1>23, <1>24, <1>25, <1>26,
     <1>27, <1>28, <1>29, <1>30, <1>31, <1>32, <1>33, <1>34, <1>35, <1>36, <1>37, <1>38
  DEF Next, Producer, Consumer

\* The numbers that node, lag and the bucket are compared with.
LEMMA Numbers ==
  ASSUME TypeOK
  PROVE  /\ Seg \in Nat /\ Burst \in Nat /\ Lag \in Nat
         /\ Lag >= 1 /\ Lag < Burst /\ Burst <= Seg /\ 2 * Seg < 256
         /\ node \in Nat /\ act \in {0, Seg} /\ OtherHalf \in {0, Seg} /\ OtherHalf # act
         /\ lag \in Nat /\ preg \in Int /\ creg \in Int /\ token \in Int
         /\ count \in Int /\ i \in Nat
  BY SizesAssumption DEF TypeOK, OtherHalf

\* The active half.
LEMMA PlaceStep ==
  ASSUME Faults \subseteq Benign, QueueInv, [Next]_vars
  PROVE  Place'
<1>0. /\ Seg \in Nat /\ Burst \in Nat /\ Lag \in Nat
      /\ Lag >= 1 /\ Lag < Burst /\ Burst <= Seg /\ 2 * Seg < 256
      /\ node \in Nat /\ act \in {0, Seg} /\ OtherHalf \in {0, Seg} /\ OtherHalf # act
      /\ lag \in Nat /\ preg \in Int
      /\ stop \in {-1, 0, 1} /\ r_time_out_flag \in {0, 1} /\ is_active \in {0, 1}
      /\ Place /\ ProducerInsideSession
      /\ "overlap" \notin Faults /\ "replug" \notin Faults
      /\ p = "init" => c \in {"top", "spin0", "notify", "spin1", "fetch", "join"}
      /\ c = "clean" => p = "dead"
      /\ c \in Ends => Closing
  BY Numbers, Scalars DEF QueueInv, SessionInv, NeverOverdrawn, Benign, Stops
<1> USE <1>0 DEF Place, Ends, Closing, ProducerInsideSession, Writing, Fetching, Handling, OtherHalf, May,
                 PGoto, CGoto, queueVars, batchVars, fileVars, flagVars, envVars
<1>1. CASE PInit
  <2>1. p = "init" /\ p' = "poll" /\ node' = 0 /\ act' = 0 /\ lag' = 0 /\ c' = c
    BY <1>1 DEF PInit
  <2>2. ~Writing' /\ ~Handling' /\ ~Fetching'
    BY <2>1
  <2>3. node' = act' + lag' /\ lag' = 0 /\ lag' <= Lag + 1 /\ lag' # Lag + 1
    BY <2>1
  <2>4. p' = "poll"
    BY <2>1
  <2>5. QED
    BY <2>2, <2>3, <2>4
<1>2. CASE PReady
  BY <1>2 DEF PReady
<1>3. CASE PCheck
  BY <1>3 DEF PCheck
<1>4. CASE PStore
  BY <1>4 DEF PStore
<1>5. CASE PNoMem
  BY <1>5 DEF PNoMem
<1>6. CASE PLoadNode
  BY <1>6 DEF PLoadNode
<1>7. CASE PBumpNode
  <2>1. p = "bumped" /\ p' = "credit" /\ node' = (node + 1) % 256 /\ c' = c
        /\ UNCHANGED <<act, lag, base, is_active, r_time_out_flag>>
    BY <1>7 DEF PBumpNode
  <2>2. node + 1 = act + lag
    BY <2>1
  <2>3. act + lag \in 0 .. 255
    <3>1. act + lag <= 2 * Seg
      OBVIOUS
    <3>2. QED
      BY <3>1
  <2>4. node' = act + lag
    BY <2>1, <2>2, <2>3
  <2>5. QED
    BY <2>1, <2>4
<1>8. CASE PLoadToken
  BY <1>8 DEF PLoadToken
<1>9. CASE PCredit
  BY <1>9 DEF PCredit
<1>10. CASE PStopCheck
  BY <1>10 DEF PStopCheck
<1>11. CASE PLeave
  BY <1>11 DEF PLeave
<1>12. CASE PWild
  <2>1. p = "store" => node \in Cell
    BY DEF Cell
  <2>2. QED
    BY <1>12, <2>1 DEF PWild
<1>13. CASE CTop
  BY <1>13 DEF CTop
<1>14. CASE CSpin0
  BY <1>14 DEF CSpin0
<1>15. CASE CNotify
  BY <1>15 DEF CNotify
<1>16. CASE CSpin1
  BY <1>16 DEF CSpin1
<1>17. CASE CFetch
  BY <1>17 DEF CFetch
<1>18. CASE CLoadToken
  BY <1>18 DEF CLoadToken
<1>19. CASE CTake
  BY <1>19 DEF CTake
<1>20. CASE CFetched
  BY <1>20 DEF CFetched
<1>21. CASE CAbort
  <2>1. c = "fetched" => count >= 0
    BY DEF QueueInv, SessionInv, NeverOverdrawn
  <2>2. QED
    BY <1>21, <2>1, Numbers DEF CAbort, QueueInv, SessionInv
<1>22. CASE CSwap
  BY <1>22 DEF CSwap
<1>23. CASE CFileFull
  BY <1>23 DEF CFileFull
<1>24. CASE CMode
  BY <1>24 DEF CMode
<1>25. CASE COpen
  BY <1>25 DEF COpen
<1>26. CASE CNoFile
  BY <1>26 DEF CNoFile
<1>27. CASE CWrite
  BY <1>27 DEF CWrite
<1>28. CASE CBatchDone
  BY <1>28 DEF CBatchDone
<1>29. CASE CFree
  BY <1>29 DEF CFree
<1>30. CASE CJoin
  BY <1>30 DEF CJoin
<1>31. CASE CClean
  <2>1. token \in Int /\ token >= 0
    BY Numbers DEF QueueInv, SessionInv, NeverOverdrawn
  <2>2. ~(Min(token, Burst) < 0)
    BY <2>1 DEF Min
  <2>3. act' = OtherHalf /\ node' = OtherHalf /\ lag' = 0
    BY <1>31, <2>2 DEF CClean
  <2>4. c' = "idle" /\ p = "dead" /\ UNCHANGED <<p, preg, is_active>>
    BY <1>31 DEF CClean
  <2>5. QED
    BY <2>3, <2>4
<1>32. CASE PWait
  BY <1>32 DEF PWait
<1>33. CASE CStart
  BY <1>33 DEF CStart
<1>34. CASE CStartFull
  BY <1>34 DEF CStartFull
<1>35. CASE UserStop
  BY <1>35 DEF UserStop
<1>36. CASE Deliver
  BY <1>36 DEF Deliver
<1>37. CASE Hotplug
  BY <1>37 DEF Hotplug
<1>38. CASE UNCHANGED vars
  BY <1>38 DEF vars
<1>39. QED
  BY <1>1, <1>2, <1>3, <1>4, <1>5, <1>6, <1>7, <1>8, <1>9, <1>10, <1>11, <1>12, <1>13, <1>14,
     <1>15, <1>16, <1>17, <1>18, <1>19, <1>20, <1>21, <1>22, <1>23, <1>24, <1>25, <1>26,
     <1>27, <1>28, <1>29, <1>30, <1>31, <1>32, <1>33, <1>34, <1>35, <1>36, <1>37, <1>38
  DEF Next, Producer, Consumer

\* A bucket that is not fuller than the batch size is taken or clamped as it is.
LEMMA MinSmall ==
  ASSUME NEW a \in Int, NEW b \in Int, a <= b
  PROVE  Min(a, b) = a
  BY DEF Min

\* The bucket and the batch.
LEMMA BucketStep ==
  ASSUME Faults \subseteq Benign, QueueInv, [Next]_vars
  PROVE  Bucket'
<1>0. /\ Seg \in Nat /\ Burst \in Nat /\ Lag \in Nat
      /\ Lag >= 1 /\ Lag < Burst /\ Burst <= Seg /\ 2 * Seg < 256
      /\ lag \in Nat /\ preg \in Int /\ creg \in Int /\ token \in Int
      /\ count \in Int /\ i \in Nat
      /\ Bucket
      /\ "overlap" \notin Faults /\ "nomem" \notin Faults
      /\ p = "init" => c \in {"top", "spin0", "notify", "spin1", "fetch", "join"}
      /\ Fetching => ~Handling
      /\ lag <= Lag + 1 /\ (lag = Lag + 1 => c \in Ends \cup {"clean"} /\ p # "store")
      /\ c = "idle" \/ p = "init" => lag = 0
      /\ token >= 0 /\ (c = "clean" => p = "dead")
  BY Numbers DEF QueueInv, SessionInv, NeverOverdrawn, Benign, Place
<1> USE <1>0 DEF Bucket, Owed, Ends, Writing, Fetching, Handling, May,
                 PGoto, CGoto, queueVars, batchVars, fileVars, flagVars, envVars
<1>1. CASE PInit
  <2>1. p' = "poll" /\ token' = 0 /\ lag' = 0
    BY <1>1 DEF PInit
  <2>2. c' = c /\ c \in {"top", "spin0", "notify", "spin1", "fetch", "join"}
    BY <1>1 DEF PInit
  <2>3. ~Handling' /\ ~Fetching' /\ ~Writing'
    BY <2>1, <2>2
  <2>4. Owed' = 0
    BY <2>1, <2>3
  <2>5. QED
    BY <2>1, <2>2, <2>3, <2>4
<1>2. CASE PReady
  BY <1>2 DEF PReady
<1>3. CASE PCheck
  BY <1>3 DEF PCheck
<1>4. CASE PStore
  <2>1. token' = token
    BY <1>4, MinSmall DEF PStore
  <2>2. QED
    BY <1>4, <2>1 DEF PStore
<1>5. CASE PNoMem
  BY <1>5 DEF PNoMem
<1>6. CASE PLoadNode
  BY <1>6 DEF PLoadNode
<1>7. CASE PBumpNode
  BY <1>7 DEF PBumpNode
<1>8. CASE PLoadToken
  BY <1>8 DEF PLoadToken
<1>9. CASE PCredit
  BY <1>9 DEF PCredit
<1>10. CASE PStopCheck
  BY <1>10 DEF PStopCheck
<1>11. CASE PLeave
  BY <1>11 DEF PLeave
<1>12. CASE PWild
  BY <1>12 DEF PWild
<1>13. CASE CTop
  BY <1>13 DEF CTop
<1>14. CASE CSpin0
  BY <1>14 DEF CSpin0
<1>15. CASE CNotify
  BY <1>15 DEF CNotify
<1>16. CASE CSpin1
  BY <1>16 DEF CSpin1
<1>17. CASE CFetch
  <2>1. count' = token
    BY <1>17, MinSmall DEF CFetch
  <2>2. QED
    BY <1>17, <2>1 DEF CFetch
<1>18. CASE CLoadToken
  BY <1>18 DEF CLoadToken
<1>19. CASE CTake
  BY <1>19 DEF CTake
<1>20. CASE CFetched
  BY <1>20 DEF CFetched
<1>21. CASE CAbort
  BY <1>21 DEF CAbort
<1>22. CASE CSwap
  <2>1. c = "swap" /\ c' = "write" /\ lag' = 0 /\ i' = 0 /\ UNCHANGED <<p, token, count>>
    BY <1>22 DEF CSwap
  <2>2. ~Handling /\ token = 0 /\ count >= 1
    BY <2>1
  <2>3. ~Handling' /\ ~Fetching' /\ p' # "credited"
    BY <2>1, <2>2
  <2>4. Owed' = 0
    BY <2>1, <2>3
  <2>5. QED
    BY <2>1, <2>2, <2>3, <2>4
<1>23. CASE CFileFull
  BY <1>23 DEF CFileFull
<1>24. CASE CMode
  BY <1>24 DEF CMode
<1>25. CASE COpen
  BY <1>25 DEF COpen
<1>26. CASE CNoFile
  BY <1>26 DEF CNoFile
<1>27. CASE CWrite
  BY <1>27 DEF CWrite
<1>28. CASE CBatchDone
  BY <1>28 DEF CBatchDone
<1>29. CASE CFree
  BY <1>29 DEF CFree
<1>30. CASE CJoin
  BY <1>30 DEF CJoin
<1>31. CASE CClean
  <2>1. token <= Burst /\ ~(token < 0)
    BY <1>31 DEF CClean
  <2>2. Min(token, Burst) = token
    BY <2>1, MinSmall
  <2>3. token' = 0 /\ lag' = 0
    BY <1>31, <2>1, <2>2 DEF CClean
  <2>4. p = "dead" /\ c' = "idle" /\ p' = p
    BY <1>31 DEF CClean
  <2>5. ~Handling' /\ ~Fetching' /\ ~Writing'
    BY <2>4
  <2>6. Owed' = 0
    BY <2>3, <2>5
  <2>7. QED
    BY <2>3, <2>4, <2>5, <2>6
<1>32. CASE PWait
  BY <1>32 DEF PWait
<1>33. CASE CStart
  BY <1>33 DEF CStart
<1>34. CASE CStartFull
  BY <1>34 DEF CStartFull
<1>35. CASE UserStop
  BY <1>35 DEF UserStop
<1>36. CASE Deliver
  BY <1>36 DEF Deliver
<1>37. CASE Hotplug
  BY <1>37 DEF Hotplug
<1>38. CASE UNCHANGED vars
  BY <1>38 DEF vars
<1>39. QED
  BY <1>1, <1>2, <1>3, <1>4, <1>5, <1>6, <1>7, <1>8, <1>9, <1>10, <1>11, <1>12, <1>13, <1>14,
     <1>15, <1>16, <1>17, <1>18, <1>19, <1>20, <1>21, <1>22, <1>23, <1>24, <1>25, <1>26,
     <1>27, <1>28, <1>29, <1>30, <1>31, <1>32, <1>33, <1>34, <1>35, <1>36, <1>37, <1>38
  DEF Next, Producer, Consumer

\* The cells that are counted.
LEMMA FilledStep ==
  ASSUME Faults \subseteq Benign, QueueInv, [Next]_vars
  PROVE  Filled'
<1>0. /\ Seg \in Nat /\ Burst \in Nat /\ Lag \in Nat
      /\ Lag >= 1 /\ Lag < Burst /\ Burst <= Seg /\ 2 * Seg < 256
      /\ node \in Nat /\ act \in {0, Seg} /\ OtherHalf \in {0, Seg} /\ OtherHalf # act
      /\ lag \in Nat /\ count \in Int
      /\ cells \in [Cell -> Buf \cup {None}] /\ count <= Burst
      /\ Filled /\ Place
      /\ None \notin Buf
      /\ p = "init" => c \in {"top", "spin0", "notify", "spin1", "fetch", "join"}
      /\ c = "swap" => count = lag
      /\ token \in Int /\ token >= 0
  BY Numbers, NoneAssumption DEF QueueInv, SessionInv, NeverOverdrawn, Bucket, TypeOK
<1>a. ASSUME UNCHANGED <<cells, act, lag, base, count>>, Writing' => Writing
      PROVE  Filled'
  BY <1>0, <1>a DEF Filled, Batch
<1> USE DEF Writing, PGoto, CGoto, queueVars, batchVars
<1>1. CASE PInit
  <2>1. lag' = 0 /\ act' = 0 /\ ~Writing'
    BY <1>0, <1>1 DEF PInit
  <2>2. QED
    BY <2>1 DEF Filled
<1>2. CASE PReady
  BY <1>2, <1>a DEF PReady
<1>3. CASE PCheck
  BY <1>3, <1>a DEF PCheck
<1>4. CASE PStore
  <2>1. PICK b \in Buf : cells' = [cells EXCEPT ![node] = b]
    BY <1>4 DEF PStore
  <2>2. lag' = lag + 1 /\ UNCHANGED <<act, base, count, c>> /\ p = "store" /\ node \in Cell
    BY <1>4 DEF PStore
  <2>3. node = act + lag
    BY <1>0, <2>2 DEF Place
  <2>4. \A k \in Cell : cells'[k] # None <=> cells[k] # None \/ k = node
    BY <1>0, <2>1, <2>2
  <2>5. act .. act + lag \subseteq Cell /\ (Writing => Batch \subseteq Cell)
    BY <1>0, <2>2, <2>3, BatchInQueue DEF Cell, QueueInv, SessionInv
  <2>6. \A k \in act .. act + lag : cells'[k] # None
    BY <1>0, <2>3, <2>4, <2>5 DEF Filled
  <2>7. Writing => \A k \in Batch : cells'[k] # None
    BY <1>0, <2>4, <2>5 DEF Filled
  <2>8. act' .. act' + lag' - 1 = act .. act + lag /\ Batch' = Batch /\ (Writing' <=> Writing)
    BY <1>0, <2>2 DEF Batch
  <2>9. QED
    BY <2>6, <2>7, <2>8 DEF Filled
<1>5. CASE PNoMem
  BY <1>5, <1>a DEF PNoMem
<1>6. CASE PLoadNode
  BY <1>6, <1>a DEF PLoadNode
<1>7. CASE PBumpNode
  BY <1>7, <1>a DEF PBumpNode
<1>8. CASE PLoadToken
  BY <1>8, <1>a DEF PLoadToken
<1>9. CASE PCredit
  BY <1>9, <1>a DEF PCredit
<1>10. CASE PStopCheck
  BY <1>10, <1>a DEF PStopCheck
<1>11. CASE PLeave
  BY <1>11, <1>a DEF PLeave
<1>12. CASE PWild
  BY <1>12, <1>a DEF PWild
<1>13. CASE CTop
  BY <1>13, <1>a DEF CTop
<1>14. CASE CSpin0
  BY <1>14, <1>a DEF CSpin0
<1>15. CASE CNotify
  BY <1>15, <1>a DEF CNotify
<1>16. CASE CSpin1
  BY <1>16, <1>a DEF CSpin1
<1>17. CASE CFetch
  <2>1. ~Writing' /\ UNCHANGED <<cells, act, lag>>
    BY <1>17 DEF CFetch
  <2>2. QED
    BY <1>0, <2>1 DEF Filled
<1>18. CASE CLoadToken
  BY <1>18, <1>a DEF CLoadToken
<1>19. CASE CTake
  BY <1>19, <1>a DEF CTake
<1>20. CASE CFetched
  BY <1>20, <1>a DEF CFetched
<1>21. CASE CAbort
  BY <1>21, <1>a DEF CAbort
<1>22. CASE CSwap
  <2>1. cells' = cells /\ act' = OtherHalf /\ lag' = 0 /\ base' = act /\ count' = count /\ count = lag
    BY <1>0, <1>22 DEF CSwap
  <2>2. Batch' = act .. act + lag - 1 /\ act' .. act' + lag' - 1 = {}
    BY <1>0, <2>1 DEF Batch
  <2>3. QED
    BY <1>0, <2>1, <2>2 DEF Filled
<1>23. CASE CFileFull
  BY <1>23, <1>a DEF CFileFull
<1>24. CASE CMode
  BY <1>24, <1>a DEF CMode
<1>25. CASE COpen
  BY <1>25, <1>a DEF COpen
<1>26. CASE CNoFile
  BY <1>26, <1>a DEF CNoFile
<1>27. CASE CWrite
  BY <1>27, <1>a DEF CWrite
<1>28. CASE CBatchDone
  BY <1>28, <1>a DEF CBatchDone
<1>29. CASE CFree
  <2>1. UNCHANGED <<act, lag>> /\ ~Writing' /\ base = OtherHalf
        /\ cells' = [k \in Cell |-> IF k \in Batch THEN None ELSE cells[k]]
    BY <1>0, <1>29 DEF CFree, Destory, Place
  <2>2. act .. act + lag - 1 \subseteq Cell
    BY <1>0, <1>29 DEF Cell, CFree, Place, Ends
  <2>3. (act .. act + lag - 1) \cap Batch = {}
    <3>1. lag <= Seg /\ count <= Seg
      BY <1>0 DEF Place
    <3>2. ASSUME NEW k \in act .. act + lag - 1, k \in Batch
          PROVE  FALSE
      BY <1>0, <2>1, <3>1, <3>2 DEF Batch, OtherHalf
    <3>3. QED
      BY <3>2
  <2>4. QED
    BY <1>0, <2>1, <2>2, <2>3 DEF Filled
<1>30. CASE CJoin
  BY <1>30, <1>a DEF CJoin
<1>31. CASE CClean
  <2>1. ~(Min(token, Burst) < 0)
    BY <1>0 DEF Min
  <2>2. lag' = 0 /\ act' = OtherHalf /\ ~Writing'
    BY <2>1, <1>31 DEF CClean
  <2>3. QED
    BY <1>0, <2>2 DEF Filled
<1>32. CASE PWait
  BY <1>32, <1>a DEF PWait
<1>33. CASE CStart
  BY <1>33, <1>a DEF CStart
<1>34. CASE CStartFull
  BY <1>34, <1>a DEF CStartFull
<1>35. CASE UserStop
  BY <1>35, <1>a DEF UserStop
<1>36. CASE Deliver
  BY <1>36, <1>a DEF Deliver
<1>37. CASE Hotplug
  BY <1>37, <1>a DEF Hotplug
<1>38. CASE UNCHANGED vars
  BY <1>38, <1>a DEF vars
<1>39. QED
  BY <1>1, <1>2, <1>3, <1>4, <1>5, <1>6, <1>7, <1>8, <1>9, <1>10, <1>11, <1>12, <1>13, <1>14,
     <1>15, <1>16, <1>17, <1>18, <1>19, <1>20, <1>21, <1>22, <1>23, <1>24, <1>25, <1>26,
     <1>27, <1>28, <1>29, <1>30, <1>31, <1>32, <1>33, <1>34, <1>35, <1>36, <1>37, <1>38
  DEF Next, Producer, Consumer

-----------------------------------------------------------------------------
(* Theorems under benign faults.                                           *)

\* Nothing is stored or counted before the first session.
LEMMA QueueInit == Init => QueueInv
<1> SUFFICES ASSUME Init PROVE QueueInv
  OBVIOUS
<1>1. /\ p = "none" /\ c = "idle" /\ token = 0 /\ node = 0 /\ act = 0 /\ lag = 0
      /\ r_time_out_flag = 0 /\ cells = [k \in Cell |-> None]
  BY DEF Init
<1>2. MemorySafe
  BY <1>1 DEF MemorySafe
<1>3. Stops /\ Bucket
  BY <1>1 DEF Stops, Bucket, Owed, Ends, Looping, Writing, Fetching, Handling
<1>4. Place
  BY <1>1, SizesAssumption DEF Place, Ends, Writing, Fetching, Handling
<1>5. Filled
  BY <1>1 DEF Filled, Writing
<1>6. QED
  BY <1>2, <1>3, <1>4, <1>5, SessionInit DEF QueueInv

\* The invariant is inductive.
LEMMA QueueStep ==
  ASSUME Faults \subseteq Benign
  PROVE  QueueInv /\ [Next]_vars => QueueInv'
<1> SUFFICES ASSUME QueueInv, [Next]_vars PROVE QueueInv'
  OBVIOUS
<1>1. "nomemrace" \notin Faults
  BY DEF Benign
<1>2. SessionInv' /\ MemorySafe'
  BY <1>1, SessionStep, MemoryStep DEF QueueInv, SessionInv
<1>3. QED
  BY <1>2, StopsStep, PlaceStep, BucketStep, FilledStep DEF QueueInv

\* The two halves are disjoint and the active one has room: the frame about to be
\* stored lands outside the batch, and inside jobsqueue_date.
LEMMA QueueIsolates == QueueInv => Isolation
<1> SUFFICES ASSUME QueueInv PROVE Isolation
  OBVIOUS
<1>1. p # "wild"
  BY DEF QueueInv, Place
<1>2. ASSUME Writing, p = "store" PROVE node \notin Batch
  <2>1. /\ Seg \in Nat /\ Burst \in Nat /\ Lag \in Nat /\ Lag < Burst /\ Burst <= Seg
        /\ act \in {0, Seg} /\ lag \in Nat /\ count \in Int /\ count <= Burst
    BY Numbers DEF QueueInv, SessionInv, TypeOK
  <2>2. base = OtherHalf /\ node = act + lag /\ lag <= Lag
    BY <1>2, <2>1 DEF QueueInv, Place, Writing, Ends
  <2>3. QED
    BY <2>1, <2>2 DEF Batch, OtherHalf
<1>3. QED
  BY <1>1, <1>2 DEF Isolation

\* A silent FPGA, a pulled stick and a full one cannot bring token_hander into the
\* batch that wr_usb writes, nor outside the queue, whatever its size.
THEOREM BatchIsolated ==
  ASSUME Faults \subseteq Benign
  PROVE  Spec => []Isolation
<1>1. Init => QueueInv
  BY QueueInit
<1>2. QueueInv /\ [Next]_vars => QueueInv'
  BY QueueStep
<1>3. QED
  BY <1>1, <1>2, QueueIsolates, PTL DEF Spec

-----------------------------------------------------------------------------
(* Theorems without faults.                                                *)

\* Without faults nobody gives up, and the batch leaves no token behind.
LEMMA NobodyGivesUp ==
  ASSUME Faults = {}, CleanInv, [Next]_vars
  PROVE  /\ r_time_out_flag' = 0 /\ is_active' = 1 /\ c' # "nofile"
         /\ c' \in {"join", "clean"} => token' = Owed'
<1>0. /\ r_time_out_flag = 0 /\ is_active = 1 /\ c # "nofile"
      /\ c \in {"join", "clean"} => token = Owed
      /\ \A fault : fault \notin Faults
      /\ Burst \in Nat /\ Lag \in Nat /\ Lag < Burst
      /\ lag \in Nat /\ preg \in Int /\ token \in Int /\ count \in Int
      /\ p = "credited" => preg = token
      /\ ~Fetching /\ c \notin {"join", "clean"} => token = Owed
      /\ Fetching => ~Handling
      /\ lag <= Lag + 1
      /\ c = "fetched" => count >= 0
      /\ c = "clean" => p = "dead"
      /\ c = "idle" \/ p = "init" => lag = 0
  BY Numbers DEF CleanInv, Exact, QueueInv, SessionInv, NeverOverdrawn, Bucket, Place
<1> USE <1>0 DEF Owed, Fetching, Handling, May, PGoto, CGoto,
                 queueVars, batchVars, fileVars, flagVars, envVars
<1>1. CASE PInit
  BY <1>1 DEF PInit
<1>2. CASE PReady
  BY <1>2 DEF PReady
<1>3. CASE PCheck
  BY <1>3 DEF PCheck
<1>4. CASE PStore
  <2>1. token' = token
    BY <1>4, MinSmall DEF PStore
  <2>2. QED
    BY <1>4, <2>1 DEF PStore
<1>5. CASE PNoMem
  BY <1>5 DEF PNoMem
<1>6. CASE PLoadNode
  BY <1>6 DEF PLoadNode
<1>7. CASE PBumpNode
  BY <1>7 DEF PBumpNode
<1>8. CASE PLoadToken
  BY <1>8 DEF PLoadToken
<1>9. CASE PCredit
  BY <1>9 DEF PCredit
<1>10. CASE PStopCheck
  BY <1>10 DEF PStopCheck
<1>11. CASE PLeave
  BY <1>11 DEF PLeave
<1>12. CASE PWild
  BY <1>12 DEF PWild
<1>13. CASE CTop
  BY <1>13 DEF CTop
<1>14. CASE CSpin0
  BY <1>14 DEF CSpin0
<1>15. CASE CNotify
  BY <1>15 DEF CNotify
<1>16. CASE CSpin1
  BY <1>16 DEF CSpin1
<1>17. CASE CFetch
  BY <1>17 DEF CFetch
<1>18. CASE CLoadToken
  BY <1>18 DEF CLoadToken
<1>19. CASE CTake
  BY <1>19 DEF CTake
<1>20. CASE CFetched
  BY <1>20 DEF CFetched
<1>21. CASE CAbort
  BY <1>21 DEF CAbort
<1>22. CASE CSwap
  BY <1>22 DEF CSwap
<1>23. CASE CFileFull
  BY <1>23 DEF CFileFull
<1>24. CASE CMode
  BY <1>24 DEF CMode
<1>25. CASE COpen
  BY <1>25 DEF COpen
<1>26. CASE CNoFile
  BY <1>26 DEF CNoFile
<1>27. CASE CWrite
  BY <1>27 DEF CWrite
<1>28. CASE CBatchDone
  BY <1>28 DEF CBatchDone
<1>29. CASE CFree
  BY <1>29 DEF CFree
<1>30. CASE CJoin
  BY <1>30 DEF CJoin
<1>31. CASE CClean
  BY <1>31 DEF CClean
<1>32. CASE PWait
  BY <1>32 DEF PWait
<1>33. CASE CStart
  BY <1>33 DEF CStart
<1>34. CASE CStartFull
  BY <1>34 DEF CStartFull
<1>35. CASE UserStop
  BY <1>35 DEF UserStop
<1>36. CASE Deliver
  BY <1>36 DEF Deliver
<1>37. CASE Hotplug
  BY <1>37 DEF Hotplug
<1>38. CASE UNCHANGED vars
  BY <1>38 DEF vars
<1>39. QED
  BY <1>1, <1>2, <1>3, <1>4, <1>5, <1>6, <1>7, <1>8, <1>9, <1>10, <1>11, <1>12, <1>13, <1>14,
     <1>15, <1>16, <1>17, <1>18, <1>19, <1>20, <1>21, <1>22, <1>23, <1>24, <1>25, <1>26,
     <1>27, <1>28, <1>29, <1>30, <1>31, <1>32, <1>33, <1>34, <1>35, <1>36, <1>37, <1>38
  DEF Next, Producer, Consumer

\* Without faults every buffer is in a cell that is counted.
LEMMA NothingStray ==
  ASSUME Faults = {}, CleanInv, [Next]_vars
  PROVE  /\ \A k \in Cell : cells'[k] # None =>
              k \in act' .. act' + lag' - 1 \/ (Writing' /\ k \in Batch')
         /\ live' \subseteq {cells'[k] : k \in Cell}
<1>0. /\ Seg \in Nat /\ Burst \in Nat /\ Lag \in Nat
      /\ Lag >= 1 /\ Lag < Burst /\ Burst <= Seg /\ 2 * Seg < 256
      /\ act \in {0, Seg} /\ OtherHalf \in {0, Seg} /\ OtherHalf # act
      /\ lag \in Nat /\ count \in Int /\ token \in Int
      /\ cells \in [Cell -> Buf \cup {None}] /\ live \subseteq Buf
      /\ None \notin Buf
      /\ p = "init" => c \in {"top", "spin0", "notify", "spin1", "fetch", "join"}
      /\ c = "idle" \/ p = "init" => lag = 0
      /\ c = "swap" => count = lag
      /\ c = "clean" => p = "dead" /\ token = lag /\ lag <= Burst
      /\ c # "nofile" /\ c' # "nofile"
  BY Numbers, NoneAssumption, NobodyGivesUp
  DEF CleanInv, Exact, QueueInv, SessionInv, NeverOverdrawn, Bucket, Place, TypeOK, Owed, Handling
<1>b. /\ \A k \in Cell : cells[k] # None =>
           k \in act .. act + lag - 1 \/ (Writing /\ k \in Batch)
      /\ live \subseteq {cells[k] : k \in Cell}
  BY DEF CleanInv, Exact
<1>a. ASSUME UNCHANGED <<cells, live, act, lag, base, count>>, Writing <=> Writing'
      PROVE  /\ \A k \in Cell : cells'[k] # None =>
                  k \in act' .. act' + lag' - 1 \/ (Writing' /\ k \in Batch')
             /\ live' \subseteq {cells'[k] : k \in Cell}
  BY <1>a, <1>b DEF Batch
<1> USE DEF Writing, PGoto, CGoto, queueVars, batchVars, Fetching, Handling
<1>1. CASE PInit
  <2>1. lag' = 0 /\ UNCHANGED <<cells, live, c>> /\ lag = 0 /\ ~Writing
    BY <1>0, <1>1 DEF PInit
  <2>2. \A k \in Cell : cells[k] = None
    BY <1>0, <1>b, <2>1
  <2>3. QED
    BY <1>b, <2>1, <2>2
<1>2. CASE PReady
  BY <1>2, <1>0, <1>a DEF PReady
<1>3. CASE PCheck
  BY <1>3, <1>0, <1>a DEF PCheck
<1>4. CASE PStore
  <2>1. PICK b \in Buf \ live : cells' = [cells EXCEPT ![node] = b] /\ live' = live \cup {b}
    BY <1>4 DEF PStore
  <2>2. lag' = lag + 1 /\ UNCHANGED <<act, base, count, c>> /\ p = "store" /\ node \in Cell
    BY <1>4 DEF PStore
  <2>3. node = act + lag /\ (Writing => node \notin Batch)
    BY <2>2, QueueIsolates DEF CleanInv, QueueInv, Place, Isolation
  <2>4. \A k \in Cell : cells'[k] = IF k = node THEN b ELSE cells[k]
    BY <1>0, <2>1, <2>2
  <2>5. cells[node] = None
    BY <1>0, <1>b, <2>2, <2>3
  <2>6. live' \subseteq {cells'[k] : k \in Cell}
    <3>1. ASSUME NEW d \in live' PROVE d \in {cells'[k] : k \in Cell}
      <4>1. CASE d = b
        BY <4>1, <2>2, <2>4
      <4>2. CASE d # b
        <5>1. PICK k \in Cell : cells[k] = d
          BY <4>2, <1>b, <2>1
        <5>2. d # None
          BY <4>2, <1>0, <2>1
        <5>3. QED
          BY <5>1, <5>2, <2>4, <2>5
      <4>3. QED
        BY <4>1, <4>2
    <3>2. QED
      BY <3>1
  <2>7. act' .. act' + lag' - 1 = act .. act + lag /\ Batch' = Batch /\ (Writing' <=> Writing)
    BY <1>0, <2>2 DEF Batch
  <2>8. node \in act .. act + lag
    BY <1>0, <2>3
  <2>9. ASSUME NEW k \in Cell, cells'[k] # None, k # node
        PROVE  k \in act .. act + lag \/ (Writing /\ k \in Batch)
    <3>1. k \in act .. act + lag - 1 \/ (Writing /\ k \in Batch)
      BY <1>b, <2>4, <2>9
    <3>2. QED
      BY <1>0, <3>1
  <2>10. QED
    BY <2>6, <2>7, <2>8, <2>9
<1>5. CASE PNoMem
  BY <1>5, <1>0, <1>a DEF PNoMem
<1>6. CASE PLoadNode
  BY <1>6, <1>0, <1>a DEF PLoadNode
<1>7. CASE PBumpNode
  BY <1>7, <1>0, <1>a DEF PBumpNode
<1>8. CASE PLoadToken
  BY <1>8, <1>0, <1>a DEF PLoadToken
<1>9. CASE PCredit
  BY <1>9, <1>0, <1>a DEF PCredit
<1>10. CASE PStopCheck
  BY <1>10, <1>0, <1>a DEF PStopCheck
<1>11. CASE PLeave
  BY <1>11, <1>0, <1>a DEF PLeave
<1>12. CASE PWild
  BY <1>12, <1>0, <1>a DEF PWild
<1>13. CASE CTop
  BY <1>13, <1>0, <1>a DEF CTop
<1>14. CASE CSpin0
  BY <1>14, <1>0, <1>a DEF CSpin0
<1>15. CASE CNotify
  BY <1>15, <1>0, <1>a DEF CNotify
<1>16. CASE CSpin1
  BY <1>16, <1>0, <1>a DEF CSpin1
<1>17. CASE CFetch
  <2>1. ~Writing /\ ~Writing' /\ UNCHANGED <<cells, live, act, lag>>
    BY <1>17 DEF CFetch
  <2>2. QED
    BY <1>b, <2>1
<1>18. CASE CLoadToken
  BY <1>18, <1>0, <1>a DEF CLoadToken
<1>19. CASE CTake
  BY <1>19, <1>0, <1>a DEF CTake
<1>20. CASE CFetched
  BY <1>20, <1>0, <1>a DEF CFetched
<1>21. CASE CAbort
  BY <1>21, <1>0, <1>a DEF CAbort
<1>22. CASE CSwap
  <2>1. UNCHANGED <<cells, live, count>> /\ base' = act /\ count = lag /\ ~Writing /\ Writing'
    BY <1>0, <1>22 DEF CSwap
  <2>2. Batch' = act .. act + lag - 1
    BY <1>0, <2>1 DEF Batch
  <2>3. QED
    BY <1>b, <2>1, <2>2
<1>23. CASE CFileFull
  BY <1>23, <1>0, <1>a DEF CFileFull
<1>24. CASE CMode
  BY <1>24, <1>0, <1>a DEF CMode
<1>25. CASE COpen
  BY <1>25, <1>0, <1>a DEF COpen
<1>26. CASE CNoFile
  BY <1>26, <1>0, <1>a DEF CNoFile
<1>27. CASE CWrite
  BY <1>27, <1>0, <1>a DEF CWrite
<1>28. CASE CBatchDone
  BY <1>28, <1>0, <1>a DEF CBatchDone
<1>29. CASE CFree
  <2>1. UNCHANGED <<act, lag>> /\ live' = live \ {cells[k] : k \in Batch}
        /\ cells' = [k \in Cell |-> IF k \in Batch THEN None ELSE cells[k]]
    BY <1>29 DEF CFree, Destory
  <2>2. \A d \in live' : \E k \in Cell \ Batch : cells[k] = d
    BY <1>b, <2>1
  <2>3. live' \subseteq {cells'[k] : k \in Cell}
    BY <2>1, <2>2
  <2>4. QED
    BY <1>b, <2>1, <2>3
<1>30. CASE CJoin
  BY <1>30, <1>0, <1>a DEF CJoin
<1>31. CASE CClean
  <2>1. Min(token, Burst) = lag /\ ~Writing /\ ~(lag < 0)
    BY <1>0, <1>31, MinSmall DEF CClean
  <2>2. Destory(act .. act + lag - 1)
    BY <2>1, <1>31 DEF CClean
  <2>3. live' = live \ {cells[k] : k \in act .. act + lag - 1}
        /\ cells' = [k \in Cell |-> IF k \in act .. act + lag - 1 THEN None ELSE cells[k]]
    BY <2>2 DEF Destory
  <2>4. \A k \in Cell : cells'[k] = None
    BY <1>b, <2>1, <2>3
  <2>5. live' = {}
    <3>1. ASSUME NEW d \in live' PROVE FALSE
      <4>1. PICK k \in Cell \ (act .. act + lag - 1) : cells[k] = d
        BY <1>b, <2>3
      <4>2. d = None
        BY <1>b, <2>1, <4>1
      <4>3. QED
        BY <1>0, <2>3, <4>2
    <3>2. QED
      BY <3>1
  <2>6. QED
    BY <2>4, <2>5
<1>32. CASE PWait
  BY <1>32, <1>0, <1>a DEF PWait
<1>33. CASE CStart
  BY <1>33, <1>0, <1>a DEF CStart
<1>34. CASE CStartFull
  BY <1>34, <1>0, <1>a DEF CStartFull
<1>35. CASE UserStop
  BY <1>35, <1>0, <1>a DEF UserStop
<1>36. CASE Deliver
  BY <1>36, <1>0, <1>a DEF Deliver
<1>37. CASE Hotplug
  BY <1>37, <1>0, <1>a DEF Hotplug
<1>38. CASE UNCHANGED vars
  BY <1>38, <1>a DEF vars
<1>39. QED
  BY <1>1, <1>2, <1>3, <1>4, <1>5, <1>6, <1>7, <1>8, <1>9, <1>10, <1>11, <1>12, <1>13, <1>14,
     <1>15, <1>16, <1>17, <1>18, <1>19, <1>20, <1>21, <1>22, <1>23, <1>24, <1>25, <1>26,
     <1>27, <1>28, <1>29, <1>30, <1>31, <1>32, <1>33, <1>34, <1>35, <1>36, <1>37, <1>38
  DEF Next, Producer, Consumer

\* The invariant is inductive without faults.
LEMMA CleanStep ==
  ASSUME Faults = {}
  PROVE  CleanInv /\ [Next]_vars => CleanInv'
<1> SUFFICES ASSUME CleanInv, [Next]_vars PROVE CleanInv'
  OBVIOUS
<1>1. QueueInv'
  BY QueueStep DEF CleanInv, Benign
<1>2. Exact'
  BY NobodyGivesUp, NothingStray DEF Exact
<1>3. QED
  BY <1>1, <1>2 DEF CleanInv

\* The recorder starts with empty cells and the stick in place.
LEMMA CleanInit == Init => CleanInv
<1> SUFFICES ASSUME Init PROVE Exact
  BY QueueInit DEF CleanInv
<1>1. QED
  BY DEF Init, Exact

\* In every reachable state of an undisturbed recorder the bucket outside its two
\* critical sections counts exactly the frames waiting in the active half.
THEOREM TokensConserved ==
  ASSUME Faults = {}
  PROVE  Spec => []Conservation
<1>1. CleanInv => Conservation
  <2> SUFFICES ASSUME CleanInv, ~Handling, ~Fetching PROVE token = node - act
    BY DEF Conservation
  <2>1. token = lag
    BY DEF CleanInv, QueueInv, Exact, Bucket, Owed
  <2>2. node = act + lag
    BY DEF CleanInv, QueueInv, Place, Handling
  <2>3. act \in Int /\ lag \in Int
    BY Numbers DEF CleanInv, QueueInv, SessionInv
  <2>4. QED
    BY <2>1, <2>2, <2>3
<1>2. CleanInv /\ [Next]_vars => CleanInv'
  BY CleanStep
<1>3. QED
  BY <1>1, <1>2, CleanInit, PTL DEF Spec

\* However an undisturbed session ends, and however many sessions there were, every
\* half-buffer allocated has been freed by then.
THEOREM NothingLeaks ==
  ASSUME Faults = {}
  PROVE  Spec => []LeakFree
<1>1. CleanInv => LeakFree
  <2> SUFFICES ASSUME CleanInv, c = "idle" PROVE live = {}
    BY DEF LeakFree
  <2>1. lag = 0 /\ ~Writing /\ act \in Int
    BY Numbers DEF CleanInv, QueueInv, SessionInv, Place, Writing
  <2>2. \A k \in Cell : cells[k] = None
    BY <2>1 DEF CleanInv, Exact
  <2>3. live \subseteq {None} /\ live \subseteq Buf
    BY <2>2 DEF CleanInv, QueueInv, SessionInv, Exact, TypeOK
  <2>4. QED
    BY <2>3, NoneAssumption
<1>2. CleanInv /\ [Next]_vars => CleanInv'
  BY CleanStep
<1>3. QED
  BY <1>1, <1>2, CleanInit, PTL DEF Spec

-----------------------------------------------------------------------------
(* Lemmas about sequences and slices of the queue.                         *)

\* The cells of f from lo up to hi, hi excluded.
Slice(f, lo, hi) == [k \in 1 .. hi - lo |-> f[lo + k - 1]]

\* A slice is a sequence.
LEMMA SliceProperties ==
  ASSUME NEW S, NEW f, NEW lo \in Nat, NEW hi \in Nat, lo <= hi,
         \A k \in lo .. hi - 1 : f[k] \in S
  PROVE  /\ Slice(f, lo, hi) \in Seq(S)
         /\ Len(Slice(f, lo, hi)) = hi - lo
         /\ \A k \in 1 .. hi - lo : Slice(f, lo, hi)[k] = f[lo + k - 1]
<1>1. Slice(f, lo, hi) \in Seq(S)
  BY DEF Slice
<1>2. Len(Slice(f, lo, hi)) = hi - lo
  BY DEF Slice
<1>3. \A k \in 1 .. hi - lo : Slice(f, lo, hi)[k] = f[lo + k - 1]
  BY DEF Slice
<1>4. QED
  BY <1>1, <1>2, <1>3

\* The length of a slice and what is in it.
LEMMA SliceCells ==
  ASSUME NEW f, NEW lo \in Nat, NEW hi \in Nat, lo <= hi
  PROVE  /\ Slice(f, lo, hi) \in Seq({f[k] : k \in lo .. hi - 1})
         /\ Len(Slice(f, lo, hi)) = hi - lo
         /\ \A k \in 1 .. hi - lo : Slice(f, lo, hi)[k] = f[lo + k - 1]
<1>1. Slice(f, lo, hi) \in Seq({f[k] : k \in lo .. hi - 1})
  BY DEF Slice
<1>2. Len(Slice(f, lo, hi)) = hi - lo
  BY DEF Slice
<1>3. \A k \in 1 .. hi - lo : Slice(f, lo, hi)[k] = f[lo + k - 1]
  BY DEF Slice
<1>4. QED
  BY <1>1, <1>2, <1>3

\* An empty slice.
LEMMA SliceEmpty ==
  ASSUME NEW f, NEW lo \in Nat
  PROVE  Slice(f, lo, lo) = <<>>
BY DEF Slice

\* A slice grows by the cell behind it.
LEMMA SliceGrows ==
  ASSUME NEW f, NEW lo \in Nat, NEW hi \in Nat, lo <= hi
  PROVE  Slice(f, lo, hi + 1) = Append(Slice(f, lo, hi), f[hi])
BY DEF Slice

\* A slice loses its first cell.
LEMMA SliceShrinks ==
  ASSUME NEW f, NEW lo \in Nat, NEW hi \in Nat, lo < hi
  PROVE  /\ Slice(f, lo, hi) # <<>>
         /\ Head(Slice(f, lo, hi)) = f[lo]
         /\ Tail(Slice(f, lo, hi)) = Slice(f, lo + 1, hi)
<1> DEFINE S == {f[k] : k \in lo .. hi - 1}
           s == Slice(f, lo, hi)
           t == Slice(f, lo + 1, hi)
<1>1. Len(s) = hi - lo
  BY DEF Slice
<1>2. Len(t) = hi - lo - 1
  BY DEF Slice
<1>3. \A k \in 1 .. hi - lo - 1 : t[k] = s[k + 1]
  BY DEF Slice
<1>4. s # <<>> /\ Head(s) = f[lo]
  BY DEF Slice
<1>5. s \in Seq(S) /\ t \in Seq(S)
  BY DEF Slice
<1> HIDE DEF S, s, t
<1>6. /\ Tail(s) \in Seq(S) /\ Len(Tail(s)) = Len(s) - 1
      /\ \A k \in 1 .. Len(Tail(s)) : Tail(s)[k] = s[k + 1]
  BY <1>4, <1>5, HeadTailProperties
<1>7. Len(Tail(s)) = Len(t) /\ \A k \in 1 .. Len(Tail(s)) : Tail(s)[k] = t[k]
  BY <1>1, <1>2, <1>3, <1>6
<1>8. Tail(s) = t
  BY <1>5, <1>6, <1>7, SeqEqual
<1>9. QED
  BY <1>4, <1>8 DEF s, t

\* Slices of functions that agree on it are the same.
LEMMA SliceSame ==
  ASSUME NEW f, NEW g, NEW lo \in Nat, NEW hi \in Nat,
         \A k \in lo .. hi - 1 : f[k] = g[k]
  PROVE  Slice(f, lo, hi) = Slice(g, lo, hi)
BY DEF Slice

\* Taking the head of a concatenation takes the head of its first part.
LEMMA TailOfConcat ==
  ASSUME NEW S, NEW s \in Seq(S), NEW t \in Seq(S), s # <<>>
  PROVE  s \o t # <<>> /\ Head(s \o t) = Head(s) /\ Tail(s \o t) = Tail(s) \o t
<1>1. /\ s \o t \in Seq(S) /\ Len(s \o t) = Len(s) + Len(t)
      /\ \A k \in 1 .. Len(s) + Len(t) : (s \o t)[k] = IF k <= Len(s) THEN s[k] ELSE t[k - Len(s)]
  BY ConcatProperties
<1>2. Len(s) \in Nat \ {0} /\ Len(t) \in Nat
  BY EmptySeq, LenProperties
<1>3. s \o t # <<>>
  BY <1>1, <1>2, EmptySeq
<1>4. Head(s \o t) = Head(s)
  BY <1>1, <1>2
<1>5. /\ Tail(s) \in Seq(S) /\ Len(Tail(s)) = Len(s) - 1
      /\ \A k \in 1 .. Len(Tail(s)) : Tail(s)[k] = s[k + 1]
  BY HeadTailProperties
<1>6. /\ Tail(s \o t) \in Seq(S) /\ Len(Tail(s \o t)) = Len(s \o t) - 1
      /\ \A k \in 1 .. Len(Tail(s \o t)) : Tail(s \o t)[k] = (s \o t)[k + 1]
  BY <1>1, <1>3, HeadTailProperties
<1>7. /\ Tail(s) \o t \in Seq(S) /\ Len(Tail(s) \o t) = Len(Tail(s)) + Len(t)
      /\ \A k \in 1 .. Len(Tail(s)) + Len(t) :
           (Tail(s) \o t)[k] = IF k <= Len(Tail(s)) THEN Tail(s)[k] ELSE t[k - Len(Tail(s))]
  BY <1>5, ConcatProperties
<1>8. Len(Tail(s \o t)) = Len(Tail(s) \o t)
  BY <1>1, <1>2, <1>5, <1>6, <1>7
<1>9. ASSUME NEW k \in 1 .. Len(Tail(s \o t)) PROVE Tail(s \o t)[k] = (Tail(s) \o t)[k]
  <2>1. CASE k <= Len(s) - 1
    BY <1>1, <1>2, <1>5, <1>6, <1>7, <2>1
  <2>2. CASE k > Len(s) - 1
    <3>1. Tail(s \o t)[k] = t[k + 1 - Len(s)]
      BY <1>1, <1>2, <1>6, <2>2
    <3>2. (Tail(s) \o t)[k] = t[k - (Len(s) - 1)]
      BY <1>1, <1>2, <1>5, <1>6, <1>7, <2>2
    <3>3. k + 1 - Len(s) = k - (Len(s) - 1)
      BY <1>2
    <3>4. QED
      BY <3>1, <3>2, <3>3
  <2>3. QED
    BY <1>2, <2>1, <2>2
<1>10. Tail(s \o t) = Tail(s) \o t
  BY <1>6, <1>7, <1>8, <1>9, SeqEqual
<1>11. QED
  BY <1>3, <1>4, <1>10

\* Dropping the first part of a concatenation leaves the second.
LEMMA DropOfConcat ==
  ASSUME NEW S, NEW s \in Seq(S), NEW t \in Seq(S)
  PROVE  SubSeq(s \o t, Len(s) + 1, Len(s \o t)) = t
<1> DEFINE u == s \o t
           m == Len(s) + 1
           n == Len(u)
<1>1. /\ u \in Seq(S) /\ Len(u) = Len(s) + Len(t)
      /\ \A k \in 1 .. Len(s) + Len(t) : u[k] = IF k <= Len(s) THEN s[k] ELSE t[k - Len(s)]
  BY ConcatProperties
<1>2. Len(s) \in Nat /\ Len(t) \in Nat
  BY LenProperties
<1>3. m \in Int /\ n \in Int /\ \A k \in m .. n : u[k] \in S
  BY <1>1, <1>2, ElementOfSeq
<1> HIDE DEF u
<1>4. /\ SubSeq(u, m, n) \in Seq(S)
      /\ Len(SubSeq(u, m, n)) = IF m <= n THEN n - m + 1 ELSE 0
      /\ \A k \in 1 .. n - m + 1 : SubSeq(u, m, n)[k] = u[m + k - 1]
  BY <1>3, SubSeqProperties
<1>5. Len(SubSeq(u, m, n)) = Len(t)
  BY <1>1, <1>2, <1>4
<1>6. ASSUME NEW k \in 1 .. Len(t) PROVE SubSeq(u, m, n)[k] = t[k]
  <2>1. SubSeq(u, m, n)[k] = u[Len(s) + k]
    BY <1>1, <1>2, <1>4
  <2>2. u[Len(s) + k] = t[(Len(s) + k) - Len(s)]
    BY <1>1, <1>2
  <2>3. (Len(s) + k) - Len(s) = k
    BY <1>2
  <2>4. QED
    BY <2>1, <2>2, <2>3
<1>7. SubSeq(u, m, n) = t
  BY <1>4, <1>5, <1>6, SeqEqual
<1>8. QED
  BY <1>7 DEF u

\* Appending to a concatenation appends to its second part.
LEMMA AppendOfConcat ==
  ASSUME NEW S, NEW s \in Seq(S), NEW t \in Seq(S), NEW e \in S
  PROVE  s \o Append(t, e) = Append(s \o t, e)
<1>1. Append(t, e) = t \o <<e>> /\ s \o t \in Seq(S)
  BY AppendIsConcat, ConcatProperties
<1>2. Append(s \o t, e) = (s \o t) \o <<e>> /\ <<e>> \in Seq(S)
  BY <1>1, AppendIsConcat
<1>3. QED
  BY <1>1, <1>2, ConcatAssociative

-----------------------------------------------------------------------------
(* The recorder implements the frame queue.                                *)

\* What a cell of jobsqueue_date holds.
Pointer == Buf \cup {None}

\* The queue of the refinement mapping: what is left of the batch, then the active half.
Batched == c \in {"write", "mode", "open", "nofile"}
Lo == base + i
Hi == base + count
Rest == IF Batched THEN Slice(cells, Lo, Hi) ELSE <<>>
Active == Slice(cells, act, node)
Queue == Rest \o Active

\* A step that leaves the mapped state alone is a stutter.
LEMMA MapsToStutter ==
  ASSUME Queue' = Queue, written' = written
  PROVE  [FIFO!Next]_FIFO!vars
BY DEF FIFO!vars, Queue, Rest, Batched, Active, Slice, Frames, Lo, Hi

\* Counting one more frame captures it.
LEMMA MapsToCapture ==
  ASSUME NEW f \in Buf, f \notin {Queue[k] : k \in DOMAIN Queue},
         Queue' = Append(Queue, f), written' = written
  PROVE  [FIFO!Next]_FIFO!vars
BY DEF FIFO!Next, FIFO!Capture, Queue, Rest, Batched, Active, Slice, Frames, Lo, Hi

\* Writing the first frame of the rest records it.
LEMMA MapsToRecord ==
  ASSUME Queue # <<>>, written' = Head(Queue), Queue' = Tail(Queue)
  PROVE  [FIFO!Next]_FIFO!vars
BY DEF FIFO!Next, FIFO!Record, Queue, Rest, Batched, Active, Slice, Frames, Lo, Hi

\* Giving up the first frames drops them.
LEMMA MapsToDrop ==
  ASSUME NEW n \in 1 .. Len(Queue),
         Queue' = SubSeq(Queue, n + 1, Len(Queue)), written' = written
  PROVE  [FIFO!Next]_FIFO!vars
BY DEF FIFO!Next, FIFO!Drop, Queue, Rest, Batched, Active, Slice, Frames, Lo, Hi

\* Where the mapped queue lies in jobsqueue_date.
LEMMA QueueShape ==
  ASSUME QueueInv
  PROVE  /\ act \in Nat /\ node \in Nat /\ act <= node /\ node <= 2 * Seg
         /\ \A k \in act .. node - 1 : k \in Cell /\ cells[k] \in Pointer
         /\ Active \in Seq(Pointer)
         /\ Rest \in Seq(Pointer)
         /\ Batched =>
              /\ Lo \in Nat /\ Hi \in Nat /\ Lo <= Hi
              /\ \A k \in Lo .. Hi - 1 : k \in Batch /\ k \in Cell /\ cells[k] \in Pointer
              /\ Rest = Slice(cells, Lo, Hi)
<1>1. /\ act \in Nat /\ node \in Nat /\ act <= node /\ node <= 2 * Seg
  BY Numbers DEF QueueInv, SessionInv, Place
<1>2. Seg \in Nat /\ \A k \in Cell : cells[k] \in Pointer
  BY SizesAssumption DEF QueueInv, SessionInv, TypeOK, Pointer
<1>3. \A k \in act .. node - 1 : k \in Cell /\ cells[k] \in Pointer
  BY <1>1, <1>2 DEF Cell
<1>4. Active \in Seq(Pointer)
  BY <1>1, <1>3, SliceProperties DEF Active
<1>5. ASSUME Batched
      PROVE  /\ Lo \in Nat /\ Hi \in Nat /\ Lo <= Hi
             /\ \A k \in Lo .. Hi - 1 : k \in Batch /\ k \in Cell /\ cells[k] \in Pointer
             /\ Rest = Slice(cells, Lo, Hi)
             /\ Rest \in Seq(Pointer)
  <2>1. i \in Nat /\ count \in Int /\ base \in {0, Seg} /\ i <= count
    BY <1>5, Numbers DEF QueueInv, SessionInv, TypeOK, Bucket, Batched, Writing
  <2>2. Lo \in Nat /\ Hi \in Nat /\ Lo <= Hi
    BY <1>2, <2>1 DEF Lo, Hi
  <2>3. \A k \in Lo .. Hi - 1 : k \in Batch
    BY <1>2, <2>1 DEF Batch, Lo, Hi
  <2>4. \A k \in Lo .. Hi - 1 : k \in Cell /\ cells[k] \in Pointer
    BY <1>2, <2>3, BatchInQueue DEF QueueInv, SessionInv
  <2>5. Rest = Slice(cells, Lo, Hi)
    BY <1>5 DEF Rest
  <2>6. Rest \in Seq(Pointer)
    <3>1. \A k \in Lo .. Hi - 1 : cells[k] \in Pointer
      BY <2>4
    <3>2. Slice(cells, Lo, Hi) \in Seq(Pointer)
      BY <2>2, <3>1, SliceProperties
    <3>3. QED
      BY <2>5, <3>2
  <2>7. QED
    BY <2>2, <2>3, <2>4, <2>5, <2>6
<1>6. Rest \in Seq(Pointer)
  <2>1. CASE Batched
    BY <2>1, <1>5
  <2>2. CASE ~Batched
    BY <2>2, EmptySeq DEF Rest
  <2>3. QED
    BY <2>1, <2>2
<1>7. QED
  BY <1>1, <1>3, <1>4, <1>5, <1>6

\* Nothing but the cells, the ends of the active half and the rest of the batch matters.
LEMMA QueueSame ==
  ASSUME UNCHANGED <<cells, act, node, written>>, Batched' <=> Batched,
         Batched => UNCHANGED <<base, i, count>>
  PROVE  [FIFO!Next]_FIFO!vars
<1>1. Queue' = Queue
  BY DEF Queue, Rest, Active, Lo, Hi
<1>2. QED
  BY <1>1, MapsToStutter

\* A batch given up is dropped; one that is finished leaves the queue as it is.
LEMMA BatchDropped ==
  ASSUME QueueInv, Batched, ~Batched', UNCHANGED <<cells, act, node, written>>
  PROVE  [FIFO!Next]_FIFO!vars
<1> DEFINE n == Len(Rest)
<1>1. Rest \in Seq(Pointer) /\ Active \in Seq(Pointer)
  BY QueueShape
<1>2. Queue' = Active
  <2>1. Rest' = <<>> /\ Active' = Active
    BY DEF Rest, Active
  <2>2. QED
    BY <1>1, <2>1, ConcatEmptySeq DEF Queue
<1>3. Queue' = SubSeq(Queue, n + 1, Len(Queue))
  BY <1>1, <1>2, DropOfConcat DEF Queue
<1>4. n \in Nat /\ Len(Queue) \in Nat /\ n <= Len(Queue)
  BY <1>1, ConcatProperties, LenProperties DEF Queue
<1>5. CASE n = 0
  <2>1. Rest = <<>>
    BY <1>1, <1>5, EmptySeq
  <2>2. Queue = Active
    BY <1>1, <2>1, ConcatEmptySeq DEF Queue
  <2>3. QED
    BY <1>2, <2>2, MapsToStutter
<1>6. CASE n # 0
  <2>1. n \in 1 .. Len(Queue)
    BY <1>4, <1>6
  <2>2. QED
    BY <2>1, <1>3, MapsToDrop
<1>7. QED
  BY <1>5, <1>6

\* The numbers that the mapping reads.
LEMMA QueueNumbers ==
  ASSUME QueueInv
  PROVE  /\ Seg \in Nat /\ Burst \in Nat /\ Burst <= Seg /\ Lag \in Nat /\ Lag < Burst
         /\ act \in {0, Seg} /\ OtherHalf \in {0, Seg} /\ OtherHalf # act /\ OtherHalf \in Nat
         /\ lag \in Nat /\ lag <= Lag + 1 /\ count \in Int /\ count <= Burst /\ token \in Int /\ token >= 0
         /\ act \in Nat /\ node \in Nat
         /\ p \in {"bump", "bumped"} => node = act + lag - 1 /\ lag >= 1
         /\ p \notin {"bump", "bumped"} => node = act + lag
  BY Numbers, QueueShape DEF QueueInv, SessionInv, NeverOverdrawn, TypeOK, Place

\* Cells that do not change make no difference to a slice.
LEMMA ActiveSame ==
  ASSUME QueueInv, UNCHANGED <<act, node>>, \A k \in act .. node - 1 : cells[k] = cells'[k]
  PROVE  Active' = Active
<1>1. act \in Nat /\ node \in Nat
  BY QueueShape
<1>2. Slice(cells, act, node) = Slice(cells', act, node)
  BY ONLY <1>1, SliceSame, \A k \in act .. node - 1 : cells[k] = cells'[k]
<1>3. QED
  BY <1>2 DEF Active

\* The active half is empty where it starts.
LEMMA ActiveEmpty == ASSUME act \in Nat, node = act PROVE Active = <<>>
BY SliceEmpty DEF Active

\* tokens_init finds both halves empty.
LEMMA InitMaps ==
  ASSUME QueueInv, PInit
  PROVE  [FIFO!Next]_FIFO!vars
<1>1. /\ p = "init" /\ act' = 0 /\ node' = 0 /\ UNCHANGED <<c, written>>
      /\ c \in {"top", "spin0", "notify", "spin1", "fetch", "join"} /\ lag = 0
  BY DEF PInit, PGoto, batchVars, QueueInv, SessionInv, NeverOverdrawn, Place
<1>2. act \in Nat /\ node = act
  BY <1>1, QueueNumbers
<1>3. Active = <<>>
  BY <1>2, ActiveEmpty
<1>4. Slice(cells', 0, 0) = <<>>
  BY SliceEmpty
<1>5. Active' = <<>>
  BY <1>1, <1>4 DEF Active
<1>6. Rest = <<>> /\ Rest' = <<>>
  BY <1>1 DEF Rest, Batched
<1>7. QED
  BY <1>1, <1>3, <1>5, <1>6, MapsToStutter DEF Queue

\* A frame that is stored is not counted yet.
LEMMA StoreMaps ==
  ASSUME QueueInv, PStore
  PROVE  [FIFO!Next]_FIFO!vars
<1>1. PICK b \in Buf : cells' = [cells EXCEPT ![node] = b]
  BY DEF PStore
<1>2. UNCHANGED <<act, node, base, i, count, c, written>> /\ p = "store" /\ node \in Cell
  BY DEF PStore, PGoto, batchVars
<1>3. \A k \in Cell \ {node} : cells[k] = cells'[k]
  BY <1>1, <1>2 DEF QueueInv, SessionInv, TypeOK
<1>4. \A k \in act .. node - 1 : cells[k] = cells'[k]
  <2>1. ASSUME NEW k \in act .. node - 1 PROVE k \in Cell \ {node}
    BY QueueShape
  <2>2. QED
    BY <1>3, <2>1
<1>5. Active' = Active
  BY <1>2, <1>4, ActiveSame
<1>6. Rest' = Rest
  <2>1. CASE Batched
    <3>1. Writing /\ node \notin Batch
      BY <2>1, <1>2, QueueIsolates DEF Isolation, Writing, Batched
    <3>2. Lo \in Nat /\ Hi \in Nat /\ \A k \in Lo .. Hi - 1 : k \in Batch /\ k \in Cell
      BY <2>1, QueueShape
    <3>3. \A k \in Lo .. Hi - 1 : cells[k] = cells'[k]
      BY <1>3, <3>1, <3>2
    <3>4. Slice(cells, Lo, Hi) = Slice(cells', Lo, Hi)
      BY ONLY <3>2, <3>3, SliceSame
    <3>5. QED
      BY <1>2, <2>1, <3>4 DEF Rest, Batched, Lo, Hi
  <2>2. CASE ~Batched
    BY <1>2, <2>2 DEF Rest, Batched
  <2>3. QED
    BY <2>1, <2>2
<1>7. QED
  BY <1>2, <1>5, <1>6, MapsToStutter DEF Queue

\* Every frame of the mapped queue is in a cell of its own, other than the next one.
LEMMA QueueInCells ==
  ASSUME QueueInv, p = "bumped", node \in Cell, NEW k \in DOMAIN Queue
  PROVE  \E l \in Cell \ {node} : Queue[k] = cells[l]
<1>1. Rest \in Seq(Pointer) /\ Active \in Seq(Pointer)
  BY QueueShape
<1>2. /\ Len(Rest) \in Nat /\ Len(Active) \in Nat
      /\ k \in 1 .. Len(Rest) + Len(Active)
      /\ Queue[k] = IF k <= Len(Rest) THEN Rest[k] ELSE Active[k - Len(Rest)]
  BY <1>1, ConcatProperties, LenProperties DEF Queue
<1>3. CASE k <= Len(Rest)
  <2>1. Batched
    BY <1>2, <1>3, EmptySeq DEF Rest
  <2>2. /\ Lo \in Nat /\ Hi \in Nat /\ Lo <= Hi /\ Rest = Slice(cells, Lo, Hi)
        /\ \A j \in Lo .. Hi - 1 : j \in Batch /\ j \in Cell
    BY <2>1, QueueShape
  <2>3. \A j \in Lo .. Hi - 1 : cells[j] \in Pointer
    BY <2>1, QueueShape
  <2>4. Len(Rest) = Hi - Lo /\ \A j \in 1 .. Hi - Lo : Rest[j] = cells[Lo + j - 1]
    <3>1. Lo \in Nat /\ Hi \in Nat /\ Lo <= Hi
      BY <2>2
    <3>2. /\ Len(Slice(cells, Lo, Hi)) = Hi - Lo
          /\ \A j \in 1 .. Hi - Lo : Slice(cells, Lo, Hi)[j] = cells[Lo + j - 1]
      BY <3>1, SliceCells
    <3>3. QED
      BY <2>2, <3>2
  <2>5. Queue[k] = cells[Lo + k - 1]
    BY <1>2, <1>3, <2>4
  <2>6. Lo + k - 1 \in Batch /\ Lo + k - 1 \in Cell
    BY <1>2, <1>3, <2>2, <2>4
  <2>7. base = OtherHalf
    BY <2>1 DEF QueueInv, Place, Writing, Batched
  <2>8. node \notin Batch
    BY <2>7, QueueNumbers DEF Batch, OtherHalf
  <2>9. QED
    BY <2>5, <2>6, <2>8
<1>4. CASE k > Len(Rest)
  <2>1. act \in Nat /\ node \in Nat /\ act <= node /\ \A j \in act .. node - 1 : j \in Cell
    BY QueueShape
  <2>2. \A j \in act .. node - 1 : cells[j] \in Pointer
    BY QueueShape
  <2>3. Len(Active) = node - act /\ \A j \in 1 .. node - act : Active[j] = cells[act + j - 1]
    <3>1. act \in Nat /\ node \in Nat /\ act <= node
      BY <2>1
    <3>2. /\ Len(Slice(cells, act, node)) = node - act
          /\ \A j \in 1 .. node - act : Slice(cells, act, node)[j] = cells[act + j - 1]
      BY <3>1, SliceCells
    <3>3. QED
      BY <3>2 DEF Active
  <2>4. k - Len(Rest) \in 1 .. node - act
    BY <1>2, <1>4, <2>3
  <2>5. Queue[k] = cells[act + (k - Len(Rest)) - 1]
    BY <1>2, <1>4, <2>3, <2>4
  <2>6. act + (k - Len(Rest)) - 1 \in act .. node - 1
    BY <1>2, <2>1, <2>4
  <2>7. act + (k - Len(Rest)) - 1 # node
    BY <2>1, <2>6
  <2>8. QED
    BY <2>1, <2>5, <2>6, <2>7
<1>5. QED
  BY <1>2, <1>3, <1>4

\* The frame that is counted is captured.
LEMMA CountMaps ==
  ASSUME Faults \subseteq Benign, QueueInv, [Next]_vars, PBumpNode
  PROVE  [FIFO!Next]_FIFO!vars
<1> DEFINE f == cells[node]
<1>1. /\ UNCHANGED <<cells, act, lag, base, i, count, c, written>>
      /\ p = "bumped" /\ p' = "credit"
  BY DEF PBumpNode, PGoto, batchVars
<1>2. QueueInv'
  BY QueueStep
<1>3. node' = act + lag /\ node' <= 2 * Seg
  <2>1. node' = act' + lag'
    BY <1>1, <1>2 DEF QueueInv, Place
  <2>2. act' + lag' <= 2 * Seg
    BY <1>1, QueueNumbers
  <2>3. QED
    BY <1>1, <2>1, <2>2
<1>4. node' = node + 1 /\ node \in act .. act + lag - 1
  BY <1>1, <1>3, QueueNumbers
<1>5. node \in Cell
  BY <1>3, <1>4, QueueNumbers DEF Cell
<1>6. f \in Buf
  BY <1>4, <1>5 DEF QueueInv, Filled, SessionInv, TypeOK
<1>7. Active' = Append(Active, f)
  <2>1. act \in Nat /\ node \in Nat /\ act <= node
    BY QueueShape
  <2>2. Slice(cells, act, node + 1) = Append(Slice(cells, act, node), cells[node])
    BY <2>1, SliceGrows
  <2>3. QED
    BY <1>1, <1>4, <2>2 DEF Active
<1>8. Rest' = Rest
  BY <1>1 DEF Rest, Batched, Lo, Hi
<1>9. \A k \in DOMAIN Queue : Queue[k] # f
  <2>1. \A l \in Cell \ {node} : cells[l] # f
    BY <1>5, <1>6, NoneAssumption DEF QueueInv, MemorySafe
  <2>2. QED
    BY <1>1, <1>5, <2>1, QueueInCells
<1> HIDE DEF f
<1>10. Queue' = Append(Queue, f)
  <2>1. Rest \in Seq(Pointer) /\ Active \in Seq(Pointer) /\ f \in Pointer
    BY <1>6, QueueShape DEF Pointer
  <2>2. Rest \o Append(Active, f) = Append(Rest \o Active, f)
    BY <2>1, AppendOfConcat
  <2>3. QED
    BY <1>7, <1>8, <2>2 DEF Queue
<1>11. f \notin {Queue[k] : k \in DOMAIN Queue}
  BY <1>9
<1>12. QED
  BY <1>1, <1>6, <1>10, <1>11, MapsToCapture

\* node_seach turns the active half into the batch.
LEMMA SwapMaps ==
  ASSUME QueueInv, CSwap
  PROVE  [FIFO!Next]_FIFO!vars
<1>1. /\ c = "swap" /\ c' = "write" /\ base' = act /\ act' = OtherHalf /\ node' = OtherHalf
      /\ i' = 0 /\ UNCHANGED <<cells, count, written>>
  BY DEF CSwap, CGoto
<1>2. count = lag /\ p \notin {"bump", "bumped"}
  BY <1>1 DEF QueueInv, Bucket, Place, Fetching, Handling
<1>3. Lo' = act /\ Hi' = node /\ OtherHalf \in Nat
  BY <1>1, <1>2, QueueNumbers DEF Lo, Hi
<1>4. Rest = <<>> /\ Rest' = Active
  BY <1>1, <1>3 DEF Rest, Batched, Active
<1>5. Slice(cells', OtherHalf, OtherHalf) = <<>>
  BY <1>3, SliceEmpty
<1>6. Active' = <<>>
  BY <1>1, <1>5 DEF Active
<1>7. Active \in Seq(Pointer)
  BY QueueShape
<1>8. Queue = Active /\ Queue' = Active
  BY <1>4, <1>6, <1>7, ConcatEmptySeq DEF Queue
<1>9. QED
  BY <1>1, <1>8, MapsToStutter

\* write() is handed the first frame of the rest.
LEMMA WriteMaps ==
  ASSUME QueueInv, CWrite
  PROVE  [FIFO!Next]_FIFO!vars
<1>1. UNCHANGED <<cells, act, node, base, count, c>> /\ c = "write" /\ i < count /\ i' = i + 1
  BY DEF CWrite, queueVars
<1>2. cells[base + i] # None
  BY <1>1, FrameToWrite
<1>3. written' = cells[Lo]
  BY <1>2 DEF CWrite, Lo
<1>4. /\ Lo \in Nat /\ Hi \in Nat /\ Rest = Slice(cells, Lo, Hi)
  BY <1>1, QueueShape DEF Batched
<1>5. Lo < Hi /\ Lo' = Lo + 1 /\ Hi' = Hi
  <2>1. base \in {0, Seg} /\ Seg \in Nat /\ i \in Nat /\ count \in Int
    BY Numbers DEF QueueInv, SessionInv, TypeOK
  <2>2. QED
    BY <1>1, <2>1 DEF Lo, Hi
<1>6. Rest # <<>> /\ Head(Rest) = cells[Lo] /\ Tail(Rest) = Slice(cells, Lo + 1, Hi)
  <2>1. Lo \in Nat /\ Hi \in Nat /\ Lo < Hi
    BY <1>4, <1>5
  <2>2. /\ Slice(cells, Lo, Hi) # <<>>
        /\ Head(Slice(cells, Lo, Hi)) = cells[Lo]
        /\ Tail(Slice(cells, Lo, Hi)) = Slice(cells, Lo + 1, Hi)
    BY <2>1, SliceShrinks
  <2>3. QED
    BY <1>4, <2>2
<1>7. Rest' = Slice(cells, Lo + 1, Hi)
  BY <1>1, <1>5 DEF Rest, Batched
<1>8. Active' = Active
  BY <1>1 DEF Active
<1>9. Rest \in Seq(Pointer) /\ Active \in Seq(Pointer)
  BY QueueShape
<1>10. Queue # <<>> /\ Head(Queue) = cells[Lo] /\ Tail(Queue) = Queue'
  <2>1. Rest \o Active # <<>> /\ Head(Rest \o Active) = Head(Rest)
        /\ Tail(Rest \o Active) = Tail(Rest) \o Active
    BY ONLY <1>6, <1>9, TailOfConcat
  <2>2. Tail(Rest) = Rest'
    BY <1>6, <1>7
  <2>3. QED
    BY <1>6, <1>8, <2>1, <2>2 DEF Queue
<1>11. QED
  BY <1>3, <1>10, MapsToRecord

\* destory_date clears cells behind the mapped queue only.
LEMMA FreeMaps ==
  ASSUME QueueInv, CFree
  PROVE  [FIFO!Next]_FIFO!vars
<1>1. /\ UNCHANGED <<act, node, written>> /\ c = "free" /\ ~Batched /\ ~Batched'
      /\ cells' = [k \in Cell |-> IF k \in Batch THEN None ELSE cells[k]]
  BY DEF CFree, Destory, Batched, batchVars
<1>2. base = OtherHalf /\ lag <= Lag
  <2>1. lag # Lag + 1 /\ base = OtherHalf
    BY <1>1 DEF QueueInv, Place, Writing, Ends
  <2>2. QED
    BY <2>1, QueueNumbers
<1>3. \A k \in act .. node - 1 : k \notin Batch
  BY <1>2, QueueNumbers DEF Batch, OtherHalf
<1>4. \A k \in act .. node - 1 : k \in Cell
  BY QueueShape
<1>5. \A k \in act .. node - 1 : cells[k] = cells'[k]
  BY <1>1, <1>3, <1>4
<1>6. Active' = Active /\ Rest' = Rest
  BY <1>1, <1>5, ActiveSame DEF Rest
<1>7. QED
  BY <1>1, <1>6, MapsToStutter DEF Queue

\* clean_date gives up the active half.
LEMMA CleanMaps ==
  ASSUME QueueInv, CClean
  PROVE  [FIFO!Next]_FIFO!vars
<1>1. ~(Min(token, Burst) < 0) /\ OtherHalf \in Nat
  BY QueueNumbers DEF Min
<1>2. act' = OtherHalf /\ node' = OtherHalf
  BY <1>1 DEF CClean
<1>3. Rest = <<>> /\ Rest' = <<>> /\ written' = written
  BY DEF CClean, CGoto, Rest, Batched, batchVars
<1>4. Slice(cells', OtherHalf, OtherHalf) = <<>>
  BY <1>1, SliceEmpty
<1>5. Active' = <<>>
  BY <1>2, <1>4 DEF Active
<1>6. Active \in Seq(Pointer) /\ <<>> \in Seq(Pointer)
  BY QueueShape, EmptySeq
<1>7. Queue = Active /\ Queue' = <<>>
  BY <1>3, <1>5, <1>6, ConcatEmptySeq DEF Queue
<1>8. CASE Queue = <<>>
  BY <1>3, <1>7, <1>8, MapsToStutter
<1>9. CASE Queue # <<>>
  <2>1. Len(Queue) \in Nat \ {0}
    BY <1>6, <1>7, <1>9, EmptySeq
  <2>2. SubSeq(Queue, Len(Queue) + 1, Len(Queue)) = <<>> /\ Len(Queue) \in 1 .. Len(Queue)
    BY <2>1, SubSeqEmpty
  <2>3. QED
    BY <1>3, <1>7, <2>2, MapsToDrop
<1>10. QED
  BY <1>8, <1>9

\* Each step of the recorder is a step of the frame queue or none.
LEMMA OrderStep ==
  ASSUME Faults \subseteq Benign, QueueInv, [Next]_vars
  PROVE  [FIFO!Next]_FIFO!vars
<1> USE DEF Batched, PGoto, CGoto, queueVars, batchVars
<1>1. CASE PInit
  BY <1>1, InitMaps
<1>2. CASE PReady
  BY <1>2, QueueSame DEF PReady
<1>3. CASE PCheck
  BY <1>3, QueueSame DEF PCheck
<1>4. CASE PStore
  BY <1>4, StoreMaps
<1>5. CASE PNoMem
  BY <1>5, QueueSame DEF PNoMem
<1>6. CASE PLoadNode
  BY <1>6, QueueSame DEF PLoadNode
<1>7. CASE PBumpNode
  BY <1>7, CountMaps
<1>8. CASE PLoadToken
  BY <1>8, QueueSame DEF PLoadToken
<1>9. CASE PCredit
  BY <1>9, QueueSame DEF PCredit
<1>10. CASE PStopCheck
  BY <1>10, QueueSame DEF PStopCheck
<1>11. CASE PLeave
  BY <1>11, QueueSame DEF PLeave
<1>12. CASE PWild
  BY <1>12, QueueSame DEF PWild
<1>13. CASE CTop
  BY <1>13, QueueSame DEF CTop
<1>14. CASE CSpin0
  BY <1>14, QueueSame DEF CSpin0
<1>15. CASE CNotify
  BY <1>15, QueueSame DEF CNotify
<1>16. CASE CSpin1
  BY <1>16, QueueSame DEF CSpin1
<1>17. CASE CFetch
  BY <1>17, QueueSame DEF CFetch
<1>18. CASE CLoadToken
  BY <1>18, QueueSame DEF CLoadToken
<1>19. CASE CTake
  BY <1>19, QueueSame DEF CTake
<1>20. CASE CFetched
  BY <1>20, QueueSame DEF CFetched
<1>21. CASE CAbort
  BY <1>21, QueueSame DEF CAbort
<1>22. CASE CSwap
  BY <1>22, SwapMaps
<1>23. CASE CFileFull
  <2>1. UNCHANGED <<cells, act, node, base, i, count, written>> /\ c = "write"
    BY <1>23 DEF CFileFull
  <2>2. CASE c' = "mode"
    BY <2>1, <2>2, QueueSame
  <2>3. CASE c' = "free"
    BY <2>1, <2>3, BatchDropped
  <2>4. QED
    BY <1>23, <2>2, <2>3 DEF CFileFull
<1>24. CASE CMode
  BY <1>24, QueueSame DEF CMode
<1>25. CASE COpen
  BY <1>25, QueueSame DEF COpen
<1>26. CASE CNoFile
  BY <1>26, BatchDropped DEF CNoFile
<1>27. CASE CWrite
  BY <1>27, WriteMaps
<1>28. CASE CBatchDone
  BY <1>28, BatchDropped DEF CBatchDone
<1>29. CASE CFree
  BY <1>29, FreeMaps
<1>30. CASE CJoin
  BY <1>30, QueueSame DEF CJoin
<1>31. CASE CClean
  BY <1>31, CleanMaps
<1>32. CASE PWait
  BY <1>32, QueueSame DEF PWait
<1>33. CASE CStart
  BY <1>33, QueueSame DEF CStart
<1>34. CASE CStartFull
  BY <1>34, QueueSame DEF CStartFull
<1>35. CASE UserStop
  BY <1>35, QueueSame DEF UserStop
<1>36. CASE Deliver
  BY <1>36, QueueSame DEF Deliver
<1>37. CASE Hotplug
  BY <1>37, QueueSame DEF Hotplug
<1>38. CASE UNCHANGED vars
  BY <1>38, QueueSame DEF vars
<1>39. QED
  BY <1>1, <1>2, <1>3, <1>4, <1>5, <1>6, <1>7, <1>8, <1>9, <1>10, <1>11, <1>12, <1>13, <1>14,
     <1>15, <1>16, <1>17, <1>18, <1>19, <1>20, <1>21, <1>22, <1>23, <1>24, <1>25, <1>26,
     <1>27, <1>28, <1>29, <1>30, <1>31, <1>32, <1>33, <1>34, <1>35, <1>36, <1>37, <1>38
  DEF Next, Producer, Consumer

\* In every reachable state and step the recorder's halves implement the frame queue:
\* frames reach write() in the order the FPGA delivered them, none twice, whatever the
\* sizes and however often the FPGA falls silent or the stick is pulled or full.
THEOREM FramesInOrder ==
  ASSUME Faults \subseteq Benign
  PROVE  Spec => InOrder
<1>1. Init => FIFO!Init
  <2> SUFFICES ASSUME Init PROVE FIFO!Init
    OBVIOUS
  <2>1. Rest = <<>> /\ written = None /\ act = 0 /\ node = 0
    BY DEF Init, Rest, Batched
  <2>2. Active = <<>>
    BY <2>1, ActiveEmpty
  <2>3. Queue = <<>>
    BY <2>1, <2>2, EmptySeq, ConcatEmptySeq DEF Queue
  <2>4. QED
    BY <2>1, <2>3 DEF FIFO!Init, Queue, Rest, Batched, Active, Slice, Frames, Lo, Hi
<1>2. QueueInv /\ [Next]_vars => QueueInv'
  BY QueueStep
<1>3. QueueInv /\ [Next]_vars => [FIFO!Next]_FIFO!vars
  BY OrderStep
<1>4. QED
  BY <1>1, <1>2, <1>3, QueueInit, PTL DEF Spec, InOrder, FIFO!Spec
=============================================================================

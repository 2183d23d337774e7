------------------------- MODULE RecordNamingProofs -------------------------
(***************************************************************************)
(* What holds of the numbers of the recordings for every number of names,  *)
(* every base they are written in and every number of sessions.            *)
(***************************************************************************)
EXTENDS RecordNaming, TLAPS

-----------------------------------------------------------------------------
(* The numbers.                                                            *)

\* The bounds, as facts about integers.
LEMMA Bounds ==
  /\ Limit \in Nat /\ Limit > 1 /\ Base \in Nat /\ Base > 1 /\ Base <= Limit
  /\ MaxOrder \in Nat /\ MaxOrder > 0 /\ MaxOrder < Base * Limit
BY BoundsAssumption

\* Dividing a number that is small enough by the base leaves a number of three digits,
\* and not 0 when it had more.
LEMMA Division ==
  ASSUME NEW n \in Nat, n >= Limit, n < Base * Limit
  PROVE  n \div Base \in 1 .. Limit - 1
<1> DEFINE q == n \div Base
           r == n % Base
<1>1. q \in Int /\ r \in 0 .. Base - 1 /\ n = Base * q + r
  BY Bounds
<1>2. q < Limit
  <2>1. SUFFICES ASSUME q >= Limit PROVE FALSE
    BY <1>1, Bounds
  <2>2. Base * q >= Base * Limit
    BY <1>1, <2>1, Bounds
  <2>3. QED
    BY <1>1, <2>2, Bounds
<1>3. q > 0
  <2>1. SUFFICES ASSUME q <= 0 PROVE FALSE
    BY <1>1, Bounds
  <2>2. Base * q <= 0
    BY <1>1, <2>1, Bounds
  <2>3. QED
    BY <1>1, <2>2, Bounds
<1>4. QED
  BY <1>1, <1>2, <1>3, Bounds

\* What mod_manage and record_ts_count make of a number that is not out of bounds.
LEMMA Numbers ==
  ASSUME NEW n \in Nat, n >= Limit => n <= MaxOrder
  PROVE  /\ Stored(n) \in 0 .. Limit - 1
         /\ n >= 1 => Stored(n) >= 1 /\ Order(n) \in 1 .. Limit - 1
         /\ n < Limit => Stored(n) = n /\ Order(n) = n
<1>1. CASE n >= Limit
  <2>1. n < Base * Limit
    BY <1>1, Bounds
  <2>2. n \div Base \in 1 .. Limit - 1
    BY <1>1, <2>1, Division
  <2>3. Stored(n) = n \div Base /\ Order(n) = 1
    BY <1>1 DEF Stored, Order
  <2>4. QED
    BY <1>1, <2>2, <2>3, Bounds
<1>2. CASE n < Limit
  <2>1. Stored(n) = n /\ Order(n) = n
    BY <1>2, Bounds DEF Stored, Order
  <2>2. QED
    BY <1>2, <2>1, Bounds
<1>3. QED
  BY <1>1, <1>2, Bounds


-----------------------------------------------------------------------------
(* The inductive invariants.                                               *)

\* Between two recordings, before the next open and after it.
Chosen == pc \in {"open", "save"}
Going == pc # "idle"

\* The numbers in use fit: those that are past the last name are bounded, and none is 0
\* by the time a file is named after it.
NumbersInv ==
  /\ TypeOK /\ count \in 0 .. Limit - 1
  /\ next >= Limit => next <= MaxOrder
  /\ pc \in {"open", "save", "record"} => next >= 1
  /\ pc = "record" => count >= 1
  /\ pc = "choose" /\ full => count >= 1
  /\ off = 1 => first >= 1

\* As long as no number was used twice the recordings on the stick are those counted,
\* and the number persisted is the one of the last file.
FreshInv ==
  again = "no" =>
    /\ data \subseteq 1 .. count
    /\ pc \in {"choose", "record"} => next = count
    /\ Chosen => next = count + 1 /\ next < Limit

\* As long as at most this loop recording reused numbers, its files come after the number
\* it came in with, and everything up to that number is another's.
LoopInv ==
  again \in {"no", "loop"} /\ Going =>
    /\ data \ own \subseteq 1 .. incom_count
    /\ next < Limit
    /\ pc \in {"choose", "record"} => next = count
    /\ next >= incom_count
    /\ pc # "choose" \/ full => next > incom_count
    /\ off = 1 => first > incom_count

NamingInv == NumbersInv /\ FreshInv /\ LoopInv


\* The set starts with numbers that fit and only the recordings counted on the stick.
LEMMA NamingInit == Init => NamingInv
<1> SUFFICES ASSUME Init PROVE NamingInv
  OBVIOUS
<1>1. count \in 0 .. Limit - 1 /\ data = 1 .. count /\ own = {}
  <2>1. AnyOld \in BOOLEAN
    BY ModesAssumption
  <2>2. QED
    BY <2>1, Bounds DEF Init
<1>2. TypeOK
  <2>1. data \subseteq 1 .. Limit - 1
    BY <1>1, Bounds
  <2>2. Sessions \in Nat
    BY BoundsAssumption
  <2>3. /\ incom_count \in 0 .. Limit - 1 /\ next \in 0 .. MaxOrder + Limit
        /\ first \in 0 .. Limit - 1 /\ off \in {0, 1} /\ sessions \in 0 .. Sessions
    BY <2>2, Bounds DEF Init
  <2>4. QED
    BY <1>1, <2>1, <2>3 DEF Init, TypeOK, Reuse
<1>3. NumbersInv
  BY <1>1, <1>2, Bounds DEF Init, NumbersInv
<1>4. FreshInv /\ LoopInv
  BY <1>1 DEF Init, FreshInv, LoopInv, Going, Chosen
<1>5. QED
  BY <1>3, <1>4 DEF NamingInv

\* Every step keeps the numbers in their bounds.
LEMMA NumbersStep == NumbersInv /\ [Next]_vars => NumbersInv'
<1> SUFFICES ASSUME NumbersInv, [Next]_vars PROVE NumbersInv'
  OBVIOUS
<1>0. Sessions \in Nat
  BY BoundsAssumption
<1> USE <1>0, Bounds DEF NumbersInv, TypeOK, Reuse, session, loop, disk, bound
<1>1. CASE Start
  BY <1>1 DEF Start
<1>2. CASE ChooseNext
  BY <1>2 DEF ChooseNext
<1>3. CASE ChooseEnd
  BY <1>3 DEF ChooseEnd
<1>4. CASE ChooseWrap
  <2>1. first' \in 1 .. Limit - 1
    BY <1>4 DEF ChooseWrap
  <2>2. incom_count \in Nat /\ (incom_count >= Limit => incom_count <= MaxOrder)
    OBVIOUS
  <2>3. count' \in 0 .. Limit - 1
    BY <1>4, <2>2, Numbers DEF ChooseWrap
  <2>4. next' \in 1 .. Limit - 1
    BY <1>4, <2>1 DEF ChooseWrap
  <2>5. QED
    BY <1>4, <2>1, <2>3, <2>4 DEF ChooseWrap
<1>5. CASE Open
  <2>1. next \in Nat /\ (next >= Limit => next <= MaxOrder) /\ next >= 1
    BY <1>5 DEF Open
  <2>2. data' \subseteq data
    BY <1>5 DEF Open
  <2>3. QED
    BY <1>5, <2>1, <2>2 DEF Open
<1>6. CASE Save
  <2>1. next \in Nat /\ (next >= Limit => next <= MaxOrder) /\ next >= 1
    BY <1>6 DEF Save
  <2>2. count' \in 0 .. Limit - 1 /\ count' >= 1
    BY <1>6, <2>1, Numbers DEF Save
  <2>3. QED
    BY <1>6, <2>1, <2>2 DEF Save
<1>7. CASE Record
  <2>1. next \in Nat /\ (next >= Limit => next <= MaxOrder) /\ next >= 1
    BY <1>7 DEF Record
  <2>2. Order(next) \in 1 .. Limit - 1
    BY <2>1, Numbers
  <2>3. data' \subseteq 1 .. Limit - 1 /\ own' \subseteq 1 .. Limit - 1
    BY <1>7, <2>2 DEF Record
  <2>4. QED
    BY <1>7, <2>1, <2>3 DEF Record
<1>8. CASE Rotate
  BY <1>8 DEF Rotate
<1>9. CASE End
  BY <1>9 DEF End
<1>10. CASE PowerFail
  <2>1. own' = {} /\ UNCHANGED <<mod, incom_count, count, data, full, again, sessions>>
    BY <1>10 DEF PowerFail
  <2>2. pc' = "idle" /\ first' = 0 /\ off' = 0 /\ next' = 0 /\ opened' = FALSE
    BY <1>10 DEF PowerFail
  <2>3. own' \subseteq data' \cup 1 .. Limit - 1
    BY <2>1
  <2>4. first' \in 0 .. Limit - 1 /\ next' \in 0 .. MaxOrder + Limit
    BY <2>2
  <2>5. TypeOK'
    BY <2>1, <2>2, <2>3, <2>4
  <2>6. (count \in 0 .. Limit - 1)' /\ ~(next' >= Limit)
    BY <2>1, <2>2
  <2>7. QED
    BY <2>2, <2>5, <2>6
<1>11. CASE Space
  BY <1>11 DEF Space
<1>12. CASE UNCHANGED vars
  BY <1>12 DEF vars
<1>13. QED
  BY <1>1, <1>2, <1>3, <1>4, <1>5, <1>6, <1>7, <1>8, <1>9, <1>10, <1>11, <1>12
  DEF Next

\* Every step but one that reuses a number keeps the recordings among those counted.
LEMMA FreshStep == NumbersInv /\ FreshInv /\ [Next]_vars => FreshInv'
<1> SUFFICES ASSUME NumbersInv, FreshInv, [Next]_vars, again' = "no" PROVE FreshInv'
  BY DEF FreshInv
<1>0. /\ next \in Nat /\ count \in Nat
      /\ next < Limit => Stored(next) = next /\ Order(next) = next
  BY Numbers, Bounds DEF NumbersInv, TypeOK
<1> USE <1>0, Bounds DEF FreshInv, Chosen, session, loop, disk, bound
<1>1. CASE Start
  BY <1>1 DEF Start
<1>2. CASE ChooseNext
  BY <1>2 DEF ChooseNext
<1>3. CASE ChooseEnd
  BY <1>3 DEF ChooseEnd
<1>4. CASE ChooseWrap
  BY <1>4 DEF ChooseWrap
<1>5. CASE Open
  BY <1>5 DEF Open
<1>6. CASE Save
  BY <1>6 DEF Save
<1>7. CASE Record
  <2>1. next >= 1 /\ again = "no" /\ next < Limit /\ next = count
    BY <1>7 DEF Record, NumbersInv
  <2>2. data' = data \cup {next} /\ data \subseteq 1 .. count /\ next \in 1 .. count
    BY <1>7, <2>1 DEF Record
  <2>3. QED
    BY <1>7, <2>1, <2>2 DEF Record
<1>8. CASE Rotate
  BY <1>8 DEF Rotate
<1>9. CASE End
  BY <1>9 DEF End
<1>10. CASE PowerFail
  BY <1>10 DEF PowerFail
<1>11. CASE Space
  BY <1>11 DEF Space
<1>12. CASE UNCHANGED vars
  BY <1>12 DEF vars
<1>13. QED
  BY <1>1, <1>2, <1>3, <1>4, <1>5, <1>6, <1>7, <1>8, <1>9, <1>10, <1>11, <1>12
  DEF Next

\* Every step keeps a loop recording beyond the number it came in with.
LEMMA LoopStep == NamingInv /\ [Next]_vars => LoopInv'
<1> SUFFICES ASSUME NamingInv, [Next]_vars, again' \in {"no", "loop"}, Going' PROVE LoopInv'
  BY DEF LoopInv
<1>0. /\ next \in Nat /\ count \in 0 .. Limit - 1 /\ incom_count \in 0 .. Limit - 1 /\ first \in Nat
      /\ off \in {0, 1}
      /\ next < Limit => Stored(next) = next /\ Order(next) = next
  BY Numbers, Bounds DEF NumbersInv, NamingInv, TypeOK
<1> USE <1>0, Bounds DEF NamingInv, FreshInv, LoopInv, Going, Chosen, session, loop, disk, bound
<1>1. CASE Start
  BY <1>1 DEF Start
<1>2. CASE ChooseNext
  BY <1>2 DEF ChooseNext
<1>3. CASE ChooseEnd
  BY <1>3 DEF ChooseEnd
<1>4. CASE ChooseWrap
  <2>1. again \in {"no", "loop"} /\ pc = "choose" /\ full /\ pc' = "open" /\ off' = 1
    BY <1>4 DEF ChooseWrap
  <2>2. UNCHANGED <<incom_count, data, own>>
    BY <1>4 DEF ChooseWrap
  <2>3. data \ own \subseteq 1 .. incom_count /\ next = count /\ next > incom_count
    BY <2>1
  <2>4. first' > incom_count /\ first' \in 0 .. Limit - 1
    BY <1>4, <2>1, <2>3 DEF ChooseWrap, NumbersInv, TypeOK
  <2>5. next' \in Int /\ next' > incom_count /\ next' < Limit
    BY <1>4, <2>3, <2>4 DEF ChooseWrap
  <2>6. QED
    BY <2>1, <2>2, <2>3, <2>4, <2>5
<1>5. CASE Open
  BY <1>5 DEF Open
<1>6. CASE Save
  BY <1>6 DEF Save
<1>7. CASE Record
  BY <1>7 DEF Record
<1>8. CASE Rotate
  BY <1>8 DEF Rotate
<1>9. CASE End
  BY <1>9 DEF End
<1>10. CASE PowerFail
  BY <1>10 DEF PowerFail
<1>11. CASE Space
  BY <1>11 DEF Space
<1>12. CASE UNCHANGED vars
  BY <1>12 DEF vars
<1>13. QED
  BY <1>1, <1>2, <1>3, <1>4, <1>5, <1>6, <1>7, <1>8, <1>9, <1>10, <1>11, <1>12
  DEF Next

\* The three together are inductive.
LEMMA NamingStep == NamingInv /\ [Next]_vars => NamingInv'
BY NumbersStep, FreshStep, LoopStep DEF NamingInv

-----------------------------------------------------------------------------
(* The results.                                                            *)

\* The number a file is named after has three digits.
LEMMA NumbersFit == NumbersInv => NamesFit
<1> SUFFICES ASSUME NumbersInv PROVE NamesFit
  OBVIOUS
<1>1. count \in 0 .. Limit - 1
  BY DEF NumbersInv
<1>2. ASSUME pc \in {"save", "record"} PROVE Order(next) \in 1 .. Limit - 1
  <2>1. next \in Nat /\ (next >= Limit => next <= MaxOrder) /\ next >= 1
    BY <1>2, Bounds DEF NumbersInv, TypeOK
  <2>2. QED
    BY <2>1, Numbers
<1>3. QED
  BY <1>1, <1>2 DEF NamesFit

\* Every number, file and flag stays in its range.
THEOREM NamingTypeCorrect == Spec => []TypeOK
<1>1. NamingInv => TypeOK
  BY DEF NamingInv, NumbersInv
<1>2. QED
  BY <1>1, NamingInit, NamingStep, PTL DEF Spec

\* However many recordings there are, the persisted number and the one in a file's name have
\* three digits, whatever open fails and whenever the power goes.
THEOREM NamesAlwaysFit == Spec => []NamesFit
<1>1. NamingInv => NamesFit
  BY NumbersFit DEF NamingInv
<1>2. QED
  BY <1>1, NamingInit, NamingStep, PTL DEF Spec

\* Opening the next file truncates no recording, as long as the numbers last: the number
\* is that of none, whatever fell between the open and the save before it.
LEMMA StepClobbersNothing == NamingInv /\ [Next]_vars => (again' = "no" => data \subseteq data')
<1> SUFFICES ASSUME NamingInv, [Next]_vars, again' = "no" PROVE data \subseteq data'
  OBVIOUS
<1>0. /\ next \in Nat /\ count \in Nat
      /\ next < Limit => Order(next) = next
  BY Numbers, Bounds DEF NamingInv, NumbersInv, TypeOK
<1> USE <1>0, Bounds DEF NamingInv, FreshInv, Chosen, session, loop, disk, bound
<1>1. CASE Start
  BY <1>1 DEF Start
<1>2. CASE ChooseNext
  BY <1>2 DEF ChooseNext
<1>3. CASE ChooseEnd
  BY <1>3 DEF ChooseEnd
<1>4. CASE ChooseWrap
  BY <1>4 DEF ChooseWrap
<1>5. CASE Open
  BY <1>5 DEF Open
<1>6. CASE Save
  BY <1>6 DEF Save
<1>7. CASE Record
  BY <1>7 DEF Record
<1>8. CASE Rotate
  BY <1>8 DEF Rotate
<1>9. CASE End
  BY <1>9 DEF End
<1>10. CASE PowerFail
  BY <1>10 DEF PowerFail
<1>11. CASE Space
  BY <1>11 DEF Space
<1>12. CASE UNCHANGED vars
  BY <1>12 DEF vars
<1>13. QED
  BY <1>1, <1>2, <1>3, <1>4, <1>5, <1>6, <1>7, <1>8, <1>9, <1>10, <1>11, <1>12
  DEF Next

\* As long as the numbers last no recording is ever truncated, whatever the number of
\* names, of sessions and of power failures.
THEOREM NothingClobbered == Spec => NoClobber
<1>1. NamingInv /\ [Next]_vars => [again' = "no" => data \subseteq data']_vars
  BY StepClobbersNothing
<1>2. QED
  BY <1>1, NamingInit, NamingStep, PTL DEF Spec, NoClobber

\* A loop recording that starts over truncates files of its own session only.
LEMMA StepKeepsOthers == NamingInv /\ [Next]_vars => (again' = "loop" => data \ own \subseteq data')
<1> SUFFICES ASSUME NamingInv, [Next]_vars, again' = "loop" PROVE data \ own \subseteq data'
  OBVIOUS
<1>0. /\ next \in Nat /\ incom_count \in Nat
      /\ next < Limit => Order(next) = next
  BY Numbers, Bounds DEF NamingInv, NumbersInv, TypeOK
<1> USE <1>0, Bounds DEF NamingInv, LoopInv, Going, session, loop, disk, bound
<1>1. CASE Start
  BY <1>1 DEF Start
<1>2. CASE ChooseNext
  BY <1>2 DEF ChooseNext
<1>3. CASE ChooseEnd
  BY <1>3 DEF ChooseEnd
<1>4. CASE ChooseWrap
  BY <1>4 DEF ChooseWrap
<1>5. CASE Open
  BY <1>5 DEF Open
<1>6. CASE Save
  BY <1>6 DEF Save
<1>7. CASE Record
  BY <1>7 DEF Record
<1>8. CASE Rotate
  BY <1>8 DEF Rotate
<1>9. CASE End
  BY <1>9 DEF End
<1>10. CASE PowerFail
  BY <1>10 DEF PowerFail
<1>11. CASE Space
  BY <1>11 DEF Space
<1>12. CASE UNCHANGED vars
  BY <1>12 DEF vars
<1>13. QED
  BY <1>1, <1>2, <1>3, <1>4, <1>5, <1>6, <1>7, <1>8, <1>9, <1>10, <1>11, <1>12
  DEF Next

\* However often a loop recording wraps on a full stick, the recordings that were there
\* before its session stay.
THEOREM OthersKept == Spec => LoopKeepsOthers
<1>1. NamingInv /\ [Next]_vars => [again' = "loop" => data \ own \subseteq data']_vars
  BY StepKeepsOthers
<1>2. QED
  BY <1>1, NamingInit, NamingStep, PTL DEF Spec, LoopKeepsOthers
=============================================================================

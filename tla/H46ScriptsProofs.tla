-------------------------- MODULE H46ScriptsProofs --------------------------
(***************************************************************************)
(* What holds of the encoder chip whatever it is sent: how one command     *)
(* more changes it, what the sections of the scripts have in common, and   *)
(* how little a lost command can do.                                       *)
(***************************************************************************)
EXTENDS H46Scripts, FiniteSetTheorems, WellFoundedInduction, SequenceTheorems, TLAPS

-----------------------------------------------------------------------------
(* Numbers and sets of numbers.                                            *)

\* A set with 0 and every successor of its elements holds all numbers: otherwise the
\* intervals that end at a missing number have no least one.
LEMMA AllNumbers ==
  ASSUME NEW S, 0 \in S, \A n \in Nat : n \in S => n + 1 \in S
  PROVE  Nat \subseteq S
<1> DEFINE Missing == {1 .. n : n \in Nat \ S}
<1> SUFFICES ASSUME NEW k \in Nat \ S PROVE FALSE
  OBVIOUS
<1>1. IsWellFoundedOn(StrictSubsetOrdering(Nat), FiniteSubsetsOf(Nat))
  BY FS_StrictSubsetOrderingWellFounded
<1>2. Missing \subseteq FiniteSubsetsOf(Nat) /\ Missing # {}
  <2>1. \A n \in Nat : IsFiniteSet(1 .. n)
    BY FS_Interval
  <2>2. QED
    BY <2>1 DEF FiniteSubsetsOf
<1>3. PICK x \in Missing : \A y \in Missing : <<y, x>> \notin StrictSubsetOrdering(Nat)
  <2> HIDE DEF Missing
  <2>1. QED
    BY <1>1, <1>2, WFMin
<1>4. PICK n \in Nat \ S : x = 1 .. n
  OBVIOUS
<1>5. n # 0 /\ n - 1 \in Nat \ S
  OBVIOUS
<1>6. 1 .. (n - 1) \in Missing
  BY <1>5
<1>7. <<1 .. (n - 1), 1 .. n>> \in StrictSubsetOrdering(Nat)
  BY <1>5 DEF StrictSubsetOrdering
<1>8. QED
  BY <1>3, <1>4, <1>6, <1>7

\* The latest of a set of places is the one that none is after.
LEMMA LatestIs ==
  ASSUME NEW S \in SUBSET Int, NEW m \in S, \A j \in S : j <= m
  PROVE  Latest(S) = m
<1>1. \A i \in S : (\A j \in S : j <= i) => i = m
  OBVIOUS
<1>2. QED
  BY <1>1 DEF Latest

\* Some places of a sequence have a latest one.
LEMMA LatestOf ==
  ASSUME NEW n \in Nat, NEW S \in SUBSET (1 .. n), S # {}
  PROVE  Latest(S) \in S /\ \A j \in S : j <= Latest(S)
<1> DEFINE Has(k) == \A T \in SUBSET (1 .. k) : T # {} => \E m \in T : \A j \in T : j <= m
           N == {k \in Nat : Has(k)}
<1>1. 0 \in N
  <2>1. \A T \in SUBSET (1 .. 0) : T = {}
    <3>1. \A j : j \notin 1 .. 0
      OBVIOUS
    <3>2. QED
      BY <3>1
  <2>2. QED
    BY <2>1
<1>2. ASSUME NEW k \in Nat, k \in N PROVE k + 1 \in N
  <2> SUFFICES ASSUME NEW T \in SUBSET (1 .. k + 1), T # {} PROVE \E m \in T : \A j \in T : j <= m
    OBVIOUS
  <2>1. CASE k + 1 \in T
    BY <2>1
  <2>2. CASE k + 1 \notin T
    <3>1. T \in SUBSET (1 .. k)
      BY <2>2
    <3>2. QED
      BY <1>2, <3>1
  <2>3. QED
    BY <2>1, <2>2
<1>3. Nat \subseteq N
  <2> HIDE DEF N
  <2>1. QED
    BY <1>1, <1>2, AllNumbers
<1>4. PICK m \in S : \A j \in S : j <= m
  BY <1>3
<1>5. QED
  BY <1>4, LatestIs

-----------------------------------------------------------------------------
(* One command more.                                                       *)

\* The last reset, the address in force at a command, and the values that had one.
Resets(s) == {i \in DOMAIN s : s[i].op = "RST"}
ResetAt(s) == IF Resets(s) = {} THEN 0 ELSE Latest(Resets(s))
Before(s, i) == {j \in DOMAIN s : s[j].op = "WA" /\ j > ResetAt(s) /\ j < i}
AddressAt(s, i) == IF Before(s, i) = {} THEN 0 ELSE s[Latest(Before(s, i))].arg
Data(s) == {i \in DOMAIN s : s[i].op = "WD" /\ i > ResetAt(s) /\ AddressAt(s, i) # 0}
Writing(s, a) == {i \in Data(s) : AddressAt(s, i) = a}

\* The registers and the address of a chip that started blank.
LEMMA RunIs ==
  ASSUME NEW s
  PROVE  /\ Run(Blank, s).reg = [a \in {AddressAt(s, i) : i \in Data(s)} |->
                                   s[Latest(Writing(s, a))].arg]
         /\ Run(Blank, s).at = AddressAt(s, Len(s) + 1)
<1> DEFINE Issued(ops) == {i \in DOMAIN s : s[i].op \in ops}
           reset == IF Issued({"RST"}) = {} THEN 0 ELSE Latest(Issued({"RST"}))
           from == IF reset = 0 THEN Blank ELSE Blank
           Later(ops) == {i \in Issued(ops) : i > reset}
           addressing == Later({"WA"})
           AtOf(i) == LET before == {j \in addressing : j < i} IN
                    IF before = {} THEN from.at ELSE s[Latest(before)].arg
           target == [i \in Later({"WD"}) |-> AtOf(i)]
           data == {i \in DOMAIN target : target[i] # 0}
           Writes(a) == {i \in data : target[i] = a}
<1>1. /\ Run(Blank, s).reg = [a \in DOMAIN from.reg \cup {target[i] : i \in data} |->
                               IF Writes(a) = {} THEN from.reg[a] ELSE s[Latest(Writes(a))].arg]
      /\ Run(Blank, s).at = AtOf(Len(s) + 1)
  BY DEF Run
<1>2. from.reg = << >> /\ from.at = 0 /\ DOMAIN << >> = {}
  BY DEF Blank
<1>3. Issued({"RST"}) = Resets(s)
  BY DEF Resets
<1>4. reset = ResetAt(s)
  BY <1>3 DEF ResetAt
<1>5. \A i : {j \in addressing : j < i} = Before(s, i)
  BY <1>4 DEF Before
<1>6. \A i : AtOf(i) = AddressAt(s, i)
  BY <1>2, <1>5 DEF AddressAt
<1>7. DOMAIN target = {i \in DOMAIN s : s[i].op = "WD" /\ i > ResetAt(s)}
  BY <1>4
<1>8. \A i \in DOMAIN target : target[i] = AddressAt(s, i)
  BY <1>6
<1> HIDE DEF target, AtOf, from
<1>9. data = Data(s)
  BY <1>7, <1>8 DEF Data
<1>10. \A a : Writes(a) = Writing(s, a)
  BY <1>8, <1>9 DEF Writing
<1>11. {target[i] : i \in data} = {AddressAt(s, i) : i \in Data(s)}
  BY <1>8, <1>9
<1>12. \A a \in {AddressAt(s, i) : i \in Data(s)} : Writing(s, a) # {}
  BY DEF Writing
<1> HIDE DEF data, Writes
<1>13. QED
  BY <1>1, <1>2, <1>6, <1>10, <1>11, <1>12

\* What one more command makes of the places of those before it.
LEMMA OneMore ==
  ASSUME NEW C, NEW s \in Seq(C), NEW x \in C
  PROVE  LET t == Append(s, x)
             n == Len(s)
         IN  /\ x.op = "RST" => Data(t) = {} /\ AddressAt(t, n + 2) = 0
             /\ x.op # "RST" =>
                  /\ \A i \in 1 .. n + 1 : AddressAt(t, i) = AddressAt(s, i)
                  /\ Data(t) = IF x.op = "WD" /\ AddressAt(s, n + 1) # 0
                               THEN Data(s) \cup {n + 1} ELSE Data(s)
                  /\ AddressAt(t, n + 2) = IF x.op = "WA" THEN x.arg ELSE AddressAt(s, n + 1)
<1> DEFINE t == Append(s, x)
           n == Len(s)
<1>1. /\ n \in Nat /\ DOMAIN s = 1 .. n
      /\ DOMAIN t = 1 .. n + 1 /\ t[n + 1] = x /\ \A i \in 1 .. n : t[i] = s[i]
  BY LenProperties
<1> HIDE DEF t, n
<1>2. Resets(s) \in SUBSET (1 .. n) /\ Resets(s) \in SUBSET Int
  BY <1>1 DEF Resets
<1>3. ResetAt(s) \in 0 .. n /\ \A j \in Resets(s) : j <= ResetAt(s)
  <2>1. CASE Resets(s) = {}
    BY <1>1, <2>1 DEF ResetAt
  <2>2. CASE Resets(s) # {}
    <3>1. Latest(Resets(s)) \in Resets(s) /\ \A j \in Resets(s) : j <= Latest(Resets(s))
      BY <1>1, <1>2, <2>2, LatestOf
    <3>2. QED
      BY <1>1, <1>2, <2>2, <3>1 DEF ResetAt
  <2>3. QED
    BY <2>1, <2>2
<1>4. ASSUME x.op = "RST" PROVE Data(t) = {} /\ AddressAt(t, n + 2) = 0
  <2>1. n + 1 \in Resets(t) /\ \A j \in Resets(t) : j <= n + 1
    BY <1>1, <1>4 DEF Resets
  <2>2. Resets(t) \in SUBSET Int
    BY <1>1 DEF Resets
  <2>3. Latest(Resets(t)) = n + 1
    BY <2>1, <2>2, LatestIs
  <2>4. ResetAt(t) = n + 1
    BY <2>1, <2>3 DEF ResetAt
  <2>5. Data(t) = {}
    BY <1>1, <2>4 DEF Data
  <2>6. Before(t, n + 2) = {}
    BY <1>1, <2>4 DEF Before
  <2>7. QED
    BY <2>5, <2>6 DEF AddressAt
<1>5. ASSUME x.op # "RST"
      PROVE  /\ \A i \in 1 .. n + 1 : AddressAt(t, i) = AddressAt(s, i)
             /\ Data(t) = IF x.op = "WD" /\ AddressAt(s, n + 1) # 0
                          THEN Data(s) \cup {n + 1} ELSE Data(s)
             /\ AddressAt(t, n + 2) = IF x.op = "WA" THEN x.arg ELSE AddressAt(s, n + 1)
  <2>1. Resets(t) = Resets(s)
    BY <1>1, <1>5 DEF Resets
  <2>2. ResetAt(t) = ResetAt(s)
    <3>1. CASE Resets(s) = {}
      BY <2>1, <3>1 DEF ResetAt
    <3>2. CASE Resets(s) # {}
      BY <2>1, <3>2 DEF ResetAt
    <3>3. QED
      BY <3>1, <3>2
  <2>3. ASSUME NEW i \in 1 .. n + 1 PROVE AddressAt(t, i) = AddressAt(s, i)
    <3>1. Before(t, i) = Before(s, i)
      BY <1>1, <2>2 DEF Before
    <3>2. CASE Before(s, i) = {}
      BY <3>1, <3>2 DEF AddressAt
    <3>3. CASE Before(s, i) # {}
      <4>1. Before(s, i) \in SUBSET (1 .. n)
        BY <1>1 DEF Before
      <4>2. Latest(Before(s, i)) \in 1 .. n
        BY <1>1, <3>3, <4>1, LatestOf
      <4>3. QED
        BY <1>1, <3>1, <3>3, <4>2 DEF AddressAt
    <3>4. QED
      BY <3>2, <3>3
  <2>4. Data(t) = IF x.op = "WD" /\ AddressAt(s, n + 1) # 0 THEN Data(s) \cup {n + 1} ELSE Data(s)
    <3>1. Data(t) = {i \in 1 .. n + 1 : t[i].op = "WD" /\ i > ResetAt(s) /\ AddressAt(s, i) # 0}
      BY <1>1, <2>2, <2>3 DEF Data
    <3>2. Data(s) = {i \in 1 .. n : s[i].op = "WD" /\ i > ResetAt(s) /\ AddressAt(s, i) # 0}
      BY <1>1 DEF Data
    <3>3. \A i \in 1 .. n + 1 : i = n + 1 \/ i \in 1 .. n
      BY <1>1
    <3>4. QED
      BY <1>1, <1>3, <3>1, <3>2, <3>3
  <2>5. AddressAt(t, n + 2) = IF x.op = "WA" THEN x.arg ELSE AddressAt(s, n + 1)
    <3>1. CASE x.op = "WA"
      <4>1. n + 1 \in Before(t, n + 2) /\ \A j \in Before(t, n + 2) : j <= n + 1
        BY <1>1, <1>3, <2>2, <3>1 DEF Before
      <4>2. Before(t, n + 2) \in SUBSET Int
        BY <1>1 DEF Before
      <4>3. Latest(Before(t, n + 2)) = n + 1
        BY <4>1, <4>2, LatestIs
      <4>4. QED
        BY <1>1, <3>1, <4>1, <4>3 DEF AddressAt
    <3>2. CASE x.op # "WA"
      <4>1. Before(t, n + 2) = Before(t, n + 1)
        BY <1>1, <3>2 DEF Before
      <4>2. AddressAt(t, n + 2) = AddressAt(t, n + 1)
        BY <4>1 DEF AddressAt
      <4>3. n + 1 \in 1 .. n + 1
        BY <1>1
      <4>4. QED
        BY <2>3, <3>2, <4>2, <4>3
    <3>3. QED
      BY <3>1, <3>2
  <2>6. QED
    BY <2>3, <2>4, <2>5
<1>6. QED
  BY <1>4, <1>5 DEF t, n

\* A reset forgets everything, an address is remembered, and a value goes to the register
\* whose address was sent last.
LEMMA CommandEffect ==
  ASSUME NEW C, NEW s \in Seq(C), NEW x \in C
  PROVE  LET was == Run(Blank, s)
             is == Run(Blank, Append(s, x))
         IN  /\ x.op = "RST" => DOMAIN is.reg = {} /\ is.at = 0
             /\ x.op = "WA" => is.reg = was.reg /\ is.at = x.arg
             /\ x.op = "WD" /\ was.at # 0 =>
                  /\ is.at = was.at /\ DOMAIN is.reg = DOMAIN was.reg \cup {was.at}
                  /\ is.reg[was.at] = x.arg
                  /\ \A a \in DOMAIN was.reg : a # was.at => is.reg[a] = was.reg[a]
             /\ x.op = "WD" /\ was.at = 0 => is.reg = was.reg /\ is.at = was.at
             /\ x.op \notin {"RST", "WA", "WD"} => is.reg = was.reg /\ is.at = was.at
<1> DEFINE t == Append(s, x)
           n == Len(s)
           was == Run(Blank, s)
           is == Run(Blank, t)
<1>1. /\ n \in Nat /\ DOMAIN s = 1 .. n /\ Len(t) = n + 1
      /\ t[n + 1] = x /\ \A i \in 1 .. n : t[i] = s[i]
  BY LenProperties
<1>2. /\ x.op = "RST" => Data(t) = {} /\ AddressAt(t, n + 2) = 0
      /\ x.op # "RST" =>
           /\ \A i \in 1 .. n + 1 : AddressAt(t, i) = AddressAt(s, i)
           /\ Data(t) = IF x.op = "WD" /\ AddressAt(s, n + 1) # 0
                        THEN Data(s) \cup {n + 1} ELSE Data(s)
           /\ AddressAt(t, n + 2) = IF x.op = "WA" THEN x.arg ELSE AddressAt(s, n + 1)
  BY OneMore
<1>3. /\ was.reg = [a \in {AddressAt(s, i) : i \in Data(s)} |-> s[Latest(Writing(s, a))].arg]
      /\ was.at = AddressAt(s, n + 1)
  BY RunIs
<1>4. /\ is.reg = [a \in {AddressAt(t, i) : i \in Data(t)} |-> t[Latest(Writing(t, a))].arg]
      /\ is.at = AddressAt(t, Len(t) + 1)
  BY RunIs
<1>5. Len(t) + 1 = n + 2
  BY <1>1
<1>6. Data(s) \subseteq 1 .. n
  BY <1>1 DEF Data
<1> HIDE DEF t, n, was, is
<1>7. CASE x.op = "RST"
  BY <1>2, <1>4, <1>5, <1>7 DEF t, was, is
<1>8. ASSUME x.op # "RST", NEW a, a \in {AddressAt(s, i) : i \in Data(s)},
             ~(x.op = "WD" /\ a = AddressAt(s, n + 1))
      PROVE  t[Latest(Writing(t, a))].arg = s[Latest(Writing(s, a))].arg
  <2>1. \A i \in Data(s) : AddressAt(t, i) = AddressAt(s, i)
    BY <1>1, <1>2, <1>6, <1>8
  <2>2. n + 1 \notin Data(s) /\ AddressAt(t, n + 1) = AddressAt(s, n + 1)
    BY <1>1, <1>2, <1>6, <1>8
  <2>3. Writing(t, a) = Writing(s, a)
    BY <1>2, <1>8, <2>1, <2>2 DEF Writing
  <2>4. Writing(s, a) \in SUBSET (1 .. n) /\ Writing(s, a) # {}
    BY <1>6, <1>8 DEF Writing
  <2>5. Latest(Writing(s, a)) \in 1 .. n
    BY <1>1, <2>4, LatestOf
  <2>6. QED
    BY <1>1, <2>3, <2>5
<1>9. CASE x.op # "RST" /\ ~(x.op = "WD" /\ was.at # 0)
  <2>1. Data(t) = Data(s)
    BY <1>2, <1>3, <1>9
  <2>2. {AddressAt(t, i) : i \in Data(t)} = {AddressAt(s, i) : i \in Data(s)}
    BY <1>1, <1>2, <1>6, <1>9, <2>1
  <2>3. \A a \in {AddressAt(s, i) : i \in Data(s)} : ~(x.op = "WD" /\ a = AddressAt(s, n + 1))
    BY <1>3, <1>9 DEF Data
  <2>4. is.reg = was.reg
    BY <1>3, <1>4, <1>8, <1>9, <2>2, <2>3
  <2>5. is.at = IF x.op = "WA" THEN x.arg ELSE was.at
    BY <1>2, <1>3, <1>4, <1>5, <1>9
  <2>6. QED
    BY <1>9, <2>4, <2>5 DEF t, was, is
<1>10. CASE x.op = "WD" /\ was.at # 0
  <2>1. /\ Data(t) = Data(s) \cup {n + 1}
        /\ AddressAt(t, n + 1) = was.at /\ is.at = was.at
        /\ \A i \in Data(s) : AddressAt(t, i) = AddressAt(s, i)
    BY <1>1, <1>2, <1>3, <1>4, <1>5, <1>6, <1>10
  <2>2. {AddressAt(t, i) : i \in Data(t)} = {AddressAt(s, i) : i \in Data(s)} \cup {was.at}
    BY <2>1
  <2>3. DOMAIN is.reg = DOMAIN was.reg \cup {was.at}
    BY <1>3, <1>4, <2>2
  <2>4. Latest(Writing(t, was.at)) = n + 1
    <3>1. n + 1 \in Writing(t, was.at) /\ \A j \in Writing(t, was.at) : j <= n + 1
      BY <1>1, <1>6, <2>1 DEF Writing
    <3>2. Writing(t, was.at) \in SUBSET Int
      BY <1>1, <1>6, <2>1 DEF Writing
    <3>3. QED
      BY <3>1, <3>2, LatestIs
  <2>5. is.reg[was.at] = x.arg
    BY <1>1, <1>4, <2>2, <2>4
  <2>6. ASSUME NEW a \in DOMAIN was.reg, a # was.at PROVE is.reg[a] = was.reg[a]
    <3>1. a \in {AddressAt(s, i) : i \in Data(s)} /\ a # AddressAt(s, n + 1)
      BY <1>3, <2>6
    <3>2. t[Latest(Writing(t, a))].arg = s[Latest(Writing(s, a))].arg
      BY <1>8, <1>10, <3>1
    <3>3. QED
      BY <1>3, <1>4, <2>2, <3>1, <3>2
  <2>7. QED
    BY <1>10, <2>1, <2>3, <2>5, <2>6 DEF t, was, is
<1>11. QED
  BY <1>7, <1>9, <1>10

-----------------------------------------------------------------------------
(* Two chips that are sent the same.                                       *)

\* What was sent before, and a command more of what follows.
LEMMA PrefixGrows ==
  ASSUME NEW C, NEW u \in Seq(C), NEW t \in Seq(C), NEW j \in Nat, j + 1 <= Len(t)
  PROVE  /\ u \o SubSeq(t, 1, j) \in Seq(C) /\ t[j + 1] \in C
         /\ u \o SubSeq(t, 1, j + 1) = Append(u \o SubSeq(t, 1, j), t[j + 1])
<1>1. Len(t) \in Nat /\ j + 1 \in 1 .. Len(t)
  BY LenProperties
<1>2. SubSeq(t, 1, j) \in Seq(C) /\ SubSeq(t, 1, j + 1) \in Seq(C)
  <2>1. \A i \in 1 .. j + 1 : t[i] \in C
    BY <1>1, ElementOfSeq
  <2>2. \A i \in 1 .. j : t[i] \in C
    BY <2>1
  <2>3. QED
    BY <2>1, <2>2, SubSeqProperties
<1>3. t[j + 1] \in C /\ << t[j + 1] >> \in Seq(C)
  <2>1. t[j + 1] \in C
    BY <1>1, ElementOfSeq
  <2>2. QED
    BY <2>1
<1>4. SubSeq(t, 1, j + 1) = SubSeq(t, 1, j) \o << t[j + 1] >>
  <2>1. 1 \in 1 .. Len(t) /\ j + 1 \in 1 .. Len(t) /\ (j + 1) - 1 = j
    BY <1>1
  <2>2. QED
    BY <2>1, SubSeqRecursiveSecond
<1>5. u \o (SubSeq(t, 1, j) \o << t[j + 1] >>) = (u \o SubSeq(t, 1, j)) \o << t[j + 1] >>
  <2> DEFINE p == SubSeq(t, 1, j)
             q == << t[j + 1] >>
  <2>1. p \in Seq(C) /\ q \in Seq(C)
    BY <1>2, <1>3
  <2> HIDE DEF p, q
  <2>2. (u \o p) \o q = u \o (p \o q)
    BY <2>1, ConcatAssociative
  <2>3. QED
    BY <2>2 DEF p, q
<1>6. u \o SubSeq(t, 1, j) \in Seq(C)
  BY <1>2, ConcatProperties
<1>7. (u \o SubSeq(t, 1, j)) \o << t[j + 1] >> = Append(u \o SubSeq(t, 1, j), t[j + 1])
  BY <1>3, <1>6, AppendIsConcat
<1>8. QED
  BY <1>3, <1>4, <1>5, <1>6, <1>7

\* Nothing and all of a sequence.
LEMMA PrefixEnds ==
  ASSUME NEW C, NEW u \in Seq(C), NEW t \in Seq(C)
  PROVE  u \o SubSeq(t, 1, 0) = u /\ u \o SubSeq(t, 1, Len(t)) = u \o t /\ Len(t) \in Nat
<1>1. SubSeq(t, 1, 0) = << >>
  BY SubSeqEmpty
<1>2. u \o << >> = u
  BY ConcatEmptySeq
<1>3. SubSeq(t, 1, Len(t)) = t
  BY SubSeqFull
<1>4. QED
  BY <1>1, <1>2, <1>3, LenProperties

\* The registers in which two chips differ.
Apart(a, b) ==
  {x \in DOMAIN a \cup DOMAIN b : ~(x \in DOMAIN a /\ x \in DOMAIN b /\ a[x] = b[x])}
\* Two chips differ in some registers at most, and the next value goes there on both or to
\* the same register.
Near(D, u, w) ==
  LET a == Run(Blank, u)
      b == Run(Blank, w)
  IN Apart(a.reg, b.reg) \subseteq D /\ (a.at = b.at \/ {a.at, b.at} \subseteq D)

\* One command more to both.
LEMMA NearStep ==
  ASSUME NEW C, NEW u \in Seq(C), NEW w \in Seq(C), NEW D, Near(D, u, w), NEW x \in C
  PROVE  Near(D, Append(u, x), Append(w, x))
<1> DEFINE a == Run(Blank, u)
           b == Run(Blank, w)
           a2 == Run(Blank, Append(u, x))
           b2 == Run(Blank, Append(w, x))
<1>1. Apart(a.reg, b.reg) \subseteq D /\ (a.at = b.at \/ {a.at, b.at} \subseteq D)
  BY DEF Near
<1>2. /\ x.op = "RST" => DOMAIN a2.reg = {} /\ a2.at = 0
      /\ x.op = "WA" => a2.reg = a.reg /\ a2.at = x.arg
      /\ x.op = "WD" /\ a.at # 0 =>
           /\ a2.at = a.at /\ DOMAIN a2.reg = DOMAIN a.reg \cup {a.at}
           /\ a2.reg[a.at] = x.arg
           /\ \A r \in DOMAIN a.reg : r # a.at => a2.reg[r] = a.reg[r]
      /\ x.op = "WD" /\ a.at = 0 => a2.reg = a.reg /\ a2.at = a.at
      /\ x.op \notin {"RST", "WA", "WD"} => a2.reg = a.reg /\ a2.at = a.at
  BY CommandEffect
<1>3. /\ x.op = "RST" => DOMAIN b2.reg = {} /\ b2.at = 0
      /\ x.op = "WA" => b2.reg = b.reg /\ b2.at = x.arg
      /\ x.op = "WD" /\ b.at # 0 =>
           /\ b2.at = b.at /\ DOMAIN b2.reg = DOMAIN b.reg \cup {b.at}
           /\ b2.reg[b.at] = x.arg
           /\ \A r \in DOMAIN b.reg : r # b.at => b2.reg[r] = b.reg[r]
      /\ x.op = "WD" /\ b.at = 0 => b2.reg = b.reg /\ b2.at = b.at
      /\ x.op \notin {"RST", "WA", "WD"} => b2.reg = b.reg /\ b2.at = b.at
  BY CommandEffect
<1> HIDE DEF a, b, a2, b2
<1>4. Apart(a2.reg, b2.reg) \subseteq D /\ (a2.at = b2.at \/ {a2.at, b2.at} \subseteq D)
  <2>1. CASE x.op = "RST"
    BY <1>2, <1>3, <2>1 DEF Apart
  <2>2. CASE x.op = "WA"
    BY <1>1, <1>2, <1>3, <2>2 DEF Apart
  <2>3. CASE x.op = "WD" /\ a.at # 0 /\ b.at # 0
    BY <1>1, <1>2, <1>3, <2>3 DEF Apart
  <2>4. CASE x.op = "WD" /\ a.at = 0 /\ b.at # 0
    BY <1>1, <1>2, <1>3, <2>4 DEF Apart
  <2>5. CASE x.op = "WD" /\ a.at # 0 /\ b.at = 0
    BY <1>1, <1>2, <1>3, <2>5 DEF Apart
  <2>6. CASE x.op = "WD" /\ a.at = 0 /\ b.at = 0
    BY <1>1, <1>2, <1>3, <2>6 DEF Apart
  <2>7. CASE x.op \notin {"RST", "WA", "WD"}
    BY <1>1, <1>2, <1>3, <2>7 DEF Apart
  <2>8. QED
    BY <2>1, <2>2, <2>3, <2>4, <2>5, <2>6, <2>7
<1>5. QED
  BY <1>4 DEF Near, a2, b2

\* Whatever two chips are sent, the registers in which they differ become no more.
LEMMA NearSent ==
  ASSUME NEW C, NEW u \in Seq(C), NEW w \in Seq(C), NEW D, Near(D, u, w), NEW t \in Seq(C)
  PROVE  Near(D, u \o t, w \o t)
<1> DEFINE N == {j \in Nat : j <= Len(t) => Near(D, u \o SubSeq(t, 1, j), w \o SubSeq(t, 1, j))}
<1>1. 0 \in N
  BY PrefixEnds
<1>2. ASSUME NEW j \in Nat, j \in N PROVE j + 1 \in N
  <2> SUFFICES ASSUME j + 1 <= Len(t)
               PROVE  Near(D, u \o SubSeq(t, 1, j + 1), w \o SubSeq(t, 1, j + 1))
    OBVIOUS
  <2>1. Near(D, u \o SubSeq(t, 1, j), w \o SubSeq(t, 1, j))
    <3>1. Len(t) \in Nat
      BY LenProperties
    <3>2. QED
      BY <1>2, <3>1
  <2>2. /\ u \o SubSeq(t, 1, j) \in Seq(C) /\ t[j + 1] \in C
        /\ u \o SubSeq(t, 1, j + 1) = Append(u \o SubSeq(t, 1, j), t[j + 1])
    BY PrefixGrows
  <2>3. /\ w \o SubSeq(t, 1, j) \in Seq(C)
        /\ w \o SubSeq(t, 1, j + 1) = Append(w \o SubSeq(t, 1, j), t[j + 1])
    BY PrefixGrows
  <2>4. QED
    BY <2>1, <2>2, <2>3, NearStep
<1>3. Nat \subseteq N
  <2> HIDE DEF N
  <2>1. QED
    BY <1>1, <1>2, AllNumbers
<1>4. Near(D, u \o SubSeq(t, 1, Len(t)), w \o SubSeq(t, 1, Len(t)))
  <2>1. Len(t) \in Nat /\ Len(t) <= Len(t)
    BY LenProperties
  <2>2. QED
    BY <1>3, <2>1
<1>5. u \o SubSeq(t, 1, Len(t)) = u \o t /\ w \o SubSeq(t, 1, Len(t)) = w \o t
  BY PrefixEnds
<1>6. QED
  BY <1>4, <1>5

\* A chip that does not know of a command other than the reset differs in two registers at
\* most, whatever it is sent before and after: in the one that the command addressed or wrote
\* and in the one that was addressed before.
THEOREM LostCommand ==
  ASSUME NEW C, NEW u \in Seq(C), NEW x \in C, NEW t \in Seq(C), x.op # "RST"
  PROVE  \E a, b : Near({a, b}, u \o t, Append(u, x) \o t)
<1> DEFINE was == Run(Blank, u)
           is == Run(Blank, Append(u, x))
<1>1. /\ x.op = "WA" => is.reg = was.reg /\ is.at = x.arg
      /\ x.op = "WD" /\ was.at # 0 =>
           /\ is.at = was.at /\ DOMAIN is.reg = DOMAIN was.reg \cup {was.at}
           /\ is.reg[was.at] = x.arg
           /\ \A r \in DOMAIN was.reg : r # was.at => is.reg[r] = was.reg[r]
      /\ x.op = "WD" /\ was.at = 0 => is.reg = was.reg /\ is.at = was.at
      /\ x.op \notin {"RST", "WA", "WD"} => is.reg = was.reg /\ is.at = was.at
  BY CommandEffect
<1> HIDE DEF was, is
<1>2. Apart(was.reg, is.reg) \subseteq {was.at, is.at}
  <2>1. CASE x.op = "WD" /\ was.at # 0
    BY <1>1, <2>1 DEF Apart
  <2>2. CASE ~(x.op = "WD" /\ was.at # 0)
    BY <1>1, <2>2 DEF Apart
  <2>3. QED
    BY <2>1, <2>2
<1>3. Near({was.at, is.at}, u, Append(u, x))
  BY <1>2 DEF Near, was, is
<1>4. Append(u, x) \in Seq(C)
  BY AppendProperties
<1>5. QED
  BY <1>3, <1>4, NearSent

-----------------------------------------------------------------------------
(* One sequence of commands after another.                                 *)

\* The n first sequences of q one after another, f[i] up to the i-th.
Joins(f, q, n) == f = [i \in 1 .. n |-> IF i = 1 THEN q[i] ELSE f[i - 1] \o q[i]]

\* Such sequences exist, for any q.
LEMMA JoinsExist == ASSUME NEW q, NEW n \in Nat PROVE \E f : Joins(f, q, n)
<1> DEFINE N == {k \in Nat : \E f : Joins(f, q, k)}
<1>1. 0 \in N
  <2>1. \A i : i \notin 1 .. 0
    OBVIOUS
  <2>2. Joins([i \in 1 .. 0 |-> 0], q, 0)
    BY <2>1 DEF Joins
  <2>3. QED
    BY <2>2
<1>2. ASSUME NEW k \in Nat, k \in N PROVE k + 1 \in N
  <2>1. PICK f : Joins(f, q, k)
    BY <1>2
  <2> DEFINE g == [i \in 1 .. k + 1 |-> IF i <= k THEN f[i]
                                       ELSE IF i = 1 THEN q[i] ELSE f[k] \o q[i]]
  <2>2. ASSUME NEW i \in 1 .. k + 1
        PROVE  g[i] = IF i = 1 THEN q[i] ELSE g[i - 1] \o q[i]
    <3>1. CASE i <= k
      <4>1. g[i] = f[i] /\ (i # 1 => g[i - 1] = f[i - 1])
        BY <3>1
      <4>0. i \in 1 .. k
        BY <3>1
      <4>2. f[i] = IF i = 1 THEN q[i] ELSE f[i - 1] \o q[i]
        BY <2>1, <4>0 DEF Joins
      <4>3. QED
        BY <4>1, <4>2
    <3>2. CASE i = k + 1
      <4>1. g[i] = (IF i = 1 THEN q[i] ELSE f[k] \o q[i]) /\ (i # 1 => g[i - 1] = f[k])
        BY <3>2
      <4>2. QED
        BY <4>1
    <3>3. QED
      BY <3>1, <3>2
  <2>3. Joins(g, q, k + 1)
    BY <2>2 DEF Joins
  <2>4. QED
    BY <2>3
<1>3. Nat \subseteq N
  <2> HIDE DEF N
  <2>1. QED
    BY <1>1, <1>2, AllNumbers
<1>4. QED
  BY <1>3

\* Of two sequences of sequences that begin alike the beginnings are joined alike.
SameTo(q, r, m) == \A i \in 1 .. m : q[i] = r[i]
\* Their value depends on the first sequences of q only.
LEMMA JoinsAgree ==
  ASSUME NEW q, NEW r, NEW m \in Nat, NEW n \in Nat, m <= n, SameTo(q, r, m),
         NEW f, Joins(f, q, m), NEW g, Joins(g, r, n)
  PROVE  SameTo(f, g, m)
<1> DEFINE N == {k \in Nat : k \in 1 .. m => f[k] = g[k]}
<1>1. 0 \in N
  OBVIOUS
<1>2. ASSUME NEW k \in Nat, k \in N PROVE k + 1 \in N
  <2> SUFFICES ASSUME k + 1 \in 1 .. m PROVE f[k + 1] = g[k + 1]
    OBVIOUS
  <2>1. f[k + 1] = IF k + 1 = 1 THEN q[k + 1] ELSE f[(k + 1) - 1] \o q[k + 1]
    BY DEF Joins
  <2>2. g[k + 1] = IF k + 1 = 1 THEN r[k + 1] ELSE g[(k + 1) - 1] \o r[k + 1]
    <3>1. k + 1 \in 1 .. n
      OBVIOUS
    <3>2. QED
      BY <3>1 DEF Joins
  <2>3. (k + 1) - 1 = k /\ (k + 1 # 1 => k \in 1 .. m)
    OBVIOUS
  <2>4. QED
    BY <1>2, <2>1, <2>2, <2>3 DEF SameTo
<1>3. Nat \subseteq N
  <2> HIDE DEF N
  <2>1. QED
    BY <1>1, <1>2, AllNumbers
<1>4. QED
  BY <1>3 DEF SameTo

\* FlattenSeq of the community modules takes the last of them.
LEMMA FlattenIs ==
  ASSUME NEW q, Len(q) \in Nat \ {0}, NEW f, Joins(f, q, Len(q))
  PROVE  FlattenSeq(q) = f[Len(q)]
<1> DEFINE chosen == CHOOSE g : Joins(g, q, Len(q))
<1>1. Joins(chosen, q, Len(q))
  OBVIOUS
<1>2. FlattenSeq(q) = chosen[Len(q)]
  BY DEF FlattenSeq, Joins
<1> HIDE DEF chosen
<1>3. SameTo(f, chosen, Len(q))
  <2>1. Len(q) \in Nat /\ Len(q) <= Len(q) /\ SameTo(q, q, Len(q))
    BY DEF SameTo
  <2>2. QED
    BY <1>1, <2>1, JoinsAgree
<1>4. QED
  BY <1>2, <1>3 DEF SameTo

\* The commands of one section more follow those of the sections before.
LEMMA FlattenMore ==
  ASSUME NEW q, NEW r, NEW n \in Nat, Len(q) = n, Len(r) = n + 1, \A i \in 1 .. n : q[i] = r[i]
  PROVE  FlattenSeq(r) = IF n = 0 THEN r[n + 1] ELSE FlattenSeq(q) \o r[n + 1]
<1>1. n + 1 \in Nat /\ n <= n + 1 /\ n + 1 # 0
  OBVIOUS
<1>2. PICK g : Joins(g, r, n + 1)
  BY <1>1, JoinsExist
<1>3. PICK f : Joins(f, q, n)
  BY JoinsExist
<1>4. FlattenSeq(r) = g[n + 1]
  BY <1>1, <1>2, FlattenIs
<1>5. g[n + 1] = IF n = 0 THEN r[n + 1] ELSE g[n] \o r[n + 1]
  <2>1. n + 1 \in 1 .. n + 1 /\ (n + 1 = 1 <=> n = 0) /\ (n + 1) - 1 = n
    OBVIOUS
  <2>2. g[n + 1] = IF n + 1 = 1 THEN r[n + 1] ELSE g[(n + 1) - 1] \o r[n + 1]
    BY <1>2, <2>1 DEF Joins
  <2>3. QED
    BY <2>1, <2>2
<1>6. SameTo(f, g, n)
  <2>1. SameTo(q, r, n)
    BY DEF SameTo
  <2>2. QED
    BY <1>1, <1>2, <1>3, <2>1, JoinsAgree
<1>7. n # 0 => FlattenSeq(q) = f[n]
  BY <1>3, FlattenIs
<1>8. QED
  BY <1>4, <1>5, <1>6, <1>7 DEF SameTo

\* Of no section, and of one section more.
LEMMA FlattenNothing == FlattenSeq(<< >>) = << >>
BY DEF FlattenSeq

LEMMA FlattenAppend ==
  ASSUME NEW C, NEW q \in Seq(Seq(C)), NEW t \in Seq(C)
  PROVE  FlattenSeq(q) \in Seq(C) => FlattenSeq(Append(q, t)) = FlattenSeq(q) \o t
<1>1. FlattenSeq(<< >>) = << >>
  BY FlattenNothing
<1>2. /\ Len(q) \in Nat /\ Len(Append(q, t)) = Len(q) + 1 /\ Append(q, t)[Len(q) + 1] = t
      /\ \A i \in 1 .. Len(q) : q[i] = Append(q, t)[i]
  BY LenProperties
<1>3. FlattenSeq(Append(q, t)) = IF Len(q) = 0 THEN t ELSE FlattenSeq(q) \o t
  BY <1>2, FlattenMore
<1>4. Len(q) = 0 => q = << >>
  BY EmptySeq
<1>5. << >> \o t = t
  BY ConcatEmptySeq
<1>6. QED
  BY <1>1, <1>3, <1>4, <1>5

\* The commands of all sections are those of the first and then those of the last sections.
LEMMA FlattenConcat ==
  ASSUME NEW C, NEW q \in Seq(Seq(C)), NEW r \in Seq(Seq(C))
  PROVE  /\ FlattenSeq(q) \in Seq(C) /\ FlattenSeq(r) \in Seq(C)
         /\ FlattenSeq(q \o r) = FlattenSeq(q) \o FlattenSeq(r)
<1>a. ASSUME NEW x \in Seq(C), NEW y \in Seq(C), NEW z \in Seq(C)
      PROVE  (x \o y) \o z = x \o (y \o z)
  BY ConcatAssociative
<1> DEFINE Whole(s, j) ==
             /\ FlattenSeq(SubSeq(s, 1, j)) \in Seq(C)
             /\ FlattenSeq(q) \in Seq(C) =>
                  FlattenSeq(q \o SubSeq(s, 1, j)) = FlattenSeq(q) \o FlattenSeq(SubSeq(s, 1, j))
<1>1. ASSUME NEW s \in Seq(Seq(C)) PROVE Whole(s, Len(s))
  <2> DEFINE N == {j \in Nat : j <= Len(s) => Whole(s, j)}
  <2>1. 0 \in N
    <3>1. SubSeq(s, 1, 0) = << >> /\ q \o << >> = q
      BY SubSeqEmpty, ConcatEmptySeq
    <3>2. FlattenSeq(<< >>) = << >> /\ << >> \in Seq(C)
      BY FlattenNothing, EmptySeq
    <3>3. FlattenSeq(q) \in Seq(C) => FlattenSeq(q) \o << >> = FlattenSeq(q)
      BY ConcatEmptySeq
    <3>4. Whole(s, 0)
      BY <3>1, <3>2, <3>3
    <3> HIDE DEF Whole
    <3>5. QED
      BY <3>4
  <2>2. ASSUME NEW j \in Nat, j \in N PROVE j + 1 \in N
    <3> SUFFICES ASSUME j + 1 <= Len(s) PROVE Whole(s, j + 1)
      OBVIOUS
    <3> DEFINE a == SubSeq(s, 1, j)
               next == s[j + 1]
               b == SubSeq(s, 1, j + 1)
    <3>1. Whole(s, j)
      <4>1. Len(s) \in Nat
        BY LenProperties
      <4> HIDE DEF Whole
      <4>2. QED
        BY <2>2, <4>1
    <3>2. q \o b = Append(q \o a, next) /\ next \in Seq(C) /\ q \o a \in Seq(Seq(C))
      BY PrefixGrows
    <3>3. << >> \o b = Append(<< >> \o a, next) /\ << >> \o a \in Seq(Seq(C))
      BY PrefixGrows, EmptySeq
    <3>4. a \in Seq(Seq(C)) /\ b \in Seq(Seq(C))
      <4>1. Len(s) \in Nat
        BY LenProperties
      <4>2. \A i \in 1 .. j + 1 : s[i] \in Seq(C)
        BY <4>1, ElementOfSeq
      <4>3. \A i \in 1 .. j : s[i] \in Seq(C)
        BY <4>2
      <4>4. QED
        BY <4>2, <4>3, SubSeqProperties
    <3>5. Whole(s, j) <=> /\ FlattenSeq(a) \in Seq(C)
                          /\ FlattenSeq(q) \in Seq(C) => FlattenSeq(q \o a) = FlattenSeq(q) \o FlattenSeq(a)
      OBVIOUS
    <3>6. Whole(s, j + 1) <=> /\ FlattenSeq(b) \in Seq(C)
                              /\ FlattenSeq(q) \in Seq(C) => FlattenSeq(q \o b) = FlattenSeq(q) \o FlattenSeq(b)
      OBVIOUS
    <3> HIDE DEF a, b, next, Whole
    <3>7. b = Append(a, next)
      BY <3>3, <3>4, ConcatEmptySeq
    <3>8. FlattenSeq(b) = FlattenSeq(a) \o next
      BY <3>1, <3>2, <3>4, <3>5, <3>7, FlattenAppend
    <3>9. FlattenSeq(a) \in Seq(C) /\ FlattenSeq(b) \in Seq(C)
      BY <3>1, <3>2, <3>5, <3>8, ConcatProperties
    <3>10. ASSUME FlattenSeq(q) \in Seq(C)
           PROVE  FlattenSeq(q \o b) = FlattenSeq(q) \o FlattenSeq(b)
      <4>1. FlattenSeq(q \o a) = FlattenSeq(q) \o FlattenSeq(a)
        BY <3>1, <3>5, <3>10
      <4>2. FlattenSeq(q \o a) \in Seq(C)
        BY <3>9, <3>10, <4>1, ConcatProperties
      <4>3. FlattenSeq(q \o b) = FlattenSeq(q \o a) \o next
        BY <3>2, <4>2, FlattenAppend
      <4>4. (FlattenSeq(q) \o FlattenSeq(a)) \o next = FlattenSeq(q) \o (FlattenSeq(a) \o next)
        BY <1>a, <3>2, <3>9, <3>10
      <4>5. QED
        BY <3>8, <4>1, <4>3, <4>4
    <3>11. QED
      BY <3>6, <3>9, <3>10
  <2>3. Nat \subseteq N
    <3> HIDE DEF N
    <3>1. QED
      BY <2>1, <2>2, AllNumbers
  <2>4. Len(s) \in Nat /\ Len(s) <= Len(s)
    BY LenProperties
  <2> HIDE DEF Whole
  <2>5. QED
    BY <2>3, <2>4
<1>2. SubSeq(q, 1, Len(q)) = q /\ SubSeq(r, 1, Len(r)) = r
  BY SubSeqFull
<1>3. QED
  BY <1>1, <1>2

-----------------------------------------------------------------------------
(* The sections of the scripts.                                            *)

\* The register of the rate of the multiplex.
MuxRate == \h1006

\* t and u address the same registers in the same order, reset nothing and send every value
\* right after its address; in t the rate of the multiplex is v.
Fits(t, u, v, i) ==
  /\ t[i].op = u[i].op /\ t[i].op # "RST"
  /\ t[i].op = "WA" => t[i].arg = u[i].arg
  /\ t[i].op = "WD" => i > 1 /\ t[i - 1].op = "WA" /\ (t[i - 1].arg = MuxRate => t[i].arg = v)
Alike(t, u, v) ==
  /\ t \in Seq(Range(t)) /\ u \in Seq(Range(u)) /\ Len(t) = Len(u)
  /\ \A i \in 1 .. Len(t) : Fits(t, u, v, i)

\* Sequences over different sets are sequences over their union.
LEMMA ConcatRange ==
  ASSUME NEW t, t \in Seq(Range(t)), NEW u, u \in Seq(Range(u))
  PROVE  /\ t \o u \in Seq(Range(t \o u))
         /\ Len(t) \in Nat /\ Len(u) \in Nat /\ Len(t \o u) = Len(t) + Len(u)
         /\ \A i \in 1 .. Len(t) + Len(u) :
              (t \o u)[i] = IF i <= Len(t) THEN t[i] ELSE u[i - Len(t)]
<1> DEFINE S == Range(t) \cup Range(u)
<1>1. t \in Seq(S) /\ u \in Seq(S)
  BY SeqMonotonic
<1> HIDE DEF S
<1>2. /\ t \o u \in Seq(S)
      /\ Len(t) \in Nat /\ Len(u) \in Nat /\ Len(t \o u) = Len(t) + Len(u)
      /\ \A i \in 1 .. Len(t) + Len(u) :
           (t \o u)[i] = IF i <= Len(t) THEN t[i] ELSE u[i - Len(t)]
  BY <1>1, ConcatProperties, LenProperties
<1>3. t \o u \in Seq(Range(t \o u))
  BY <1>2, SeqOfRange
<1>4. QED
  BY <1>2, <1>3

\* Concatenation of sequences over different sets is associative.
LEMMA ConcatTwice ==
  ASSUME NEW t, t \in Seq(Range(t)), NEW u, u \in Seq(Range(u)), NEW w, w \in Seq(Range(w))
  PROVE  (t \o u) \o w = t \o (u \o w)
<1> DEFINE S == Range(t) \cup Range(u) \cup Range(w)
<1>1. t \in Seq(S) /\ u \in Seq(S) /\ w \in Seq(S)
  BY SeqMonotonic
<1> HIDE DEF S
<1>2. QED
  BY <1>1, ConcatAssociative

\* Sequences alike one after another, and the pieces of the scripts.
LEMMA AlikeConcat ==
  ASSUME NEW v, NEW t, NEW u, Alike(t, u, v), NEW t2, NEW u2, Alike(t2, u2, v)
  PROVE  Alike(t \o t2, u \o u2, v)
<1> DEFINE n == Len(t)
           k == Len(t2)
<1>1. /\ t \o t2 \in Seq(Range(t \o t2))
      /\ n \in Nat /\ k \in Nat /\ Len(t \o t2) = n + k
      /\ \A i \in 1 .. n + k : (t \o t2)[i] = IF i <= n THEN t[i] ELSE t2[i - n]
  BY ConcatRange DEF Alike
<1>2. /\ u \o u2 \in Seq(Range(u \o u2))
      /\ Len(u) = n /\ Len(u2) = k /\ Len(u \o u2) = n + k
      /\ \A i \in 1 .. n + k : (u \o u2)[i] = IF i <= n THEN u[i] ELSE u2[i - n]
  BY ConcatRange DEF Alike
<1> DEFINE a == t \o t2
           b == u \o u2
<1> HIDE DEF n, k
<1>3. ASSUME NEW i \in 1 .. n + k
      PROVE  Fits(a, b, v, i)
  <2>a. \A j \in 1 .. n + k : a[j] = (IF j <= n THEN t[j] ELSE t2[j - n])
    BY <1>1
  <2>b. \A j \in 1 .. n + k : b[j] = (IF j <= n THEN u[j] ELSE u2[j - n])
    BY <1>2
  <2> HIDE DEF a, b
  <2>1. CASE i <= n
    <3>1. i \in 1 .. n /\ a[i] = t[i] /\ b[i] = u[i]
      BY <1>1, <2>a, <2>b, <2>1
    <3>2. i > 1 => a[i - 1] = t[i - 1]
      <4>1. i > 1 => i - 1 \in 1 .. n + k /\ i - 1 <= n
        BY <1>1, <2>1
      <4>2. QED
        BY <2>a, <4>1
    <3>3. Fits(t, u, v, i)
      BY <3>1 DEF Alike, n
    <3>4. QED
      BY <3>1, <3>2, <3>3 DEF Fits
  <2>2. CASE i > n
    <3> DEFINE j == i - n
    <3>1. j \in 1 .. k /\ a[i] = t2[j] /\ b[i] = u2[j]
      BY <1>1, <2>a, <2>b, <2>2
    <3>2. j > 1 => i > 1 /\ a[i - 1] = t2[j - 1]
      <4>1. j > 1 => i > 1 /\ i - 1 \in 1 .. n + k /\ ~(i - 1 <= n) /\ (i - 1) - n = j - 1
        BY <1>1, <2>2
      <4>2. QED
        BY <2>a, <4>1
    <3> HIDE DEF j
    <3>3. Fits(t2, u2, v, j)
      BY <3>1 DEF Alike, k
    <3>4. QED
      BY <3>1, <3>2, <3>3 DEF Fits
  <2>3. QED
    BY <1>1, <2>1, <2>2
<1>4. QED
  BY <1>1, <1>2, <1>3 DEF Alike

\* A register and its value.
LEMMA AlikeReg ==
  ASSUME NEW v, NEW a, NEW x, NEW y, a = MuxRate => x = v
  PROVE  Alike(Reg(a, x), Reg(a, y), v)
<1> DEFINE t == Reg(a, x)
           u == Reg(a, y)
<1>1. /\ Len(t) = 2 /\ t[1] = [op |-> "WA", arg |-> a] /\ t[2] = [op |-> "WD", arg |-> x]
      /\ Len(u) = 2 /\ u[1] = [op |-> "WA", arg |-> a] /\ u[2] = [op |-> "WD", arg |-> y]
  BY DEF Reg
<1>2. t \in Seq(Range(t)) /\ u \in Seq(Range(u))
  <2>1. t \in Seq({[op |-> "WA", arg |-> a], [op |-> "WD", arg |-> x]})
    BY DEF Reg
  <2>2. u \in Seq({[op |-> "WA", arg |-> a], [op |-> "WD", arg |-> y]})
    BY DEF Reg
  <2> HIDE DEF t, u
  <2>3. QED
    BY <2>1, <2>2, SeqOfRange
<1> HIDE DEF t, u
<1>3. \A i \in 1 .. Len(t) : i = 1 \/ i = 2
  BY <1>1
<1>4. \A i \in 1 .. Len(t) : Fits(t, u, v, i)
  BY <1>1, <1>3 DEF Fits
<1>5. Alike(t, u, v)
  BY <1>1, <1>2, <1>4 DEF Alike
<1>6. QED
  BY <1>5 DEF t, u

\* A command that is neither an address nor a value nor the reset.
LEMMA AlikeCmd ==
  ASSUME NEW v, NEW o, o \notin {"RST", "WA", "WD"}
  PROVE  Alike(<< Cmd(o) >>, << Cmd(o) >>, v)
<1> DEFINE t == << Cmd(o) >>
<1>1. Len(t) = 1 /\ t[1].op = o
  BY DEF Cmd
<1>2. t \in Seq(Range(t))
  <2>1. t \in Seq({Cmd(o)})
    OBVIOUS
  <2> HIDE DEF t
  <2>2. QED
    BY <2>1, SeqOfRange
<1> HIDE DEF t
<1>3. \A i \in 1 .. Len(t) : i = 1
  BY <1>1
<1>4. Alike(t, t, v)
  BY <1>1, <1>2, <1>3 DEF Alike, Fits
<1>5. QED
  BY <1>4 DEF t

\* The same of sections one after another.
LEMMA AlikeFlat ==
  ASSUME NEW v, NEW C, NEW q \in Seq(Seq(C)), NEW r \in Seq(Seq(C)), Len(q) = Len(r),
         \A i \in 1 .. Len(q) : Alike(q[i], r[i], v)
  PROVE  Alike(FlattenSeq(q), FlattenSeq(r), v)
<1> DEFINE Done(j) == Alike(FlattenSeq(SubSeq(q, 1, j)), FlattenSeq(SubSeq(r, 1, j)), v)
           N == {j \in Nat : j <= Len(q) => Done(j)}
<1>1. Len(q) \in Nat
  BY LenProperties
<1>2. 0 \in N
  <2>1. SubSeq(q, 1, 0) = << >> /\ SubSeq(r, 1, 0) = << >>
    BY SubSeqEmpty
  <2>2. FlattenSeq(<< >>) = << >>
    BY FlattenNothing
  <2>3. << >> \in Seq(Range(<< >>)) /\ Len(<< >>) = 0 /\ \A i : i \notin 1 .. 0
    OBVIOUS
  <2>4. Alike(<< >>, << >>, v)
    BY <2>3 DEF Alike
  <2>5. Done(0)
    BY <2>1, <2>2, <2>4
  <2>6. QED
    BY <2>5
<1>3. ASSUME NEW j \in Nat, j \in N PROVE j + 1 \in N
  <2> SUFFICES ASSUME j + 1 <= Len(q) PROVE Done(j + 1)
    OBVIOUS
  <2>1. Done(j)
    <3> HIDE DEF Done
    <3>1. QED
      BY <1>1, <1>3
  <2>2. Alike(q[j + 1], r[j + 1], v) /\ q[j + 1] \in Seq(C) /\ r[j + 1] \in Seq(C)
    BY <1>1, ElementOfSeq
  <2>3. ASSUME NEW p \in Seq(Seq(C)), j + 1 <= Len(p)
        PROVE  FlattenSeq(SubSeq(p, 1, j + 1)) = FlattenSeq(SubSeq(p, 1, j)) \o p[j + 1]
    <3>1. /\ << >> \o SubSeq(p, 1, j) \in Seq(Seq(C)) /\ p[j + 1] \in Seq(C)
          /\ << >> \o SubSeq(p, 1, j + 1) = Append(<< >> \o SubSeq(p, 1, j), p[j + 1])
      BY <2>3, PrefixGrows, EmptySeq
    <3>2. SubSeq(p, 1, j) \in Seq(Seq(C)) /\ SubSeq(p, 1, j + 1) \in Seq(Seq(C))
      <4>1. Len(p) \in Nat
        BY LenProperties
      <4>2. \A i \in 1 .. j + 1 : p[i] \in Seq(C)
        BY <2>3, <4>1, ElementOfSeq
      <4>3. \A i \in 1 .. j : p[i] \in Seq(C)
        BY <4>2
      <4>4. QED
        BY <4>2, <4>3, SubSeqProperties
    <3>3. SubSeq(p, 1, j + 1) = Append(SubSeq(p, 1, j), p[j + 1])
      BY <3>1, <3>2, ConcatEmptySeq
    <3>4. FlattenSeq(SubSeq(p, 1, j)) \in Seq(C)
      BY <3>2, FlattenConcat
    <3>5. QED
      BY <3>1, <3>2, <3>3, <3>4, FlattenAppend
  <2>4. /\ FlattenSeq(SubSeq(q, 1, j + 1)) = FlattenSeq(SubSeq(q, 1, j)) \o q[j + 1]
        /\ FlattenSeq(SubSeq(r, 1, j + 1)) = FlattenSeq(SubSeq(r, 1, j)) \o r[j + 1]
    BY <2>3
  <2>5. Alike(FlattenSeq(SubSeq(q, 1, j)) \o q[j + 1], FlattenSeq(SubSeq(r, 1, j)) \o r[j + 1], v)
    BY <2>1, <2>2, AlikeConcat
  <2>6. QED
    BY <2>4, <2>5
<1>4. Nat \subseteq N
  <2> HIDE DEF N
  <2>1. QED
    BY <1>2, <1>3, AllNumbers
<1>5. Done(Len(q))
  <2> HIDE DEF Done
  <2>1. QED
    BY <1>1, <1>4
<1>6. SubSeq(q, 1, Len(q)) = q /\ SubSeq(r, 1, Len(r)) = r
  BY SubSeqFull
<1>7. QED
  BY <1>5, <1>6

\* A register that is cleared.
LEMMA RegKind == ASSUME NEW a \in Nat PROVE Reg(a, 0) \in Seq([op : {"WA", "WD"}, arg : Nat])
<1> DEFINE x == [op |-> "WA", arg |-> a]
           y == [op |-> "WD", arg |-> 0]
           C == [op : {"WA", "WD"}, arg : Nat]
<1>1. x \in C /\ y \in C /\ Reg(a, 0) = << x, y >>
  BY DEF Reg
<1> HIDE DEF x, y, C
<1>2. << x, y >> \in Seq(C)
  BY <1>1
<1>3. QED
  BY <1>1, <1>2 DEF C

LEMMA AlikeClear ==
  ASSUME NEW v, NEW n \in Nat, NEW rs, DOMAIN rs = 1 .. n,
         \A i \in 1 .. n : rs[i] \in Nat /\ rs[i] # MuxRate
  PROVE  Alike(Clear(rs), Clear(rs), v)
<1> DEFINE C == [op : {"WA", "WD"}, arg : Nat]
           q == [i \in 1 .. n |-> Reg(rs[i], 0)]
<1>1. \A i \in 1 .. n : q[i] \in Seq(C)
  BY RegKind
<1>2. \A i \in 1 .. n : Alike(q[i], q[i], v)
  BY AlikeReg
<1>3. Clear(rs) = FlattenSeq(q)
  BY DEF Clear
<1>4. DOMAIN q = 1 .. n
  OBVIOUS
<1>5. q = [i \in 1 .. n |-> q[i]]
  OBVIOUS
<1> HIDE DEF q, C
<1>6. q \in [1 .. n -> Seq(C)]
  BY <1>1, <1>5
<1>7. q \in Seq(Seq(C))
  BY <1>6, SeqDef
<1>8. Len(q) = n
  BY <1>4, <1>7, LenProperties
<1>9. Alike(FlattenSeq(q), FlattenSeq(q), v)
  BY <1>2, <1>7, <1>8, AlikeFlat
<1>10. QED
  BY <1>3, <1>9

\* Registers one after another.
LEMMA AlikeTwo ==
  ASSUME NEW v, NEW a1, NEW x1, NEW y1, NEW a2, NEW x2, NEW y2,
         a1 # MuxRate, a2 # MuxRate
  PROVE  Alike(Reg(a1, x1) \o Reg(a2, x2), Reg(a1, y1) \o Reg(a2, y2), v)
<1>1. Alike(Reg(a1, x1), Reg(a1, y1), v) /\ Alike(Reg(a2, x2), Reg(a2, y2), v)
  BY AlikeReg
<1>2. QED
  BY <1>1, AlikeConcat

LEMMA AlikeThree ==
  ASSUME NEW v, NEW a1, NEW x1, NEW y1, NEW a2, NEW x2, NEW y2, NEW a3, NEW x3, NEW y3,
         a1 # MuxRate, a2 # MuxRate, a3 # MuxRate
  PROVE  Alike(Reg(a1, x1) \o Reg(a2, x2) \o Reg(a3, x3),
               Reg(a1, y1) \o Reg(a2, y2) \o Reg(a3, y3), v)
<1>1. Alike(Reg(a1, x1) \o Reg(a2, x2), Reg(a1, y1) \o Reg(a2, y2), v)
  BY AlikeTwo
<1>2. Alike(Reg(a3, x3), Reg(a3, y3), v)
  BY AlikeReg
<1>3. QED
  BY <1>1, <1>2, AlikeConcat

LEMMA AlikeFour ==
  ASSUME NEW v, NEW a1, NEW x1, NEW y1, NEW a2, NEW x2, NEW y2, NEW a3, NEW x3, NEW y3,
         NEW a4, NEW x4, NEW y4, a1 # MuxRate, a2 # MuxRate, a3 # MuxRate, a4 # MuxRate
  PROVE  Alike(Reg(a1, x1) \o Reg(a2, x2) \o Reg(a3, x3) \o Reg(a4, x4),
               Reg(a1, y1) \o Reg(a2, y2) \o Reg(a3, y3) \o Reg(a4, y4), v)
<1>1. Alike(Reg(a1, x1) \o Reg(a2, x2) \o Reg(a3, x3),
            Reg(a1, y1) \o Reg(a2, y2) \o Reg(a3, y3), v)
  BY AlikeThree
<1>2. Alike(Reg(a4, x4), Reg(a4, y4), v)
  BY AlikeReg
<1>3. QED
  BY <1>1, <1>2, AlikeConcat

\* What the sections are made of.

LEMMA AlikePids ==
  ASSUME NEW v, NEW c, NEW d
  PROVE  Alike(Pids(c), Pids(d), v)
<1> DEFINE a1 == \h1016
           a2 == \h1018
           a3 == \h101A
           a4 == \h101E
           x1 == c.vpid
           y1 == d.vpid
           x2 == c.apid
           y2 == d.apid
           x3 == c.pmt
           y3 == d.pmt
           x4 == c.pcr
           y4 == d.pcr
<1>1. a1 # MuxRate /\ a2 # MuxRate /\ a3 # MuxRate /\ a4 # MuxRate
  BY DEF MuxRate
<1>2. /\ Pids(c) = Reg(a1, x1) \o Reg(a2, x2) \o Reg(a3, x3) \o Reg(a4, x4)
      /\ Pids(d) = Reg(a1, y1) \o Reg(a2, y2) \o Reg(a3, y3) \o Reg(a4, y4)
  BY DEF Pids
<1> HIDE DEF a1, a2, a3, a4, x1, y1, x2, y2, x3, y3, x4, y4
<1>3. QED
  BY <1>1, <1>2, AlikeFour, Zenon

LEMMA AlikeRate ==
  ASSUME NEW v, NEW c, NEW d, NEW x, NEW y
  PROVE  Alike(Rate(x, c), Rate(y, d), v)
<1> DEFINE a1 == \h1404
           a2 == \h1406
           a3 == \h1408
           x1 == x
           y1 == y
           x2 == Low16(c.vrate)
           y2 == Low16(d.vrate)
           x3 == Low16((c.vrate * 2) \div 3)
           y3 == Low16((d.vrate * 2) \div 3)
<1>1. a1 # MuxRate /\ a2 # MuxRate /\ a3 # MuxRate
  BY DEF MuxRate
<1>2. /\ Rate(x, c) = Reg(a1, x1) \o Reg(a2, x2) \o Reg(a3, x3)
      /\ Rate(y, d) = Reg(a1, y1) \o Reg(a2, y2) \o Reg(a3, y3)
  BY DEF Rate
<1> HIDE DEF a1, a2, a3, x1, y1, x2, y2, x3, y3
<1>3. QED
  BY <1>1, <1>2, AlikeThree, Zenon

LEMMA AlikeGop ==
  ASSUME NEW v, NEW c, NEW d
  PROVE  Alike(Gop(c), Gop(d), v)
<1> DEFINE a1 == \h1418
           a2 == \h1420
           x1 == 0
           y1 == 0
           x2 == Low16(c.vrate \div 2)
           y2 == Low16(d.vrate \div 2)
<1>1. a1 # MuxRate /\ a2 # MuxRate
  BY DEF MuxRate
<1>2. /\ Gop(c) = Reg(a1, x1) \o Reg(a2, x2)
      /\ Gop(d) = Reg(a1, y1) \o Reg(a2, y2)
  BY DEF Gop
<1> HIDE DEF a1, a2, x1, y1, x2, y2
<1>3. QED
  BY <1>1, <1>2, AlikeTwo, Zenon

LEMMA AlikeProf ==
  ASSUME NEW v, NEW c, NEW d, NEW x
  PROVE  Alike(Prof(x, c), Prof(x, d), v)
<1> DEFINE a1 == \h15A0
           a2 == \h1422
           a3 == \h1430
           x1 == Low16(Byte1(c.profile) * 64 * 256 + Byte1(c.level))
           y1 == Low16(Byte1(d.profile) * 64 * 256 + Byte1(d.level))
           x2 == Low16(c.vrate)
           y2 == Low16(d.vrate)
           x3 == x
           y3 == x
<1>1. a1 # MuxRate /\ a2 # MuxRate /\ a3 # MuxRate
  BY DEF MuxRate
<1>2. /\ Prof(x, c) = Reg(a1, x1) \o Reg(a2, x2) \o Reg(a3, x3)
      /\ Prof(x, d) = Reg(a1, y1) \o Reg(a2, y2) \o Reg(a3, y3)
  BY DEF Prof
<1> HIDE DEF a1, a2, a3, x1, y1, x2, y2, x3, y3
<1>3. QED
  BY <1>1, <1>2, AlikeThree, Zenon

LEMMA AlikeWin ==
  ASSUME NEW v, NEW x, NEW y, NEW z, NEW w
  PROVE  Alike(Win(x, y, z, w), Win(x, y, z, w), v)
<1> DEFINE a1 == \h1470
           a2 == \h1472
           a3 == \h1474
           a4 == \h1476
<1>1. a1 # MuxRate /\ a2 # MuxRate /\ a3 # MuxRate /\ a4 # MuxRate
  BY DEF MuxRate
<1>2. /\ Win(x, y, z, w) = Reg(a1, x) \o Reg(a2, y) \o Reg(a3, z) \o Reg(a4, w)
      /\ Win(x, y, z, w) = Reg(a1, x) \o Reg(a2, y) \o Reg(a3, z) \o Reg(a4, w)
  BY DEF Win
<1> HIDE DEF a1, a2, a3, a4
<1>3. QED
  BY <1>1, <1>2, AlikeFour, Zenon

LEMMA AlikeEsVideo ==
  ASSUME NEW v, NEW c, NEW d
  PROVE  Alike(EsVideo(c), EsVideo(d), v)
<1> DEFINE a1 == \h800EC
           a2 == \h80110
           a3 == \h80112
           a4 == \h80114
           x1 == \h000D
           y1 == \h000D
           x2 == \h1B00 + (Byte2(c.vpid) % 32)
           y2 == \h1B00 + (Byte2(d.vpid) % 32)
           x3 == Byte1(c.vpid) * 256 + \hF0
           y3 == Byte1(d.vpid) * 256 + \hF0
           x4 == \h0302
           y4 == \h0302
<1>1. a1 # MuxRate /\ a2 # MuxRate /\ a3 # MuxRate /\ a4 # MuxRate
  BY DEF MuxRate
<1>2. /\ EsVideo(c) = Reg(a1, x1) \o Reg(a2, x2) \o Reg(a3, x3) \o Reg(a4, x4)
      /\ EsVideo(d) = Reg(a1, y1) \o Reg(a2, y2) \o Reg(a3, y3) \o Reg(a4, y4)
  BY DEF EsVideo
<1> HIDE DEF a1, a2, a3, a4, x1, y1, x2, y2, x3, y3, x4, y4
<1>3. QED
  BY <1>1, <1>2, AlikeFour, Zenon

LEMMA AlikeEsAudio ==
  ASSUME NEW v, NEW c, NEW d
  PROVE  Alike(EsAudio(c), EsAudio(d), v)
<1> DEFINE a1 == \h80118
           a2 == \h8011A
           a3 == \h8011C
           x1 == \h0300 + (Byte2(c.apid) % 32)
           y1 == \h0300 + (Byte2(d.apid) % 32)
           x2 == Byte1(c.apid) * 256 + \hF0
           y2 == Byte1(d.apid) * 256 + \hF0
           x3 == 0
           y3 == 0
<1>1. a1 # MuxRate /\ a2 # MuxRate /\ a3 # MuxRate
  BY DEF MuxRate
<1>2. /\ EsAudio(c) = Reg(a1, x1) \o Reg(a2, x2) \o Reg(a3, x3)
      /\ EsAudio(d) = Reg(a1, y1) \o Reg(a2, y2) \o Reg(a3, y3)
  BY DEF EsAudio
<1> HIDE DEF a1, a2, a3, x1, y1, x2, y2, x3, y3
<1>3. QED
  BY <1>1, <1>2, AlikeThree, Zenon

LEMMA AlikeGo ==
  ASSUME NEW v, NEW c, NEW d, NEW e \in {"ENC0", "ENC1"}
  PROVE  Alike(Go(e, c), Go(e, d), v)
<1>1. Alike(audio_init(c), audio_init(d), v)
  <2> DEFINE a == \h1804
  <2>1. a # MuxRate
    BY DEF MuxRate
  <2>2. audio_init(c) = Reg(a, Low16(c.arate)) /\ audio_init(d) = Reg(a, Low16(d.arate))
    BY DEF audio_init
  <2> HIDE DEF a
  <2>3. QED
    BY <2>1, <2>2, AlikeReg
<1>2. Alike(ret_opt, ret_opt, v) /\ Alike(<< Cmd(e) >>, << Cmd(e) >>, v)
  BY AlikeCmd DEF ret_opt
<1>3. QED
  BY <1>1, <1>2, AlikeConcat DEF Go

\* Registers cleared one after another.
LEMMA AlikeCleared ==
  ASSUME NEW v
  PROVE  /\ Alike(Cyc, Cyc, v)
         /\ Alike(Clear(<< \h100C, \h100E, \h1010 >>), Clear(<< \h100C, \h100E, \h1010 >>), v)
         /\ Alike(Clear(<<\h1478, \h147A, \h147C, \h147E>>), Clear(<<\h1478, \h147A, \h147C, \h147E>>), v)
<1>1. ASSUME NEW rs, NEW n \in Nat, DOMAIN rs = 1 .. n,
             \A i \in 1 .. n : rs[i] \in Nat /\ rs[i] # MuxRate
      PROVE  Alike(Clear(rs), Clear(rs), v)
  BY <1>1, AlikeClear
<1>2. Alike(Cyc, Cyc, v)
  <2> DEFINE rs == << \h1110, \h1112, \h1114, \h1116, \h1146 >>
  <2>1. DOMAIN rs = 1 .. 5 /\ \A i \in 1 .. 5 : rs[i] \in Nat /\ rs[i] # MuxRate
    BY DEF MuxRate
  <2>2. Cyc = Clear(rs)
    BY DEF Cyc
  <2> HIDE DEF rs
  <2>3. QED
    BY <1>1, <2>1, <2>2
<1>3. Alike(Clear(<< \h100C, \h100E, \h1010 >>), Clear(<< \h100C, \h100E, \h1010 >>), v)
  <2> DEFINE rs == << \h100C, \h100E, \h1010 >>
  <2>1. DOMAIN rs = 1 .. 3 /\ \A i \in 1 .. 3 : rs[i] \in Nat /\ rs[i] # MuxRate
    BY DEF MuxRate
  <2> SUFFICES Alike(Clear(rs), Clear(rs), v)
    OBVIOUS
  <2> HIDE DEF rs
  <2>3. QED
    BY <1>1, <2>1
<1>4. Alike(Clear(<<\h1478, \h147A, \h147C, \h147E>>), Clear(<<\h1478, \h147A, \h147C, \h147E>>), v)
  <2> DEFINE rs == <<\h1478, \h147A, \h147C, \h147E>>
  <2>1. DOMAIN rs = 1 .. 4 /\ \A i \in 1 .. 4 : rs[i] \in Nat /\ rs[i] # MuxRate
    BY DEF MuxRate
  <2> SUFFICES Alike(Clear(rs), Clear(rs), v)
    OBVIOUS
  <2> HIDE DEF rs
  <2>3. QED
    BY <1>1, <2>1
<1>5. QED
  BY <1>2, <1>3, <1>4

\* All of them.
LEMMA AlikePieces ==
  ASSUME NEW v, NEW c, NEW d
  PROVE  /\ Alike(Pids(c), Pids(d), v) /\ Alike(Cyc, Cyc, v)
         /\ \A x, y : Alike(Rate(x, c), Rate(y, d), v)
         /\ Alike(Gop(c), Gop(d), v)
         /\ \A x : Alike(Prof(x, c), Prof(x, d), v)
         /\ \A x, y, z, w : Alike(Win(x, y, z, w), Win(x, y, z, w), v)
         /\ Alike(EsVideo(c), EsVideo(d), v) /\ Alike(EsAudio(c), EsAudio(d), v)
         /\ \A e \in {"ENC0", "ENC1"} : Alike(Go(e, c), Go(e, d), v)
<1>1. /\ Alike(Pids(c), Pids(d), v) /\ Alike(Cyc, Cyc, v) /\ Alike(Gop(c), Gop(d), v)
      /\ Alike(EsVideo(c), EsVideo(d), v) /\ Alike(EsAudio(c), EsAudio(d), v)
  BY AlikePids, AlikeCleared, AlikeGop, AlikeEsVideo, AlikeEsAudio
<1>2. \A x, y : Alike(Rate(x, c), Rate(y, d), v)
  BY AlikeRate
<1>3. \A x : Alike(Prof(x, c), Prof(x, d), v)
  BY AlikeProf
<1>4. \A x, y, z, w : Alike(Win(x, y, z, w), Win(x, y, z, w), v)
  BY AlikeWin
<1>5. \A e \in {"ENC0", "ENC1"} : Alike(Go(e, c), Go(e, d), v)
  BY AlikeGo
<1>6. QED
  BY <1>1, <1>2, <1>3, <1>4, <1>5

\* The first section resets the chip after its first command, the second sets the rate of the
\* multiplex first of all, and the rest follows the rule that every value has its address.
Opening == << Cmd("CHK"), Cmd("RST") >>
Regular(s, t, v, x, n) ==
  /\ s = [i \in 1 .. n |-> s[i]] /\ t = [i \in 1 .. n |-> t[i]]
  /\ \E u : s[1] = Opening \o u /\ t[1] = Opening \o u /\ Alike(u, u, v)
  /\ \E u, w : s[2] = Reg(MuxRate, v) \o u /\ Alike(u, w, v)
  /\ Alike(s[2], t[2], v) /\ \A i \in 3 .. n : Alike(s[i], t[i], x)

LEMMA StartRegular ==
  ASSUME NEW v, NEW e \in {"ENC0", "ENC1"}
  PROVE  \E u : Start(e) = Opening \o u /\ Alike(u, u, v)
<1> DEFINE a1 == \h90000
           a2 == \h1000
           a3 == \h1002
           a4 == \h1004
           a == << Cmd("DP") >>
           b == << Cmd(e) >> \o Reg(a1, 0)
           r2 == Reg(a2, \h0100)
           r3 == Reg(a3, 2)
           r4 == Reg(a4, 1)
<1>0. a1 # MuxRate /\ a2 # MuxRate /\ a3 # MuxRate /\ a4 # MuxRate
  BY DEF MuxRate
<1>5. h64_common_set = Opening \o a
  BY DEF h64_common_set, Opening
<1>6. Start(e) = (((((Opening \o a) \o b) \o r2) \o r3) \o r4)
  BY <1>5 DEF Start, other_pi
<1> HIDE DEF a1, a2, a3, a4
<1>1. Alike(a, a, v) /\ Alike(<< Cmd(e) >>, << Cmd(e) >>, v)
  BY AlikeCmd
<1>2. Alike(r2, r2, v) /\ Alike(r3, r3, v) /\ Alike(r4, r4, v)
  BY <1>0, AlikeReg
<1>3. Alike(b, b, v)
  <2>1. Alike(Reg(a1, 0), Reg(a1, 0), v)
    BY <1>0, AlikeReg
  <2>2. QED
    BY <1>1, <2>1, AlikeConcat
<1>4. Opening \in Seq(Range(Opening))
  <2>1. Opening \in Seq({Cmd("CHK"), Cmd("RST")})
    BY DEF Opening
  <2>2. QED
    BY <2>1, SeqOfRange
<1> HIDE DEF a, b, r2, r3, r4
<1>7. ASSUME NEW t, NEW u, Alike(t, t, v), Alike(u, u, v)
      PROVE  (Opening \o t) \o u = Opening \o (t \o u) /\ Alike(t \o u, t \o u, v)
  <2>1. t \in Seq(Range(t)) /\ u \in Seq(Range(u))
    BY <1>7 DEF Alike
  <2>2. (Opening \o t) \o u = Opening \o (t \o u)
    BY <1>4, <2>1, ConcatTwice
  <2>3. QED
    BY <1>7, <2>2, AlikeConcat
<1>8. (Opening \o a) \o b = Opening \o (a \o b) /\ Alike(a \o b, a \o b, v)
  BY <1>1, <1>3, <1>7
<1> DEFINE x == a \o b
<1> HIDE DEF x
<1>9. (Opening \o x) \o r2 = Opening \o (x \o r2) /\ Alike(x \o r2, x \o r2, v)
  BY <1>2, <1>7, <1>8 DEF x
<1> DEFINE y == x \o r2
<1> HIDE DEF y
<1>10. (Opening \o y) \o r3 = Opening \o (y \o r3) /\ Alike(y \o r3, y \o r3, v)
  BY <1>2, <1>7, <1>9 DEF y
<1> DEFINE z == y \o r3
<1> HIDE DEF z
<1>11. (Opening \o z) \o r4 = Opening \o (z \o r4) /\ Alike(z \o r4, z \o r4, v)
  BY <1>2, <1>7, <1>10 DEF z
<1>12. Start(e) = Opening \o (z \o r4)
  BY <1>6, <1>8, <1>9, <1>10, <1>11 DEF x, y, z
<1>13. QED
  BY <1>11, <1>12

\* The section that sets the rate of the multiplex.
LEMMA MuxRegular ==
  ASSUME NEW o, NEW c, NEW f, NEW d, NEW g
  PROVE  LET v == Low16(SysRate(c, f)) IN
         /\ \E u, w : Mux(o, c, f) = Reg(MuxRate, v) \o u /\ Alike(u, w, v)
         /\ Alike(Mux(o, c, f), Mux(o, d, g), v)
<1> DEFINE a == \h1008
           cleared == Clear(<< \h100C, \h100E, \h1010 >>)
           v == Low16(SysRate(c, f))
           z == Low16(SysRate(d, g))
           r1 == Reg(MuxRate, v)
           r2 == Reg(a, o)
<1>1. Mux(o, c, f) = (r1 \o r2) \o cleared /\ Mux(o, d, g) = (Reg(MuxRate, z) \o r2) \o cleared
  BY DEF Mux, MuxRate
<1>2. Alike(cleared, cleared, v)
  BY AlikeCleared
<1>a. a # MuxRate
  BY DEF MuxRate
<1> HIDE DEF v, z, cleared, a
<1>3. Alike(r1, Reg(MuxRate, z), v) /\ Alike(r1, r1, v) /\ Alike(r2, r2, v)
  BY <1>a, AlikeReg
<1> HIDE DEF r1, r2
<1>4. Alike((r1 \o r2) \o cleared, (Reg(MuxRate, z) \o r2) \o cleared, v)
  BY <1>2, <1>3, AlikeConcat
<1>5. (r1 \o r2) \o cleared = r1 \o (r2 \o cleared)
  BY <1>2, <1>3, ConcatTwice DEF Alike
<1>6. Alike(r2 \o cleared, r2 \o cleared, v)
  BY <1>2, <1>3, AlikeConcat
<1>7. QED
  BY <1>1, <1>4, <1>5, <1>6 DEF v, r1

\* The formats that have a script.
Formats == {"v72060p", "v72050p", "v57650i", "v48060i",
            "v108060i", "v108050i", "v108050p", "v108060p"}
SectionCount(m) == IF m \in {"v72060p", "v72050p"} THEN 9 ELSE 10

\* Pieces with one or two registers more.
LEMMA AlikeVid ==
  ASSUME NEW v, NEW c, NEW d, NEW a, NEW x, a # MuxRate
  PROVE  Alike(Reg(a, x) \o Gop(c), Reg(a, x) \o Gop(d), v)
<1>1. Alike(Reg(a, x), Reg(a, x), v) /\ Alike(Gop(c), Gop(d), v)
  BY AlikeReg, AlikeGop
<1>2. QED
  BY <1>1, AlikeConcat

LEMMA AlikeVidMore ==
  ASSUME NEW v, NEW c, NEW d, NEW a, NEW x, NEW b, NEW y, a # MuxRate, b # MuxRate
  PROVE  Alike(Reg(a, x) \o Reg(b, y) \o Gop(c), Reg(a, x) \o Reg(b, y) \o Gop(d), v)
<1>1. Alike(Reg(a, x) \o Reg(b, y), Reg(a, x) \o Reg(b, y), v) /\ Alike(Gop(c), Gop(d), v)
  BY AlikeTwo, AlikeGop
<1>2. QED
  BY <1>1, AlikeConcat

LEMMA AlikeEs ==
  ASSUME NEW v, NEW c, NEW d, NEW a, NEW x, a # MuxRate
  PROVE  Alike(EsVideo(c) \o Reg(a, x), EsVideo(d) \o Reg(a, x), v)
<1>1. Alike(Reg(a, x), Reg(a, x), v) /\ Alike(EsVideo(c), EsVideo(d), v)
  BY AlikeReg, AlikeEsVideo
<1>2. QED
  BY <1>1, AlikeConcat

LEMMA AlikeFin ==
  ASSUME NEW v, NEW c, NEW d, NEW e \in {"ENC0", "ENC1"}
  PROVE  Alike(EsAudio(c) \o Go(e, c), EsAudio(d) \o Go(e, d), v)
<1>1. Alike(EsAudio(c), EsAudio(d), v) /\ Alike(Go(e, c), Go(e, d), v)
  BY AlikeEsAudio, AlikeGo
<1>2. QED
  BY <1>1, AlikeConcat

LEMMA AlikeWinMore ==
  ASSUME NEW v, NEW x, NEW y, NEW z, NEW w, NEW t, Alike(t, t, v)
  PROVE  Alike(Win(x, y, z, w) \o t, Win(x, y, z, w) \o t, v)
<1>1. Alike(Win(x, y, z, w), Win(x, y, z, w), v)
  BY AlikeWin
<1>2. QED
  BY <1>1, AlikeConcat

\* From the second on the sections of two programmings of one format are alike.
LEMMA ScriptRegular ==
  ASSUME NEW m \in Formats, NEW c, NEW f, NEW d, NEW g, NEW x
  PROVE  Regular(Script(m, c, f), Script(m, d, g), Low16(SysRate(c, f)), x, SectionCount(m))
<1> DEFINE v == Low16(SysRate(c, f))
           a1 == \h140A
           a2 == \h140E
           a3 == \h80116
           cleared == Clear(<<\h1478, \h147A, \h147C, \h147E>>)
<1>a. a1 # MuxRate /\ a2 # MuxRate /\ a3 # MuxRate
  BY DEF MuxRate
<1>b. Alike(cleared, cleared, x)
  BY AlikeCleared
<1>c. \A o : /\ \E u, w : Mux(o, c, f) = Reg(MuxRate, v) \o u /\ Alike(u, w, v)
             /\ Alike(Mux(o, c, f), Mux(o, d, g), v)
  BY MuxRegular
<1> HIDE DEF v, a1, a2, a3, cleared
<1>1. CASE m = "v72060p"
  <2> DEFINE s == v72060p_mod(c, f)
             t == v72060p_mod(d, g)
  <2>1. s = [i \in 1 .. 9 |-> s[i]] /\ t = [i \in 1 .. 9 |-> t[i]]
    BY DEF v72060p_mod
  <2>2. /\ s[1] = Start_v72060p /\ t[1] = Start_v72060p
        /\ s[2] = Mux_v72060p(c, f) /\ t[2] = Mux_v72060p(d, g)
        /\ s[3] = Pids_v72060p(c) /\ t[3] = Pids_v72060p(d)
        /\ s[4] = Cyc_v72060p /\ t[4] = Cyc_v72060p
        /\ s[5] = Rate_v72060p(c) /\ t[5] = Rate_v72060p(d)
        /\ s[6] = Vid_v72060p(c) /\ t[6] = Vid_v72060p(d)
        /\ s[7] = Prof_v72060p(c) /\ t[7] = Prof_v72060p(d)
        /\ s[8] = Es_v72060p(c) /\ t[8] = Es_v72060p(d)
        /\ s[9] = Fin_v72060p(c) /\ t[9] = Fin_v72060p(d)
    BY DEF v72060p_mod
  <2>3. Script(m, c, f) = s /\ Script(m, d, g) = t /\ SectionCount(m) = 9
    BY <1>1 DEF Script, SectionCount
  <2> HIDE DEF s, t
  <2>a. s[1] = Start("ENC1") /\ t[1] = Start("ENC1")
    BY <2>2 DEF Start_v72060p
  <2> DEFINE o == 0
  <2>b. s[2] = Mux(o, c, f) /\ t[2] = Mux(o, d, g)
    BY <2>2 DEF Mux_v72060p
  <2> HIDE DEF o
  <2>4. \E u : s[1] = Opening \o u /\ t[1] = Opening \o u /\ Alike(u, u, v)
    <3>1. PICK u : Start("ENC1") = Opening \o u /\ Alike(u, u, v)
      BY StartRegular
    <3>2. QED
      BY <2>a, <3>1
  <2>5. (\E u, w : s[2] = Reg(MuxRate, v) \o u /\ Alike(u, w, v)) /\ Alike(s[2], t[2], v)
    <3>1. PICK u, w : Mux(o, c, f) = Reg(MuxRate, v) \o u /\ Alike(u, w, v)
      BY <1>c
    <3>2. QED
      BY <1>c, <2>b, <3>1
  <2>6. Alike(s[3], t[3], x)
    <3>1. s[3] = Pids(c) /\ t[3] = Pids(d)
      BY <2>2 DEF Pids_v72060p
    <3>2. QED
      BY <3>1, AlikePids
  <2>7. Alike(s[4], t[4], x)
    <3>1. s[4] = Cyc /\ t[4] = Cyc
      BY <2>2 DEF Cyc_v72060p
    <3>2. QED
      BY <3>1, AlikeCleared
  <2>8. Alike(s[5], t[5], x)
    <3>1. s[5] = Rate(c.ratemode, c) /\ t[5] = Rate(d.ratemode, d)
      BY <2>2 DEF Rate_v72060p
    <3>2. QED
      BY <3>1, AlikeRate
  <2>9. Alike(s[6], t[6], x)
    <3> DEFINE x1 == \h1502
    <3>1. s[6] = Reg(a1, x1) \o Reg(a2, 1) \o Gop(c) /\ t[6] = Reg(a1, x1) \o Reg(a2, 1) \o Gop(d)
      BY <2>2 DEF Vid_v72060p, a1, a2
    <3> HIDE DEF x1
    <3>2. QED
      BY <3>1, <1>a, AlikeVidMore
  <2>10. Alike(s[7], t[7], x)
    <3>1. s[7] = Prof(0, c) /\ t[7] = Prof(0, d)
      BY <2>2 DEF Prof_v72060p
    <3>2. QED
      BY <3>1, AlikeProf
  <2>11. Alike(s[8], t[8], x)
    <3>1. s[8] = EsVideo(c) /\ t[8] = EsVideo(d)
      BY <2>2 DEF Es_v72060p
    <3>2. QED
      BY <3>1, AlikeEsVideo
  <2>12. Alike(s[9], t[9], x)
    <3>1. s[9] = EsAudio(c) \o Go("ENC1", c) /\ t[9] = EsAudio(d) \o Go("ENC1", d)
      BY <2>2 DEF Fin_v72060p
    <3>2. QED
      BY <3>1, AlikeFin
  <2>13. \A i \in 3 .. 9 : i = 3 \/ i = 4 \/ i = 5 \/ i = 6 \/ i = 7 \/ i = 8 \/ i = 9
    OBVIOUS
  <2>14. \A i \in 3 .. 9 : Alike(s[i], t[i], x)
    BY <2>6, <2>7, <2>8, <2>9, <2>10, <2>11, <2>12, <2>13
  <2>15. QED
    BY <2>1, <2>3, <2>4, <2>5, <2>14 DEF Regular, v
<1>2. CASE m = "v72050p"
  <2> DEFINE s == v72050p_mod(c, f)
             t == v72050p_mod(d, g)
  <2>1. s = [i \in 1 .. 9 |-> s[i]] /\ t = [i \in 1 .. 9 |-> t[i]]
    BY DEF v72050p_mod
  <2>2. /\ s[1] = Start_v72050p /\ t[1] = Start_v72050p
        /\ s[2] = Mux_v72050p(c, f) /\ t[2] = Mux_v72050p(d, g)
        /\ s[3] = Pids_v72050p(c) /\ t[3] = Pids_v72050p(d)
        /\ s[4] = Cyc_v72050p /\ t[4] = Cyc_v72050p
        /\ s[5] = Rate_v72050p(c) /\ t[5] = Rate_v72050p(d)
        /\ s[6] = Vid_v72050p(c) /\ t[6] = Vid_v72050p(d)
        /\ s[7] = Prof_v72050p(c) /\ t[7] = Prof_v72050p(d)
        /\ s[8] = Es_v72050p(c) /\ t[8] = Es_v72050p(d)
        /\ s[9] = Fin_v72050p(c) /\ t[9] = Fin_v72050p(d)
    BY DEF v72050p_mod
  <2>3. Script(m, c, f) = s /\ Script(m, d, g) = t /\ SectionCount(m) = 9
    BY <1>2 DEF Script, SectionCount
  <2> HIDE DEF s, t
  <2>a. s[1] = Start("ENC1") /\ t[1] = Start("ENC1")
    BY <2>2 DEF Start_v72050p
  <2> DEFINE o == 0
  <2>b. s[2] = Mux(o, c, f) /\ t[2] = Mux(o, d, g)
    BY <2>2 DEF Mux_v72050p
  <2> HIDE DEF o
  <2>4. \E u : s[1] = Opening \o u /\ t[1] = Opening \o u /\ Alike(u, u, v)
    <3>1. PICK u : Start("ENC1") = Opening \o u /\ Alike(u, u, v)
      BY StartRegular
    <3>2. QED
      BY <2>a, <3>1
  <2>5. (\E u, w : s[2] = Reg(MuxRate, v) \o u /\ Alike(u, w, v)) /\ Alike(s[2], t[2], v)
    <3>1. PICK u, w : Mux(o, c, f) = Reg(MuxRate, v) \o u /\ Alike(u, w, v)
      BY <1>c
    <3>2. QED
      BY <1>c, <2>b, <3>1
  <2>6. Alike(s[3], t[3], x)
    <3>1. s[3] = Pids(c) /\ t[3] = Pids(d)
      BY <2>2 DEF Pids_v72050p
    <3>2. QED
      BY <3>1, AlikePids
  <2>7. Alike(s[4], t[4], x)
    <3>1. s[4] = Cyc /\ t[4] = Cyc
      BY <2>2 DEF Cyc_v72050p
    <3>2. QED
      BY <3>1, AlikeCleared
  <2>8. Alike(s[5], t[5], x)
    <3> DEFINE x1 == \h0030
    <3>1. s[5] = Rate(x1, c) /\ t[5] = Rate(x1, d)
      BY <2>2 DEF Rate_v72050p
    <3> HIDE DEF x1
    <3>2. QED
      BY <3>1, AlikeRate
  <2>9. Alike(s[6], t[6], x)
    <3> DEFINE x1 == \h1503
    <3>1. s[6] = Reg(a1, x1) \o Reg(a2, 1) \o Gop(c) /\ t[6] = Reg(a1, x1) \o Reg(a2, 1) \o Gop(d)
      BY <2>2 DEF Vid_v72050p, a1, a2
    <3> HIDE DEF x1
    <3>2. QED
      BY <3>1, <1>a, AlikeVidMore
  <2>10. Alike(s[7], t[7], x)
    <3>1. s[7] = Prof(0, c) /\ t[7] = Prof(0, d)
      BY <2>2 DEF Prof_v72050p
    <3>2. QED
      BY <3>1, AlikeProf
  <2>11. Alike(s[8], t[8], x)
    <3> DEFINE x1 == \h0148
    <3>1. s[8] = EsVideo(c) \o Reg(a3, x1) /\ t[8] = EsVideo(d) \o Reg(a3, x1)
      BY <2>2 DEF Es_v72050p, a3
    <3> HIDE DEF x1
    <3>2. QED
      BY <3>1, <1>a, AlikeEs
  <2>12. Alike(s[9], t[9], x)
    <3>1. s[9] = EsAudio(c) \o Go("ENC1", c) /\ t[9] = EsAudio(d) \o Go("ENC1", d)
      BY <2>2 DEF Fin_v72050p
    <3>2. QED
      BY <3>1, AlikeFin
  <2>13. \A i \in 3 .. 9 : i = 3 \/ i = 4 \/ i = 5 \/ i = 6 \/ i = 7 \/ i = 8 \/ i = 9
    OBVIOUS
  <2>14. \A i \in 3 .. 9 : Alike(s[i], t[i], x)
    BY <2>6, <2>7, <2>8, <2>9, <2>10, <2>11, <2>12, <2>13
  <2>15. QED
    BY <2>1, <2>3, <2>4, <2>5, <2>14 DEF Regular, v
<1>3. CASE m = "v57650i"
  <2> DEFINE s == v57650i_mod(c, f)
             t == v57650i_mod(d, g)
  <2>1. s = [i \in 1 .. 10 |-> s[i]] /\ t = [i \in 1 .. 10 |-> t[i]]
    BY DEF v57650i_mod
  <2>2. /\ s[1] = Start_v57650i /\ t[1] = Start_v57650i
        /\ s[2] = Mux_v57650i(c, f) /\ t[2] = Mux_v57650i(d, g)
        /\ s[3] = Pids_v57650i(c) /\ t[3] = Pids_v57650i(d)
        /\ s[4] = Cyc_v57650i /\ t[4] = Cyc_v57650i
        /\ s[5] = Rate_v57650i(c) /\ t[5] = Rate_v57650i(d)
        /\ s[6] = Vid_v57650i(c) /\ t[6] = Vid_v57650i(d)
        /\ s[7] = Prof_v57650i(c) /\ t[7] = Prof_v57650i(d)
        /\ s[8] = Win_v57650i /\ t[8] = Win_v57650i
        /\ s[9] = Es_v57650i(c) /\ t[9] = Es_v57650i(d)
        /\ s[10] = Fin_v57650i(c) /\ t[10] = Fin_v57650i(d)
    BY DEF v57650i_mod
  <2>3. Script(m, c, f) = s /\ Script(m, d, g) = t /\ SectionCount(m) = 10
    BY <1>3 DEF Script, SectionCount
  <2> HIDE DEF s, t
  <2>a. s[1] = Start("ENC0") /\ t[1] = Start("ENC0")
    BY <2>2 DEF Start_v57650i
  <2> DEFINE o == 0
  <2>b. s[2] = Mux(o, c, f) /\ t[2] = Mux(o, d, g)
    BY <2>2 DEF Mux_v57650i
  <2> HIDE DEF o
  <2>4. \E u : s[1] = Opening \o u /\ t[1] = Opening \o u /\ Alike(u, u, v)
    <3>1. PICK u : Start("ENC0") = Opening \o u /\ Alike(u, u, v)
      BY StartRegular
    <3>2. QED
      BY <2>a, <3>1
  <2>5. (\E u, w : s[2] = Reg(MuxRate, v) \o u /\ Alike(u, w, v)) /\ Alike(s[2], t[2], v)
    <3>1. PICK u, w : Mux(o, c, f) = Reg(MuxRate, v) \o u /\ Alike(u, w, v)
      BY <1>c
    <3>2. QED
      BY <1>c, <2>b, <3>1
  <2>6. Alike(s[3], t[3], x)
    <3>1. s[3] = Pids(c) /\ t[3] = Pids(d)
      BY <2>2 DEF Pids_v57650i
    <3>2. QED
      BY <3>1, AlikePids
  <2>7. Alike(s[4], t[4], x)
    <3>1. s[4] = Cyc /\ t[4] = Cyc
      BY <2>2 DEF Cyc_v57650i
    <3>2. QED
      BY <3>1, AlikeCleared
  <2>8. Alike(s[5], t[5], x)
    <3>1. s[5] = Rate(c.ratemode, c) /\ t[5] = Rate(d.ratemode, d)
      BY <2>2 DEF Rate_v57650i
    <3>2. QED
      BY <3>1, AlikeRate
  <2>9. Alike(s[6], t[6], x)
    <3> DEFINE x1 == \h1005
    <3>1. s[6] = Reg(a1, x1) \o Gop(c) /\ t[6] = Reg(a1, x1) \o Gop(d)
      BY <2>2 DEF Vid_v57650i, a1
    <3> HIDE DEF x1
    <3>2. QED
      BY <3>1, <1>a, AlikeVid
  <2>10. Alike(s[7], t[7], x)
    <3>1. s[7] = Prof(0, c) /\ t[7] = Prof(0, d)
      BY <2>2 DEF Prof_v57650i
    <3>2. QED
      BY <3>1, AlikeProf
  <2>11. Alike(s[8], t[8], x)
    <3> DEFINE x1 == \h26
               x2 == \h7D
               x3 == \h56
               x4 == \h07
    <3>1. s[8] = Win(x1, x2, x3, x4) /\ t[8] = Win(x1, x2, x3, x4)
      BY <2>2 DEF Win_v57650i
    <3> HIDE DEF x1, x2, x3, x4
    <3>2. QED
      BY <3>1, AlikeWin
  <2>12. Alike(s[9], t[9], x)
    <3> DEFINE x1 == \h0148
    <3>1. s[9] = EsVideo(c) \o Reg(a3, x1) /\ t[9] = EsVideo(d) \o Reg(a3, x1)
      BY <2>2 DEF Es_v57650i, a3
    <3> HIDE DEF x1
    <3>2. QED
      BY <3>1, <1>a, AlikeEs
  <2>13. Alike(s[10], t[10], x)
    <3>1. s[10] = EsAudio(c) \o Go("ENC0", c) /\ t[10] = EsAudio(d) \o Go("ENC0", d)
      BY <2>2 DEF Fin_v57650i
    <3>2. QED
      BY <3>1, AlikeFin
  <2>14. \A i \in 3 .. 10 : i = 3 \/ i = 4 \/ i = 5 \/ i = 6 \/ i = 7 \/ i = 8 \/ i = 9 \/ i = 10
    OBVIOUS
  <2>15. \A i \in 3 .. 10 : Alike(s[i], t[i], x)
    BY <2>6, <2>7, <2>8, <2>9, <2>10, <2>11, <2>12, <2>13, <2>14
  <2>16. QED
    BY <2>1, <2>3, <2>4, <2>5, <2>15 DEF Regular, v
<1>4. CASE m = "v48060i"
  <2> DEFINE s == v48060i_mod(c, f)
             t == v48060i_mod(d, g)
  <2>1. s = [i \in 1 .. 10 |-> s[i]] /\ t = [i \in 1 .. 10 |-> t[i]]
    BY DEF v48060i_mod
  <2>2. /\ s[1] = Start_v48060i /\ t[1] = Start_v48060i
        /\ s[2] = Mux_v48060i(c, f) /\ t[2] = Mux_v48060i(d, g)
        /\ s[3] = Pids_v48060i(c) /\ t[3] = Pids_v48060i(d)
        /\ s[4] = Cyc_v48060i /\ t[4] = Cyc_v48060i
        /\ s[5] = Rate_v48060i(c) /\ t[5] = Rate_v48060i(d)
        /\ s[6] = Vid_v48060i(c) /\ t[6] = Vid_v48060i(d)
        /\ s[7] = Prof_v48060i(c) /\ t[7] = Prof_v48060i(d)
        /\ s[8] = Win_v48060i /\ t[8] = Win_v48060i
        /\ s[9] = Es_v48060i(c) /\ t[9] = Es_v48060i(d)
        /\ s[10] = Fin_v48060i(c) /\ t[10] = Fin_v48060i(d)
    BY DEF v48060i_mod
  <2>3. Script(m, c, f) = s /\ Script(m, d, g) = t /\ SectionCount(m) = 10
    BY <1>4 DEF Script, SectionCount
  <2> HIDE DEF s, t
  <2>a. s[1] = Start("ENC0") /\ t[1] = Start("ENC0")
    BY <2>2 DEF Start_v48060i
  <2> DEFINE o == 0
  <2>b. s[2] = Mux(o, c, f) /\ t[2] = Mux(o, d, g)
    BY <2>2 DEF Mux_v48060i
  <2> HIDE DEF o
  <2>4. \E u : s[1] = Opening \o u /\ t[1] = Opening \o u /\ Alike(u, u, v)
    <3>1. PICK u : Start("ENC0") = Opening \o u /\ Alike(u, u, v)
      BY StartRegular
    <3>2. QED
      BY <2>a, <3>1
  <2>5. (\E u, w : s[2] = Reg(MuxRate, v) \o u /\ Alike(u, w, v)) /\ Alike(s[2], t[2], v)
    <3>1. PICK u, w : Mux(o, c, f) = Reg(MuxRate, v) \o u /\ Alike(u, w, v)
      BY <1>c
    <3>2. QED
      BY <1>c, <2>b, <3>1
  <2>6. Alike(s[3], t[3], x)
    <3>1. s[3] = Pids(c) /\ t[3] = Pids(d)
      BY <2>2 DEF Pids_v48060i
    <3>2. QED
      BY <3>1, AlikePids
  <2>7. Alike(s[4], t[4], x)
    <3>1. s[4] = Cyc /\ t[4] = Cyc
      BY <2>2 DEF Cyc_v48060i
    <3>2. QED
      BY <3>1, AlikeCleared
  <2>8. Alike(s[5], t[5], x)
    <3>1. s[5] = Rate(c.ratemode, c) /\ t[5] = Rate(d.ratemode, d)
      BY <2>2 DEF Rate_v48060i
    <3>2. QED
      BY <3>1, AlikeRate
  <2>9. Alike(s[6], t[6], x)
    <3> DEFINE x1 == \h1004
    <3>1. s[6] = Reg(a1, x1) \o Gop(c) /\ t[6] = Reg(a1, x1) \o Gop(d)
      BY <2>2 DEF Vid_v48060i, a1
    <3> HIDE DEF x1
    <3>2. QED
      BY <3>1, <1>a, AlikeVid
  <2>10. Alike(s[7], t[7], x)
    <3>1. s[7] = Prof(0, c) /\ t[7] = Prof(0, d)
      BY <2>2 DEF Prof_v48060i
    <3>2. QED
      BY <3>1, AlikeProf
  <2>11. Alike(s[8], t[8], x)
    <3> DEFINE x1 == \h26
               x2 == \h7D
               x3 == \h56
               x4 == \h07
    <3>1. s[8] = Win(x1, x2, x3, x4) /\ t[8] = Win(x1, x2, x3, x4)
      BY <2>2 DEF Win_v48060i
    <3> HIDE DEF x1, x2, x3, x4
    <3>2. QED
      BY <3>1, AlikeWin
  <2>12. Alike(s[9], t[9], x)
    <3> DEFINE x1 == \h0148
    <3>1. s[9] = EsVideo(c) \o Reg(a3, x1) /\ t[9] = EsVideo(d) \o Reg(a3, x1)
      BY <2>2 DEF Es_v48060i, a3
    <3> HIDE DEF x1
    <3>2. QED
      BY <3>1, <1>a, AlikeEs
  <2>13. Alike(s[10], t[10], x)
    <3>1. s[10] = EsAudio(c) \o Go("ENC0", c) /\ t[10] = EsAudio(d) \o Go("ENC0", d)
      BY <2>2 DEF Fin_v48060i
    <3>2. QED
      BY <3>1, AlikeFin
  <2>14. \A i \in 3 .. 10 : i = 3 \/ i = 4 \/ i = 5 \/ i = 6 \/ i = 7 \/ i = 8 \/ i = 9 \/ i = 10
    OBVIOUS
  <2>15. \A i \in 3 .. 10 : Alike(s[i], t[i], x)
    BY <2>6, <2>7, <2>8, <2>9, <2>10, <2>11, <2>12, <2>13, <2>14
  <2>16. QED
    BY <2>1, <2>3, <2>4, <2>5, <2>15 DEF Regular, v
<1>5. CASE m = "v108060i"
  <2> DEFINE s == v108060i_mod(c, f)
             t == v108060i_mod(d, g)
  <2>1. s = [i \in 1 .. 10 |-> s[i]] /\ t = [i \in 1 .. 10 |-> t[i]]
    BY DEF v108060i_mod
  <2>2. /\ s[1] = Start_v108060i /\ t[1] = Start_v108060i
        /\ s[2] = Mux_v108060i(c, f) /\ t[2] = Mux_v108060i(d, g)
        /\ s[3] = Pids_v108060i(c) /\ t[3] = Pids_v108060i(d)
        /\ s[4] = Cyc_v108060i /\ t[4] = Cyc_v108060i
        /\ s[5] = Rate_v108060i(c) /\ t[5] = Rate_v108060i(d)
        /\ s[6] = Vid_v108060i(c) /\ t[6] = Vid_v108060i(d)
        /\ s[7] = Prof_v108060i(c) /\ t[7] = Prof_v108060i(d)
        /\ s[8] = Win_v108060i /\ t[8] = Win_v108060i
        /\ s[9] = Es_v108060i(c) /\ t[9] = Es_v108060i(d)
        /\ s[10] = Fin_v108060i(c) /\ t[10] = Fin_v108060i(d)
    BY DEF v108060i_mod
  <2>3. Script(m, c, f) = s /\ Script(m, d, g) = t /\ SectionCount(m) = 10
    BY <1>5 DEF Script, SectionCount
  <2> HIDE DEF s, t
  <2>a. s[1] = Start("ENC0") /\ t[1] = Start("ENC0")
    BY <2>2 DEF Start_v108060i
  <2> DEFINE o == \h2000
  <2>b. s[2] = Mux(o, c, f) /\ t[2] = Mux(o, d, g)
    BY <2>2 DEF Mux_v108060i
  <2> HIDE DEF o
  <2>4. \E u : s[1] = Opening \o u /\ t[1] = Opening \o u /\ Alike(u, u, v)
    <3>1. PICK u : Start("ENC0") = Opening \o u /\ Alike(u, u, v)
      BY StartRegular
    <3>2. QED
      BY <2>a, <3>1
  <2>5. (\E u, w : s[2] = Reg(MuxRate, v) \o u /\ Alike(u, w, v)) /\ Alike(s[2], t[2], v)
    <3>1. PICK u, w : Mux(o, c, f) = Reg(MuxRate, v) \o u /\ Alike(u, w, v)
      BY <1>c
    <3>2. QED
      BY <1>c, <2>b, <3>1
  <2>6. Alike(s[3], t[3], x)
    <3>1. s[3] = Pids(c) /\ t[3] = Pids(d)
      BY <2>2 DEF Pids_v108060i
    <3>2. QED
      BY <3>1, AlikePids
  <2>7. Alike(s[4], t[4], x)
    <3>1. s[4] = Cyc /\ t[4] = Cyc
      BY <2>2 DEF Cyc_v108060i
    <3>2. QED
      BY <3>1, AlikeCleared
  <2>8. Alike(s[5], t[5], x)
    <3>1. s[5] = Rate(c.ratemode, c) /\ t[5] = Rate(d.ratemode, d)
      BY <2>2 DEF Rate_v108060i
    <3>2. QED
      BY <3>1, AlikeRate
  <2>9. Alike(s[6], t[6], x)
    <3> DEFINE x1 == \h1000
    <3>1. s[6] = Reg(a1, x1) \o Reg(a2, 1) \o Gop(c) /\ t[6] = Reg(a1, x1) \o Reg(a2, 1) \o Gop(d)
      BY <2>2 DEF Vid_v108060i, a1, a2
    <3> HIDE DEF x1
    <3>2. QED
      BY <3>1, <1>a, AlikeVidMore
  <2>10. Alike(s[7], t[7], x)
    <3>1. s[7] = Prof(2, c) /\ t[7] = Prof(2, d)
      BY <2>2 DEF Prof_v108060i
    <3>2. QED
      BY <3>1, AlikeProf
  <2>11. Alike(s[8], t[8], x)
    <3> DEFINE x1 == \h10
               x2 == \h70
    <3>1. s[8] = Win(x1, x2, x2, x1) /\ t[8] = Win(x1, x2, x2, x1)
      BY <2>2 DEF Win_v108060i
    <3> HIDE DEF x1, x2
    <3>2. QED
      BY <3>1, AlikeWin
  <2>12. Alike(s[9], t[9], x)
    <3> DEFINE x1 == \h0148
    <3>1. s[9] = EsVideo(c) \o Reg(a3, x1) /\ t[9] = EsVideo(d) \o Reg(a3, x1)
      BY <2>2 DEF Es_v108060i, a3
    <3> HIDE DEF x1
    <3>2. QED
      BY <3>1, <1>a, AlikeEs
  <2>13. Alike(s[10], t[10], x)
    <3>1. s[10] = EsAudio(c) \o Go("ENC0", c) /\ t[10] = EsAudio(d) \o Go("ENC0", d)
      BY <2>2 DEF Fin_v108060i
    <3>2. QED
      BY <3>1, AlikeFin
  <2>14. \A i \in 3 .. 10 : i = 3 \/ i = 4 \/ i = 5 \/ i = 6 \/ i = 7 \/ i = 8 \/ i = 9 \/ i = 10
    OBVIOUS
  <2>15. \A i \in 3 .. 10 : Alike(s[i], t[i], x)
    BY <2>6, <2>7, <2>8, <2>9, <2>10, <2>11, <2>12, <2>13, <2>14
  <2>16. QED
    BY <2>1, <2>3, <2>4, <2>5, <2>15 DEF Regular, v
<1>6. CASE m = "v108050i"
  <2> DEFINE s == v108050i_mod(c, f)
             t == v108050i_mod(d, g)
  <2>1. s = [i \in 1 .. 10 |-> s[i]] /\ t = [i \in 1 .. 10 |-> t[i]]
    BY DEF v108050i_mod
  <2>2. /\ s[1] = Start_v108050i /\ t[1] = Start_v108050i
        /\ s[2] = Mux_v108050i(c, f) /\ t[2] = Mux_v108050i(d, g)
        /\ s[3] = Pids_v108050i(c) /\ t[3] = Pids_v108050i(d)
        /\ s[4] = Cyc_v108050i /\ t[4] = Cyc_v108050i
        /\ s[5] = Rate_v108050i(c) /\ t[5] = Rate_v108050i(d)
        /\ s[6] = Vid_v108050i(c) /\ t[6] = Vid_v108050i(d)
        /\ s[7] = Prof_v108050i(c) /\ t[7] = Prof_v108050i(d)
        /\ s[8] = Win_v108050i /\ t[8] = Win_v108050i
        /\ s[9] = Es_v108050i(c) /\ t[9] = Es_v108050i(d)
        /\ s[10] = Fin_v108050i(c) /\ t[10] = Fin_v108050i(d)
    BY DEF v108050i_mod
  <2>3. Script(m, c, f) = s /\ Script(m, d, g) = t /\ SectionCount(m) = 10
    BY <1>6 DEF Script, SectionCount
  <2> HIDE DEF s, t
  <2>a. s[1] = Start("ENC0") /\ t[1] = Start("ENC0")
    BY <2>2 DEF Start_v108050i
  <2> DEFINE o == \h2000
  <2>b. s[2] = Mux(o, c, f) /\ t[2] = Mux(o, d, g)
    BY <2>2 DEF Mux_v108050i
  <2> HIDE DEF o
  <2>4. \E u : s[1] = Opening \o u /\ t[1] = Opening \o u /\ Alike(u, u, v)
    <3>1. PICK u : Start("ENC0") = Opening \o u /\ Alike(u, u, v)
      BY StartRegular
    <3>2. QED
      BY <2>a, <3>1
  <2>5. (\E u, w : s[2] = Reg(MuxRate, v) \o u /\ Alike(u, w, v)) /\ Alike(s[2], t[2], v)
    <3>1. PICK u, w : Mux(o, c, f) = Reg(MuxRate, v) \o u /\ Alike(u, w, v)
      BY <1>c
    <3>2. QED
      BY <1>c, <2>b, <3>1
  <2>6. Alike(s[3], t[3], x)
    <3>1. s[3] = Pids(c) /\ t[3] = Pids(d)
      BY <2>2 DEF Pids_v108050i
    <3>2. QED
      BY <3>1, AlikePids
  <2>7. Alike(s[4], t[4], x)
    <3>1. s[4] = Cyc /\ t[4] = Cyc
      BY <2>2 DEF Cyc_v108050i
    <3>2. QED
      BY <3>1, AlikeCleared
  <2>8. Alike(s[5], t[5], x)
    <3>1. s[5] = Rate(c.ratemode, c) /\ t[5] = Rate(d.ratemode, d)
      BY <2>2 DEF Rate_v108050i
    <3>2. QED
      BY <3>1, AlikeRate
  <2>9. Alike(s[6], t[6], x)
    <3> DEFINE x1 == \h1001
    <3>1. s[6] = Reg(a1, x1) \o Reg(a2, 1) \o Gop(c) /\ t[6] = Reg(a1, x1) \o Reg(a2, 1) \o Gop(d)
      BY <2>2 DEF Vid_v108050i, a1, a2
    <3> HIDE DEF x1
    <3>2. QED
      BY <3>1, <1>a, AlikeVidMore
  <2>10. Alike(s[7], t[7], x)
    <3>1. s[7] = Prof(2, c) /\ t[7] = Prof(2, d)
      BY <2>2 DEF Prof_v108050i
    <3>2. QED
      BY <3>1, AlikeProf
  <2>11. Alike(s[8], t[8], x)
    <3> DEFINE x1 == \h10
               x2 == \h70
    <3>1. s[8] = Win(x1, x2, x2, x1) /\ t[8] = Win(x1, x2, x2, x1)
      BY <2>2 DEF Win_v108050i
    <3> HIDE DEF x1, x2
    <3>2. QED
      BY <3>1, AlikeWin
  <2>12. Alike(s[9], t[9], x)
    <3> DEFINE x1 == \h0148
    <3>1. s[9] = EsVideo(c) \o Reg(a3, x1) /\ t[9] = EsVideo(d) \o Reg(a3, x1)
      BY <2>2 DEF Es_v108050i, a3
    <3> HIDE DEF x1
    <3>2. QED
      BY <3>1, <1>a, AlikeEs
  <2>13. Alike(s[10], t[10], x)
    <3>1. s[10] = EsAudio(c) \o Go("ENC0", c) /\ t[10] = EsAudio(d) \o Go("ENC0", d)
      BY <2>2 DEF Fin_v108050i
    <3>2. QED
      BY <3>1, AlikeFin
  <2>14. \A i \in 3 .. 10 : i = 3 \/ i = 4 \/ i = 5 \/ i = 6 \/ i = 7 \/ i = 8 \/ i = 9 \/ i = 10
    OBVIOUS
  <2>15. \A i \in 3 .. 10 : Alike(s[i], t[i], x)
    BY <2>6, <2>7, <2>8, <2>9, <2>10, <2>11, <2>12, <2>13, <2>14
  <2>16. QED
    BY <2>1, <2>3, <2>4, <2>5, <2>15 DEF Regular, v
<1>7. CASE m = "v108050p"
  <2> DEFINE s == v108050p_mod(c, f)
             t == v108050p_mod(d, g)
  <2>1. s = [i \in 1 .. 10 |-> s[i]] /\ t = [i \in 1 .. 10 |-> t[i]]
    BY DEF v108050p_mod
  <2>2. /\ s[1] = Start_v108050p /\ t[1] = Start_v108050p
        /\ s[2] = Mux_v108050p(c, f) /\ t[2] = Mux_v108050p(d, g)
        /\ s[3] = Pids_v108050p(c) /\ t[3] = Pids_v108050p(d)
        /\ s[4] = Cyc_v108050p /\ t[4] = Cyc_v108050p
        /\ s[5] = Rate_v108050p(c) /\ t[5] = Rate_v108050p(d)
        /\ s[6] = Vid_v108050p(c) /\ t[6] = Vid_v108050p(d)
        /\ s[7] = Prof_v108050p(c) /\ t[7] = Prof_v108050p(d)
        /\ s[8] = Win_v108050p /\ t[8] = Win_v108050p
        /\ s[9] = Es_v108050p(c) /\ t[9] = Es_v108050p(d)
        /\ s[10] = Fin_v108050p(c) /\ t[10] = Fin_v108050p(d)
    BY DEF v108050p_mod
  <2>3. Script(m, c, f) = s /\ Script(m, d, g) = t /\ SectionCount(m) = 10
    BY <1>7 DEF Script, SectionCount
  <2> HIDE DEF s, t
  <2>a. s[1] = Start("ENC0") /\ t[1] = Start("ENC0")
    BY <2>2 DEF Start_v108050p
  <2> DEFINE o == \h2000
  <2>b. s[2] = Mux(o, c, f) /\ t[2] = Mux(o, d, g)
    BY <2>2 DEF Mux_v108050p
  <2> HIDE DEF o
  <2>4. \E u : s[1] = Opening \o u /\ t[1] = Opening \o u /\ Alike(u, u, v)
    <3>1. PICK u : Start("ENC0") = Opening \o u /\ Alike(u, u, v)
      BY StartRegular
    <3>2. QED
      BY <2>a, <3>1
  <2>5. (\E u, w : s[2] = Reg(MuxRate, v) \o u /\ Alike(u, w, v)) /\ Alike(s[2], t[2], v)
    <3>1. PICK u, w : Mux(o, c, f) = Reg(MuxRate, v) \o u /\ Alike(u, w, v)
      BY <1>c
    <3>2. QED
      BY <1>c, <2>b, <3>1
  <2>6. Alike(s[3], t[3], x)
    <3>1. s[3] = Pids(c) /\ t[3] = Pids(d)
      BY <2>2 DEF Pids_v108050p
    <3>2. QED
      BY <3>1, AlikePids
  <2>7. Alike(s[4], t[4], x)
    <3>1. s[4] = Cyc /\ t[4] = Cyc
      BY <2>2 DEF Cyc_v108050p
    <3>2. QED
      BY <3>1, AlikeCleared
  <2>8. Alike(s[5], t[5], x)
    <3>1. s[5] = Rate(c.ratemode, c) /\ t[5] = Rate(d.ratemode, d)
      BY <2>2 DEF Rate_v108050p
    <3>2. QED
      BY <3>1, AlikeRate
  <2>9. Alike(s[6], t[6], x)
    <3> DEFINE x1 == \h151F
    <3>1. s[6] = Reg(a1, x1) \o Reg(a2, 1) \o Gop(c) /\ t[6] = Reg(a1, x1) \o Reg(a2, 1) \o Gop(d)
      BY <2>2 DEF Vid_v108050p, a1, a2
    <3> HIDE DEF x1
    <3>2. QED
      BY <3>1, <1>a, AlikeVidMore
  <2>10. Alike(s[7], t[7], x)
    <3>1. s[7] = Prof(2, c) /\ t[7] = Prof(2, d)
      BY <2>2 DEF Prof_v108050p
    <3>2. QED
      BY <3>1, AlikeProf
  <2>11. Alike(s[8], t[8], x)
    <3> DEFINE x1 == \h10
               x2 == \h70
    <3>1. s[8] = Win(x1, x2, x2, x1) \o cleared /\ t[8] = Win(x1, x2, x2, x1) \o cleared
      BY <2>2 DEF Win_v108050p, cleared
    <3> HIDE DEF x1, x2
    <3>2. QED
      BY <3>1, <1>b, AlikeWinMore
  <2>12. Alike(s[9], t[9], x)
    <3> DEFINE x1 == \h0132
    <3>1. s[9] = EsVideo(c) \o Reg(a3, x1) /\ t[9] = EsVideo(d) \o Reg(a3, x1)
      BY <2>2 DEF Es_v108050p, a3
    <3> HIDE DEF x1
    <3>2. QED
      BY <3>1, <1>a, AlikeEs
  <2>13. Alike(s[10], t[10], x)
    <3>1. s[10] = EsAudio(c) \o Go("ENC0", c) /\ t[10] = EsAudio(d) \o Go("ENC0", d)
      BY <2>2 DEF Fin_v108050p
    <3>2. QED
      BY <3>1, AlikeFin
  <2>14. \A i \in 3 .. 10 : i = 3 \/ i = 4 \/ i = 5 \/ i = 6 \/ i = 7 \/ i = 8 \/ i = 9 \/ i = 10
    OBVIOUS
  <2>15. \A i \in 3 .. 10 : Alike(s[i], t[i], x)
    BY <2>6, <2>7, <2>8, <2>9, <2>10, <2>11, <2>12, <2>13, <2>14
  <2>16. QED
    BY <2>1, <2>3, <2>4, <2>5, <2>15 DEF Regular, v
<1>8. CASE m = "v108060p"
  <2> DEFINE s == v108060p_mod(c, f)
             t == v108060p_mod(d, g)
  <2>1. s = [i \in 1 .. 10 |-> s[i]] /\ t = [i \in 1 .. 10 |-> t[i]]
    BY DEF v108060p_mod
  <2>2. /\ s[1] = Start_v108060p /\ t[1] = Start_v108060p
        /\ s[2] = Mux_v108060p(c, f) /\ t[2] = Mux_v108060p(d, g)
        /\ s[3] = Pids_v108060p(c) /\ t[3] = Pids_v108060p(d)
        /\ s[4] = Cyc_v108060p /\ t[4] = Cyc_v108060p
        /\ s[5] = Rate_v108060p(c) /\ t[5] = Rate_v108060p(d)
        /\ s[6] = Vid_v108060p(c) /\ t[6] = Vid_v108060p(d)
        /\ s[7] = Prof_v108060p(c) /\ t[7] = Prof_v108060p(d)
        /\ s[8] = Win_v108060p /\ t[8] = Win_v108060p
        /\ s[9] = Es_v108060p(c) /\ t[9] = Es_v108060p(d)
        /\ s[10] = Fin_v108060p(c) /\ t[10] = Fin_v108060p(d)
    BY DEF v108060p_mod
  <2>3. Script(m, c, f) = s /\ Script(m, d, g) = t /\ SectionCount(m) = 10
    BY <1>8 DEF Script, SectionCount
  <2> HIDE DEF s, t
  <2>a. s[1] = Start("ENC0") /\ t[1] = Start("ENC0")
    BY <2>2 DEF Start_v108060p
  <2> DEFINE o == \h2000
  <2>b. s[2] = Mux(o, c, f) /\ t[2] = Mux(o, d, g)
    BY <2>2 DEF Mux_v108060p
  <2> HIDE DEF o
  <2>4. \E u : s[1] = Opening \o u /\ t[1] = Opening \o u /\ Alike(u, u, v)
    <3>1. PICK u : Start("ENC0") = Opening \o u /\ Alike(u, u, v)
      BY StartRegular
    <3>2. QED
      BY <2>a, <3>1
  <2>5. (\E u, w : s[2] = Reg(MuxRate, v) \o u /\ Alike(u, w, v)) /\ Alike(s[2], t[2], v)
    <3>1. PICK u, w : Mux(o, c, f) = Reg(MuxRate, v) \o u /\ Alike(u, w, v)
      BY <1>c
    <3>2. QED
      BY <1>c, <2>b, <3>1
  <2>6. Alike(s[3], t[3], x)
    <3>1. s[3] = Pids(c) /\ t[3] = Pids(d)
      BY <2>2 DEF Pids_v108060p
    <3>2. QED
      BY <3>1, AlikePids
  <2>7. Alike(s[4], t[4], x)
    <3>1. s[4] = Cyc /\ t[4] = Cyc
      BY <2>2 DEF Cyc_v108060p
    <3>2. QED
      BY <3>1, AlikeCleared
  <2>8. Alike(s[5], t[5], x)
    <3>1. s[5] = Rate(c.ratemode, c) /\ t[5] = Rate(d.ratemode, d)
      BY <2>2 DEF Rate_v108060p
    <3>2. QED
      BY <3>1, AlikeRate
  <2>9. Alike(s[6], t[6], x)
    <3> DEFINE x1 == \h151E
    <3>1. s[6] = Reg(a1, x1) \o Reg(a2, 1) \o Gop(c) /\ t[6] = Reg(a1, x1) \o Reg(a2, 1) \o Gop(d)
      BY <2>2 DEF Vid_v108060p, a1, a2
    <3> HIDE DEF x1
    <3>2. QED
      BY <3>1, <1>a, AlikeVidMore
  <2>10. Alike(s[7], t[7], x)
    <3>1. s[7] = Prof(2, c) /\ t[7] = Prof(2, d)
      BY <2>2 DEF Prof_v108060p
    <3>2. QED
      BY <3>1, AlikeProf
  <2>11. Alike(s[8], t[8], x)
    <3> DEFINE x1 == \h10
               x2 == \h70
    <3>1. s[8] = Win(x1, x2, x2, x1) \o cleared /\ t[8] = Win(x1, x2, x2, x1) \o cleared
      BY <2>2 DEF Win_v108060p, cleared
    <3> HIDE DEF x1, x2
    <3>2. QED
      BY <3>1, <1>b, AlikeWinMore
  <2>12. Alike(s[9], t[9], x)
    <3> DEFINE x1 == \h0142
    <3>1. s[9] = EsVideo(c) \o Reg(a3, x1) /\ t[9] = EsVideo(d) \o Reg(a3, x1)
      BY <2>2 DEF Es_v108060p, a3
    <3> HIDE DEF x1
    <3>2. QED
      BY <3>1, <1>a, AlikeEs
  <2>13. Alike(s[10], t[10], x)
    <3>1. s[10] = EsAudio(c) \o Go("ENC0", c) /\ t[10] = EsAudio(d) \o Go("ENC0", d)
      BY <2>2 DEF Fin_v108060p
    <3>2. QED
      BY <3>1, AlikeFin
  <2>14. \A i \in 3 .. 10 : i = 3 \/ i = 4 \/ i = 5 \/ i = 6 \/ i = 7 \/ i = 8 \/ i = 9 \/ i = 10
    OBVIOUS
  <2>15. \A i \in 3 .. 10 : Alike(s[i], t[i], x)
    BY <2>6, <2>7, <2>8, <2>9, <2>10, <2>11, <2>12, <2>13, <2>14
  <2>16. QED
    BY <2>1, <2>3, <2>4, <2>5, <2>15 DEF Regular, v
<1>9. QED
  BY <1>1, <1>2, <1>3, <1>4, <1>5, <1>6, <1>7, <1>8 DEF Formats

-----------------------------------------------------------------------------
(* The rate of the multiplex.                                              *)

\* The commands before a section, those of the section and those after it.
LEMMA FlattenAt ==
  ASSUME NEW C, NEW q \in Seq(Seq(C)), NEW k \in 1 .. Len(q)
  PROVE  LET a == FlattenSeq(SubSeq(q, 1, k - 1))
             b == FlattenSeq(SubSeq(q, k + 1, Len(q)))
         IN  a \in Seq(C) /\ b \in Seq(C) /\ q[k] \in Seq(C) /\ FlattenSeq(q) = a \o (q[k] \o b)
<1> DEFINE n == Len(q)
           q1 == SubSeq(q, 1, k - 1)
           q2 == SubSeq(q, k, n)
           q3 == SubSeq(q, k + 1, n)
           z == q[k]
           one == << z >>
<1>1. n \in Nat /\ \A i \in 1 .. n : q[i] \in Seq(C)
  BY LenProperties, ElementOfSeq
<1>2. q1 \o q2 = q
  <2>1. 1 \in 1 .. n + 1 /\ k - 1 \in 1 - 1 .. n /\ n \in k - 1 .. n /\ (k - 1) + 1 = k
    BY <1>1
  <2>2. SubSeq(q, 1, k - 1) \o SubSeq(q, (k - 1) + 1, n) = SubSeq(q, 1, n)
    BY <2>1, ConcatAdjacentSubSeq
  <2>3. SubSeq(q, 1, n) = q
    BY SubSeqFull
  <2>4. QED
    BY <2>1, <2>2, <2>3
<1>3. q2 = one \o q3
  <2>1. k \in 1 .. n /\ n \in k .. n
    BY <1>1
  <2>2. QED
    BY <2>1, SubSeqRecursiveFirst
<1>4. q1 \in Seq(Seq(C)) /\ q2 \in Seq(Seq(C)) /\ q3 \in Seq(Seq(C)) /\ z \in Seq(C)
  <2>1. ASSUME NEW i \in Int, NEW j \in Int, 1 <= i, j <= n PROVE SubSeq(q, i, j) \in Seq(Seq(C))
    <3>1. \A l \in i .. j : q[l] \in Seq(C)
      BY <1>1, <2>1
    <3>2. QED
      BY <3>1, SubSeqProperties
  <2>2. /\ 1 \in Int /\ k - 1 \in Int /\ 1 <= 1 /\ k - 1 <= n /\ k \in Int /\ n \in Int /\ n <= n
        /\ 1 <= k /\ k + 1 \in Int /\ 1 <= k + 1
    BY <1>1
  <2>3. q1 \in Seq(Seq(C)) /\ q2 \in Seq(Seq(C)) /\ q3 \in Seq(Seq(C))
    BY <2>1, <2>2
  <2>4. QED
    BY <1>1, <2>3
<1>a. k \in 1 .. n
  OBVIOUS
<1> HIDE DEF n, q1, q2, q3, z
<1>5. FlattenSeq(one) = z /\ one \in Seq(Seq(C))
  <2>1. one = Append(<< >>, z) /\ << >> \in Seq(Seq(C)) /\ << >> \in Seq(C)
    BY <1>4
  <2>2. FlattenSeq(<< >>) = << >>
    BY FlattenNothing
  <2>3. FlattenSeq(Append(<< >>, z)) = << >> \o z
    BY <1>4, <2>1, <2>2, FlattenAppend
  <2>4. << >> \o z = z
    BY <1>4, ConcatEmptySeq
  <2>5. QED
    BY <1>4, <2>1, <2>3, <2>4
<1> HIDE DEF one
<1>6. FlattenSeq(q) = FlattenSeq(q1) \o FlattenSeq(q2) /\ FlattenSeq(q1) \in Seq(C)
  BY <1>2, <1>4, FlattenConcat
<1>7. FlattenSeq(q2) = z \o FlattenSeq(q3) /\ FlattenSeq(q3) \in Seq(C)
  BY <1>3, <1>4, <1>5, FlattenConcat
<1>8. QED
  BY <1>4, <1>6, <1>7 DEF n, q1, q3, z

\* A register set after a reset or before keeps its value as long as nothing else is sent to it.
LEMMA RateHeld ==
  ASSUME NEW C, NEW u \in Seq(C), NEW t \in Seq(C), NEW v, NEW w, Alike(t, w, v),
         MuxRate \in DOMAIN Run(Blank, u).reg, Run(Blank, u).reg[MuxRate] = v
  PROVE  MuxRate \in DOMAIN Run(Blank, u \o t).reg /\ Run(Blank, u \o t).reg[MuxRate] = v
<1> DEFINE S(j) == u \o SubSeq(t, 1, j)
           Holds(s) == MuxRate \in DOMAIN Run(Blank, s).reg /\ Run(Blank, s).reg[MuxRate] = v
           N == {j \in Nat : j <= Len(t) =>
                   /\ Holds(S(j))
                   /\ j > 0 /\ t[j].op = "WA" => Run(Blank, S(j)).at = t[j].arg}
<1>1. S(0) = u /\ S(Len(t)) = u \o t /\ Len(t) \in Nat
  BY PrefixEnds
<1>2. 0 \in N
  <2>1. Holds(u) /\ S(0) = u
    BY <1>1
  <2> HIDE DEF Holds, S
  <2>2. Holds(S(0)) /\ ~(0 > 0)
    BY <2>1
  <2>3. QED
    BY <2>2
<1>3. ASSUME NEW j \in Nat, j \in N PROVE j + 1 \in N
  <2> SUFFICES ASSUME j + 1 <= Len(t)
               PROVE  /\ Holds(S(j + 1))
                      /\ j + 1 > 0 /\ t[j + 1].op = "WA" => Run(Blank, S(j + 1)).at = t[j + 1].arg
    OBVIOUS
  <2> DEFINE x == t[j + 1]
             was == Run(Blank, S(j))
             is == Run(Blank, S(j + 1))
  <2>1. S(j) \in Seq(C) /\ x \in C /\ S(j + 1) = Append(S(j), x)
    BY PrefixGrows
  <2>2. Holds(S(j)) /\ (j > 0 /\ t[j].op = "WA" => was.at = t[j].arg)
    <3>1. j <= Len(t)
      BY <1>1
    <3>2. QED
      BY <1>3, <3>1
  <2>3. Fits(t, w, v, j + 1)
    <3>1. j + 1 \in 1 .. Len(t)
      BY <1>1
    <3>2. QED
      BY <3>1 DEF Alike
  <2>4. /\ x.op # "RST"
        /\ x.op = "WD" => j + 1 > 1 /\ t[j].op = "WA" /\ (t[j].arg = MuxRate => x.arg = v)
    <3>1. (j + 1) - 1 = j
      OBVIOUS
    <3>2. QED
      BY <2>3, <3>1 DEF Fits
  <2>5. /\ x.op = "WA" => is.reg = was.reg /\ is.at = x.arg
        /\ x.op = "WD" /\ was.at # 0 =>
             /\ is.at = was.at /\ DOMAIN is.reg = DOMAIN was.reg \cup {was.at}
             /\ is.reg[was.at] = x.arg
             /\ \A a \in DOMAIN was.reg : a # was.at => is.reg[a] = was.reg[a]
        /\ x.op = "WD" /\ was.at = 0 => is.reg = was.reg /\ is.at = was.at
        /\ x.op \notin {"RST", "WA", "WD"} => is.reg = was.reg /\ is.at = was.at
    <3> DEFINE s == S(j)
    <3>1. s \in Seq(C) /\ x \in C /\ S(j + 1) = Append(s, x)
      BY <2>1
    <3> HIDE DEF S, x, s
    <3>2. /\ x.op = "WA" => /\ Run(Blank, Append(s, x)).reg = Run(Blank, s).reg
                            /\ Run(Blank, Append(s, x)).at = x.arg
          /\ x.op = "WD" /\ Run(Blank, s).at # 0 =>
               /\ Run(Blank, Append(s, x)).at = Run(Blank, s).at
               /\ DOMAIN Run(Blank, Append(s, x)).reg = DOMAIN Run(Blank, s).reg \cup {Run(Blank, s).at}
               /\ Run(Blank, Append(s, x)).reg[Run(Blank, s).at] = x.arg
               /\ \A a \in DOMAIN Run(Blank, s).reg : a # Run(Blank, s).at =>
                    Run(Blank, Append(s, x)).reg[a] = Run(Blank, s).reg[a]
          /\ x.op = "WD" /\ Run(Blank, s).at = 0 =>
               /\ Run(Blank, Append(s, x)).reg = Run(Blank, s).reg
               /\ Run(Blank, Append(s, x)).at = Run(Blank, s).at
          /\ x.op \notin {"RST", "WA", "WD"} =>
               /\ Run(Blank, Append(s, x)).reg = Run(Blank, s).reg
               /\ Run(Blank, Append(s, x)).at = Run(Blank, s).at
      BY <3>1, CommandEffect
    <3>3. QED
      BY <3>1, <3>2 DEF s
  <2>6. x.op = "WD" => was.at = t[j].arg
    BY <2>2, <2>4
  <2>7. MuxRate \in DOMAIN was.reg /\ was.reg[MuxRate] = v
    BY <2>2
  <2> HIDE DEF was, is, S, x
  <2>8. MuxRate \in DOMAIN is.reg /\ is.reg[MuxRate] = v
    <3>1. CASE x.op = "WD" /\ was.at # 0
      BY <2>4, <2>5, <2>6, <2>7, <3>1
    <3>2. CASE ~(x.op = "WD" /\ was.at # 0)
      BY <2>4, <2>5, <2>7, <3>2
    <3>3. QED
      BY <3>1, <3>2
  <2>9. QED
    BY <2>5, <2>8 DEF is, x
<1>4. Nat \subseteq N
  <2> HIDE DEF N
  <2>1. QED
    BY <1>2, <1>3, AllNumbers
<1>5. Holds(S(Len(t)))
  <2>1. Len(t) \in N
    <3> HIDE DEF N
    <3>1. QED
      BY <1>1, <1>4
  <2> DEFINE k == Len(t)
  <2>2. k \in Nat /\ k <= k
    BY <1>1
  <2>3. k <= k => Holds(S(k))
    <3> HIDE DEF Holds, S
    <3>1. QED
      BY <2>1
  <2> HIDE DEF Holds, S
  <2>4. QED
    BY <2>2, <2>3
<1>6. QED
  BY <1>1, <1>5

\* The sections of a script are sequences over one set.
LEMMA OneSet ==
  ASSUME NEW n \in Nat, NEW s, s = [i \in 1 .. n |-> s[i]],
         \A i \in 1 .. n : s[i] \in Seq(Range(s[i]))
  PROVE  LET C == UNION {Range(s[i]) : i \in 1 .. n} IN s \in Seq(Seq(C)) /\ Len(s) = n
<1> DEFINE C == UNION {Range(s[i]) : i \in 1 .. n}
<1>1. ASSUME NEW i \in 1 .. n PROVE s[i] \in Seq(C)
  <2> DEFINE R == Range(s[i])
  <2>1. R \subseteq C /\ s[i] \in Seq(R)
    OBVIOUS
  <2> HIDE DEF R, C
  <2>2. QED
    BY <2>1, SeqMonotonic
<1>2. DOMAIN s = 1 .. n
  OBVIOUS
<1> HIDE DEF C
<1>3. s \in [1 .. n -> Seq(C)]
  BY <1>1
<1>4. s \in Seq(Seq(C))
  BY <1>3, SeqDef
<1>5. Len(s) = n
  BY <1>2, <1>4, LenProperties
<1>6. QED
  BY <1>4, <1>5 DEF C

\* Over which set the parts of a sequence are.
LEMMA PartsKind ==
  ASSUME NEW t, t \in Seq(Range(t)), NEW u, u \in Seq(Range(u)), NEW C, t \o u \in Seq(C)
  PROVE  t \in Seq(C) /\ u \in Seq(C)
<1>1. /\ Len(t) \in Nat /\ Len(u) \in Nat /\ Len(t \o u) = Len(t) + Len(u)
      /\ \A i \in 1 .. Len(t) + Len(u) :
           (t \o u)[i] = IF i <= Len(t) THEN t[i] ELSE u[i - Len(t)]
  BY ConcatRange
<1>2. \A i \in 1 .. Len(t \o u) : (t \o u)[i] \in C
  BY ElementOfSeq
<1> DEFINE z == t \o u
           n == Len(t)
           k == Len(u)
<1>3. DOMAIN t = 1 .. n /\ DOMAIN u = 1 .. k
  BY LenProperties
<1>a. t = [i \in 1 .. n |-> t[i]] /\ u = [i \in 1 .. k |-> u[i]]
  <2>1. t \in [1 .. n -> Range(t)] /\ u \in [1 .. k -> Range(u)]
    BY LenProperties
  <2> HIDE DEF n, k
  <2>2. QED
    BY <2>1
<1> HIDE DEF z, n, k
<1>4. n \in Nat /\ k \in Nat /\ \A i \in 1 .. n + k : z[i] = IF i <= n THEN t[i] ELSE u[i - n]
  BY <1>1 DEF z, n, k
<1>5. \A i \in 1 .. n + k : z[i] \in C
  BY <1>1, <1>2 DEF z, n, k
<1>6. ASSUME NEW i \in 1 .. n PROVE t[i] \in C
  <2>1. i \in 1 .. n + k /\ i <= n
    BY <1>4
  <2>2. QED
    BY <1>4, <1>5, <2>1
<1>7. ASSUME NEW i \in 1 .. k PROVE u[i] \in C
  <2>1. n + i \in 1 .. n + k /\ ~(n + i <= n) /\ (n + i) - n = i
    BY <1>4
  <2>2. z[n + i] = u[(n + i) - n] /\ z[n + i] \in C
    BY <1>4, <1>5, <2>1
  <2>3. QED
    BY <2>1, <2>2
<1>8. t \in [1 .. n -> C] /\ u \in [1 .. k -> C]
  BY <1>6, <1>7, <1>a
<1>9. QED
  BY <1>4, <1>8, SeqDef

\* An address and a value set a register.
LEMMA RegSets ==
  ASSUME NEW C, NEW u \in Seq(C), NEW a, NEW v, a # 0, Reg(a, v) \in Seq(C)
  PROVE  /\ u \o Reg(a, v) \in Seq(C)
         /\ a \in DOMAIN Run(Blank, u \o Reg(a, v)).reg /\ Run(Blank, u \o Reg(a, v)).reg[a] = v
<1> DEFINE x == [op |-> "WA", arg |-> a]
           y == [op |-> "WD", arg |-> v]
           t == << x, y >>
           u1 == Append(u, x)
           u2 == Append(u1, y)
<1>0. Reg(a, v) = t
  BY DEF Reg
<1>1. x.op = "WA" /\ x.arg = a /\ y.op = "WD" /\ y.arg = v
  OBVIOUS
<1>2. x \in C /\ y \in C
  <2>1. Len(t) = 2 /\ t[1] = x /\ t[2] = y
    OBVIOUS
  <2>2. t \in Seq(C)
    BY <1>0
  <2> HIDE DEF t, x, y
  <2>3. 1 \in 1 .. Len(t) /\ 2 \in 1 .. Len(t)
    BY <2>1
  <2>4. t[1] \in C /\ t[2] \in C
    BY <2>2, <2>3, ElementOfSeq
  <2>5. QED
    BY <2>1, <2>4
<1>3. u \o t = u2 /\ u1 \in Seq(C) /\ u2 \in Seq(C)
  <2> HIDE DEF x, y
  <2>1. << x >> \in Seq(C) /\ << y >> \in Seq(C)
    BY <1>2
  <2>2. t = << x >> \o << y >>
    <3>1. << x, y >> = Append(<< x >>, y)
      OBVIOUS
    <3>2. Append(<< x >>, y) = << x >> \o << y >>
      BY <1>2, <2>1, AppendIsConcat
    <3>3. QED
      BY <3>1, <3>2
  <2> HIDE DEF t
  <2>3. u1 = u \o << x >> /\ u1 \in Seq(C)
    BY <1>2, AppendIsConcat, AppendProperties
  <2> HIDE DEF u1
  <2>4. u2 = u1 \o << y >> /\ u2 \in Seq(C)
    BY <1>2, <2>3, AppendIsConcat, AppendProperties
  <2>5. (u \o << x >>) \o << y >> = u \o (<< x >> \o << y >>)
    BY <2>1, ConcatAssociative
  <2>6. QED
    BY <2>2, <2>3, <2>4, <2>5
<1> HIDE DEF x, y
<1>4. Run(Blank, u1).at = a
  BY <1>1, <1>2, CommandEffect
<1> HIDE DEF u1
<1>5. a \in DOMAIN Run(Blank, u2).reg /\ Run(Blank, u2).reg[a] = v
  BY <1>1, <1>2, <1>3, <1>4, CommandEffect
<1>6. QED
  BY <1>0, <1>3, <1>5

\* Whatever the settings and the frame rate, a script leaves the rate of the multiplex that it
\* computed: no later section sends anything to that register.
THEOREM ImageRate ==
  ASSUME NEW m \in Formats, NEW c, NEW f
  PROVE  /\ MuxRate \in DOMAIN Image(m, c, f).reg
         /\ Image(m, c, f).reg[MuxRate] = Low16(SysRate(c, f))
<1> DEFINE s == Script(m, c, f)
           v == Low16(SysRate(c, f))
           n == SectionCount(m)
           C == UNION {Range(s[i]) : i \in 1 .. n}
           a == FlattenSeq(SubSeq(s, 1, 1))
           b == FlattenSeq(SubSeq(s, 3, n))
<1>1. Regular(s, s, v, v, n)
  BY ScriptRegular
<1>2. n \in {9, 10}
  BY DEF SectionCount
<1> HIDE DEF n, s, v
<1>3. s = [i \in 1 .. n |-> s[i]] /\ \A i \in 2 .. n : Alike(s[i], s[i], v)
  <2>1. s = [i \in 1 .. n |-> s[i]]
    BY <1>1 DEF Regular
  <2>2. Alike(s[2], s[2], v) /\ \A i \in 3 .. n : Alike(s[i], s[i], v)
    BY <1>1 DEF Regular
  <2>3. \A i \in 2 .. n : i = 2 \/ i \in 3 .. n
    BY <1>2
  <2>4. QED
    BY <2>1, <2>2, <2>3
<1>4. PICK u : s[1] = Opening \o u /\ Alike(u, u, v)
  BY <1>1 DEF Regular
<1>5. PICK u2, w2 : s[2] = Reg(MuxRate, v) \o u2 /\ Alike(u2, w2, v)
  BY <1>1 DEF Regular
<1>6. ASSUME NEW i \in 1 .. n PROVE s[i] \in Seq(Range(s[i]))
  <2>1. CASE i = 1
    <3>1. Opening \in Seq(Range(Opening))
      <4>1. Opening \in Seq({Cmd("CHK"), Cmd("RST")})
        BY DEF Opening
      <4>2. QED
        BY <4>1, SeqOfRange
    <3>2. u \in Seq(Range(u))
      BY <1>4 DEF Alike
    <3>3. s[1] \in Seq(Range(s[1]))
      BY <1>4, <3>1, <3>2, ConcatRange
    <3>4. QED
      BY <2>1, <3>3
  <2>2. CASE i # 1
    <3>1. i \in 2 .. n
      BY <1>2, <2>2
    <3>2. QED
      BY <1>3, <3>1 DEF Alike
  <2>3. QED
    BY <2>1, <2>2
<1>7. s \in Seq(Seq(C)) /\ Len(s) = n
  <2>1. n \in Nat
    BY <1>2
  <2>2. QED
    BY <1>3, <1>6, <2>1, OneSet
<1> HIDE DEF C
<1>8. a \in Seq(C) /\ b \in Seq(C) /\ s[2] \in Seq(C) /\ FlattenSeq(s) = a \o (s[2] \o b)
  <2>1. 2 \in 1 .. Len(s) /\ 2 - 1 = 1 /\ 2 + 1 = 3
    BY <1>2, <1>7
  <2>2. QED
    BY <1>7, <2>1, FlattenAt
<1>9. Alike(b, b, v)
  <2> DEFINE r == SubSeq(s, 3, n)
  <2>1. n \in Int /\ 3 \in Int /\ 3 <= n /\ n - 3 + 1 \in Nat
    BY <1>2
  <2>2. \A i \in 3 .. n : s[i] \in Seq(C)
    <3>1. \A i \in 3 .. n : i \in 1 .. Len(s)
      BY <1>7
    <3>2. QED
      BY <1>7, <3>1, ElementOfSeq
  <2>3. r \in Seq(Seq(C)) /\ Len(r) = n - 3 + 1 /\ \A i \in 1 .. n - 3 + 1 : r[i] = s[3 + i - 1]
    BY <2>1, <2>2, SubSeqProperties
  <2> HIDE DEF r
  <2>4. ASSUME NEW i \in 1 .. Len(r) PROVE Alike(r[i], r[i], v)
    <3>1. 3 + i - 1 \in 2 .. n /\ i \in 1 .. n - 3 + 1
      BY <2>1, <2>3
    <3>2. QED
      BY <1>3, <2>3, <3>1
  <2>5. Alike(FlattenSeq(r), FlattenSeq(r), v)
    BY <2>3, <2>4, AlikeFlat
  <2>6. QED
    BY <2>5 DEF r
<1> DEFINE r1 == Reg(MuxRate, v)
<1>10. Alike(r1, r1, v)
  BY AlikeReg
<1>11. r1 \in Seq(C) /\ u2 \in Seq(C)
  <2>1. r1 \in Seq(Range(r1)) /\ u2 \in Seq(Range(u2))
    BY <1>5, <1>10 DEF Alike
  <2> HIDE DEF r1
  <2>2. r1 \o u2 \in Seq(C)
    BY <1>5, <1>8 DEF r1
  <2>3. QED
    BY <2>1, <2>2, PartsKind
<1> HIDE DEF a, b
<1>12. /\ a \o r1 \in Seq(C) /\ MuxRate \in DOMAIN Run(Blank, a \o r1).reg
       /\ Run(Blank, a \o r1).reg[MuxRate] = v
  <2>1. MuxRate # 0
    BY DEF MuxRate
  <2>2. QED
    BY <1>8, <1>11, <2>1, RegSets
<1> HIDE DEF r1
<1>13. FlattenSeq(s) = (a \o r1) \o (u2 \o b) /\ u2 \o b \in Seq(C)
  <2>1. FlattenSeq(s) = a \o ((r1 \o u2) \o b)
    BY <1>5, <1>8 DEF r1
  <2>2. (r1 \o u2) \o b = r1 \o (u2 \o b)
    BY <1>8, <1>11, ConcatAssociative
  <2>3. u2 \o b \in Seq(C)
    BY <1>8, <1>11, ConcatProperties
  <2> DEFINE z == u2 \o b
  <2>a. z \in Seq(C)
    BY <2>3
  <2> HIDE DEF z
  <2>b. a \in Seq(C) /\ r1 \in Seq(C)
    BY <1>8, <1>11
  <2>4. (a \o r1) \o z = a \o (r1 \o z)
    BY <2>a, <2>b, ConcatAssociative
  <2>5. QED
    BY <2>1, <2>2, <2>3, <2>4 DEF z
<1>14. Alike(u2 \o b, w2 \o b, v)
  BY <1>5, <1>9, AlikeConcat
<1>15. /\ MuxRate \in DOMAIN Run(Blank, (a \o r1) \o (u2 \o b)).reg
       /\ Run(Blank, (a \o r1) \o (u2 \o b)).reg[MuxRate] = v
  BY <1>12, <1>13, <1>14, RateHeld
<1>16. QED
  BY <1>13, <1>15 DEF Image, s, v

-----------------------------------------------------------------------------
(* A reset that is lost.                                                   *)

\* What a chip has been sent of t, and the next of its commands.
LEMMA AlikeNext ==
  ASSUME NEW C, NEW u \in Seq(C), NEW t \in Seq(C), NEW v, NEW w, Alike(t, w, v),
         NEW j \in Nat, j + 1 <= Len(t)
  PROVE  LET was == Run(Blank, u \o SubSeq(t, 1, j))
             is == Run(Blank, u \o SubSeq(t, 1, j + 1))
             x == t[j + 1]
         IN  /\ x.op # "RST" /\ x.op = w[j + 1].op
             /\ x.op = "WA" => is.reg = was.reg /\ is.at = x.arg /\ x.arg = w[j + 1].arg
             /\ x.op = "WD" => /\ j > 0 /\ t[j].op = "WA"
                               /\ was.at # 0 =>
                                    /\ is.at = was.at /\ DOMAIN is.reg = DOMAIN was.reg \cup {was.at}
                                    /\ is.reg[was.at] = x.arg
                                    /\ \A a \in DOMAIN was.reg : a # was.at => is.reg[a] = was.reg[a]
                               /\ was.at = 0 => is.reg = was.reg /\ is.at = was.at
             /\ x.op \notin {"WA", "WD"} => is.reg = was.reg /\ is.at = was.at
<1> DEFINE s == u \o SubSeq(t, 1, j)
           x == t[j + 1]
           is == u \o SubSeq(t, 1, j + 1)
<1>1. s \in Seq(C) /\ x \in C /\ is = Append(s, x)
  BY PrefixGrows
<1>2. Len(t) \in Nat /\ j + 1 \in 1 .. Len(t) /\ (j + 1) - 1 = j
  <2>1. Len(t) \in Nat
    BY LenProperties
  <2>2. QED
    BY <2>1
<1>3. Fits(t, w, v, j + 1)
  BY <1>2 DEF Alike
<1>4. /\ x.op = w[j + 1].op /\ x.op # "RST"
      /\ x.op = "WA" => x.arg = w[j + 1].arg
      /\ x.op = "WD" => j + 1 > 1 /\ t[j].op = "WA"
  BY <1>2, <1>3 DEF Fits
<1>5. j + 1 > 1 => j > 0
  OBVIOUS
<1> HIDE DEF s, x, is
<1>6. /\ x.op = "WA" => Run(Blank, is).reg = Run(Blank, s).reg /\ Run(Blank, is).at = x.arg
      /\ x.op = "WD" /\ Run(Blank, s).at # 0 =>
           /\ Run(Blank, is).at = Run(Blank, s).at
           /\ DOMAIN Run(Blank, is).reg = DOMAIN Run(Blank, s).reg \cup {Run(Blank, s).at}
           /\ Run(Blank, is).reg[Run(Blank, s).at] = x.arg
           /\ \A a \in DOMAIN Run(Blank, s).reg : a # Run(Blank, s).at =>
                Run(Blank, is).reg[a] = Run(Blank, s).reg[a]
      /\ x.op = "WD" /\ Run(Blank, s).at = 0 =>
           Run(Blank, is).reg = Run(Blank, s).reg /\ Run(Blank, is).at = Run(Blank, s).at
      /\ x.op \notin {"RST", "WA", "WD"} =>
           Run(Blank, is).reg = Run(Blank, s).reg /\ Run(Blank, is).at = Run(Blank, s).at
  BY <1>1, CommandEffect
<1>7. QED
  BY <1>4, <1>5, <1>6 DEF s, x, is

\* One chip has at least the registers of the other, with the same values, and no more than
\* those and D.
Over(D, u, w) ==
  LET a == Run(Blank, u).reg
      b == Run(Blank, w).reg
  IN DOMAIN b \subseteq DOMAIN a /\ (\A x \in DOMAIN b : a[x] = b[x])
     /\ DOMAIN a \subseteq DOMAIN b \cup D

\* That stays so whatever both are sent, as long as every value has its address.
LEMMA OverSent ==
  ASSUME NEW C, NEW u \in Seq(C), NEW w \in Seq(C), NEW t \in Seq(C), NEW D, Over(D, u, w),
         NEW v, NEW z, Alike(t, z, v)
  PROVE  Over(D, u \o t, w \o t)
<1> DEFINE S(j) == u \o SubSeq(t, 1, j)
           T(j) == w \o SubSeq(t, 1, j)
           Good(j) == /\ Over(D, S(j), T(j))
                      /\ j > 0 /\ t[j].op = "WA" =>
                           Run(Blank, S(j)).at = t[j].arg /\ Run(Blank, T(j)).at = t[j].arg
           N == {j \in Nat : j <= Len(t) => Good(j)}
<1>1. S(0) = u /\ S(Len(t)) = u \o t /\ Len(t) \in Nat /\ T(0) = w /\ T(Len(t)) = w \o t
  BY PrefixEnds
<1>2. 0 \in N
  <2>1. ~(0 > 0)
    OBVIOUS
  <2> HIDE DEF S, T
  <2>2. Good(0)
    BY <1>1, <2>1
  <2>3. QED
    BY <2>2
<1>3. ASSUME NEW j \in Nat, j \in N PROVE j + 1 \in N
  <2> SUFFICES ASSUME j + 1 <= Len(t) PROVE Good(j + 1)
    OBVIOUS
  <2> DEFINE a == Run(Blank, S(j))
             a2 == Run(Blank, S(j + 1))
             b == Run(Blank, T(j))
             b2 == Run(Blank, T(j + 1))
             x == t[j + 1]
  <2>1. Good(j)
    <3>1. j <= Len(t)
      BY <1>1
    <3>2. QED
      BY <1>3, <3>1
  <2>2. /\ x.op # "RST"
        /\ x.op = "WA" => a2.reg = a.reg /\ a2.at = x.arg
        /\ x.op = "WD" => /\ j > 0 /\ t[j].op = "WA"
                          /\ a.at # 0 =>
                               /\ DOMAIN a2.reg = DOMAIN a.reg \cup {a.at}
                               /\ a2.reg[a.at] = x.arg
                               /\ \A r \in DOMAIN a.reg : r # a.at => a2.reg[r] = a.reg[r]
                          /\ a.at = 0 => a2.reg = a.reg
        /\ x.op \notin {"WA", "WD"} => a2.reg = a.reg
    BY AlikeNext
  <2>3. /\ x.op = "WA" => b2.reg = b.reg /\ b2.at = x.arg
        /\ x.op = "WD" => /\ b.at # 0 =>
                               /\ DOMAIN b2.reg = DOMAIN b.reg \cup {b.at}
                               /\ b2.reg[b.at] = x.arg
                               /\ \A r \in DOMAIN b.reg : r # b.at => b2.reg[r] = b.reg[r]
                          /\ b.at = 0 => b2.reg = b.reg
        /\ x.op \notin {"WA", "WD"} => b2.reg = b.reg
    BY AlikeNext
  <2>4. DOMAIN b.reg \subseteq DOMAIN a.reg /\ (\A r \in DOMAIN b.reg : a.reg[r] = b.reg[r])
        /\ DOMAIN a.reg \subseteq DOMAIN b.reg \cup D
    BY <2>1 DEF Over
  <2>5. x.op = "WD" => a.at = b.at
    BY <2>1, <2>2
  <2> HIDE DEF a, a2, b, b2, x
  <2>6. DOMAIN b2.reg \subseteq DOMAIN a2.reg /\ (\A r \in DOMAIN b2.reg : a2.reg[r] = b2.reg[r])
        /\ DOMAIN a2.reg \subseteq DOMAIN b2.reg \cup D
    <3>1. CASE x.op = "WD" /\ a.at # 0
      BY <2>2, <2>3, <2>4, <2>5, <3>1
    <3>2. CASE ~(x.op = "WD" /\ a.at # 0)
      BY <2>2, <2>3, <2>4, <2>5, <3>2
    <3>3. QED
      BY <3>1, <3>2
  <2>7. Over(D, S(j + 1), T(j + 1))
    BY <2>6 DEF Over, a2, b2
  <2>8. x.op = "WA" => a2.at = x.arg /\ b2.at = x.arg
    BY <2>2, <2>3
  <2> HIDE DEF S, T
  <2>9. QED
    BY <2>7, <2>8 DEF x, a2, b2
<1>4. Nat \subseteq N
  <2> HIDE DEF N
  <2>1. QED
    BY <1>2, <1>3, AllNumbers
<1>5. Over(D, S(Len(t)), T(Len(t)))
  <2> DEFINE k == Len(t)
  <2>1. k \in N
    <3> HIDE DEF N
    <3>1. QED
      BY <1>1, <1>4
  <2>2. k <= k => Good(k)
    <3> HIDE DEF Good
    <3>1. QED
      BY <2>1
  <2>3. k \in Nat /\ k <= k
    BY <1>1
  <2> HIDE DEF S, T, k
  <2>4. Over(D, S(k), T(k))
    BY <2>2, <2>3
  <2>5. QED
    BY <2>4 DEF k
<1>6. QED
  BY <1>1, <1>5

\* How a command sequence is cut does not matter.
LEMMA Regroup ==
  ASSUME NEW C, NEW t \in Seq(C), NEW u \in Seq(C), NEW w \in Seq(C)
  PROVE  (t \o u) \o w = t \o (u \o w)
  BY ConcatAssociative

\* A register set once stays set, whatever follows the rule that every value has its address.
LEMMA SetStays ==
  ASSUME NEW C, NEW u \in Seq(C), NEW t \in Seq(C), NEW v, NEW z, Alike(t, z, v)
  PROVE  DOMAIN Run(Blank, u).reg \subseteq DOMAIN Run(Blank, u \o t).reg
<1> DEFINE S(j) == u \o SubSeq(t, 1, j)
           Good(j) == DOMAIN Run(Blank, u).reg \subseteq DOMAIN Run(Blank, S(j)).reg
           N == {j \in Nat : j <= Len(t) => Good(j)}
<1>1. S(0) = u /\ S(Len(t)) = u \o t /\ Len(t) \in Nat
  BY PrefixEnds
<1>2. 0 \in N
  <2> HIDE DEF S
  <2>1. QED
    BY <1>1
<1>3. ASSUME NEW j \in Nat, j \in N PROVE j + 1 \in N
  <2> SUFFICES ASSUME j + 1 <= Len(t) PROVE Good(j + 1)
    OBVIOUS
  <2> DEFINE a == Run(Blank, S(j))
             a2 == Run(Blank, S(j + 1))
             x == t[j + 1]
  <2>1. Good(j)
    <3>1. j <= Len(t)
      BY <1>1
    <3>2. QED
      BY <1>3, <3>1
  <2>2. /\ x.op # "RST"
        /\ x.op = "WA" => a2.reg = a.reg
        /\ x.op = "WD" => /\ a.at # 0 => DOMAIN a2.reg = DOMAIN a.reg \cup {a.at}
                          /\ a.at = 0 => a2.reg = a.reg
        /\ x.op \notin {"WA", "WD"} => a2.reg = a.reg
    BY AlikeNext
  <2> HIDE DEF a2, x
  <2>3. DOMAIN a.reg \subseteq DOMAIN a2.reg
    BY <2>2
  <2>4. QED
    BY <2>1, <2>3 DEF a2
<1>4. Nat \subseteq N
  <2> HIDE DEF N
  <2>1. QED
    BY <1>2, <1>3, AllNumbers
<1>5. Good(Len(t))
  <2> DEFINE k == Len(t)
  <2>1. k \in N
    <3> HIDE DEF N
    <3>1. QED
      BY <1>1, <1>4
  <2>2. k <= k => Good(k)
    <3> HIDE DEF Good
    <3>1. QED
      BY <2>1
  <2>3. k \in Nat /\ k <= k
    BY <1>1
  <2> HIDE DEF S, Good, k
  <2>4. Good(k)
    BY <2>2, <2>3
  <2>5. QED
    BY <2>4 DEF k
<1>6. QED
  BY <1>1, <1>5

\* Which registers are set does not depend on the values.
LEMMA SameDomain ==
  ASSUME NEW C, NEW u \in Seq(C), NEW t \in Seq(C), NEW w \in Seq(C), NEW v, NEW x,
         Alike(t, w, v), Alike(w, t, x)
  PROVE  DOMAIN Run(Blank, u \o t).reg = DOMAIN Run(Blank, u \o w).reg
<1> DEFINE S(j) == u \o SubSeq(t, 1, j)
           T(j) == u \o SubSeq(w, 1, j)
           Good(j) == /\ DOMAIN Run(Blank, S(j)).reg = DOMAIN Run(Blank, T(j)).reg
                      /\ Run(Blank, S(j)).at = Run(Blank, T(j)).at
           N == {j \in Nat : j <= Len(t) => Good(j)}
<1>1. S(0) = u /\ S(Len(t)) = u \o t /\ Len(t) \in Nat /\ T(0) = u /\ T(Len(w)) = u \o w
  BY PrefixEnds
<1>0. Len(w) = Len(t)
  BY DEF Alike
<1>2. 0 \in N
  <2> HIDE DEF S, T
  <2>2. Good(0)
    BY <1>1
  <2>3. QED
    BY <2>2
<1>3. ASSUME NEW j \in Nat, j \in N PROVE j + 1 \in N
  <2> SUFFICES ASSUME j + 1 <= Len(t) PROVE Good(j + 1)
    OBVIOUS
  <2> DEFINE a == Run(Blank, S(j))
             a2 == Run(Blank, S(j + 1))
             b == Run(Blank, T(j))
             b2 == Run(Blank, T(j + 1))
             y == t[j + 1]
             z == w[j + 1]
  <2>1. Good(j)
    <3>1. j <= Len(t)
      BY <1>1
    <3>2. QED
      BY <1>3, <3>1
  <2>2. /\ y.op # "RST" /\ y.op = z.op
        /\ y.op = "WA" => a2.reg = a.reg /\ a2.at = y.arg /\ y.arg = z.arg
        /\ y.op = "WD" => /\ a.at # 0 =>
                               /\ a2.at = a.at
                               /\ DOMAIN a2.reg = DOMAIN a.reg \cup {a.at}
                          /\ a.at = 0 => a2.reg = a.reg /\ a2.at = a.at
        /\ y.op \notin {"WA", "WD"} => a2.reg = a.reg /\ a2.at = a.at
    <3>1. j + 1 <= Len(t)
      OBVIOUS
    <3> HIDE DEF Good, N
    <3>2. /\ y.op # "RST" /\ y.op = z.op
          /\ y.op = "WA" => a2.reg = a.reg /\ a2.at = y.arg /\ y.arg = z.arg
          /\ y.op = "WD" => /\ j > 0 /\ t[j].op = "WA"
                            /\ a.at # 0 =>
                                 /\ a2.at = a.at
                                 /\ DOMAIN a2.reg = DOMAIN a.reg \cup {a.at}
                                 /\ a2.reg[a.at] = y.arg
                                 /\ \A r \in DOMAIN a.reg : r # a.at => a2.reg[r] = a.reg[r]
                            /\ a.at = 0 => a2.reg = a.reg /\ a2.at = a.at
          /\ y.op \notin {"WA", "WD"} => a2.reg = a.reg /\ a2.at = a.at
      BY <3>1, AlikeNext
    <3>3. QED
      BY <3>2
  <2>3. /\ z.op = "WA" => b2.reg = b.reg /\ b2.at = z.arg
        /\ z.op = "WD" => /\ b.at # 0 =>
                               b2.at = b.at /\ DOMAIN b2.reg = DOMAIN b.reg \cup {b.at}
                          /\ b.at = 0 => b2.reg = b.reg /\ b2.at = b.at
        /\ z.op \notin {"WA", "WD"} => b2.reg = b.reg /\ b2.at = b.at
    BY <1>0, AlikeNext
  <2>4. DOMAIN a.reg = DOMAIN b.reg /\ a.at = b.at
    BY <2>1
  <2> HIDE DEF a, a2, b, b2, y, z
  <2>5. DOMAIN a2.reg = DOMAIN b2.reg /\ a2.at = b2.at
    BY <2>2, <2>3, <2>4
  <2>6. QED
    BY <2>5 DEF a2, b2
<1>4. Nat \subseteq N
  <2> HIDE DEF N
  <2>1. QED
    BY <1>2, <1>3, AllNumbers
<1>5. Good(Len(t))
  <2> DEFINE k == Len(t)
  <2>1. k \in N
    <3> HIDE DEF N
    <3>1. QED
      BY <1>1, <1>4
  <2>2. k <= k => Good(k)
    <3> HIDE DEF Good
    <3>1. QED
      BY <2>1
  <2>3. k \in Nat /\ k <= k
    BY <1>1
  <2> HIDE DEF S, T, Good, k
  <2>4. Good(k)
    BY <2>2, <2>3
  <2>5. QED
    BY <2>4 DEF k
<1>6. QED
  BY <1>0, <1>1, <1>5

\* What a chip holds after the first two commands of a script, and without the second.
LEMMA Opened ==
  ASSUME NEW C, Opening \in Seq(C), NEW p \in Seq(C)
  PROVE  /\ << Cmd("CHK") >> \in Seq(C) /\ p \o << Cmd("CHK") >> \in Seq(C)
         /\ Run(Blank, p \o << Cmd("CHK") >>).reg = Run(Blank, p).reg
         /\ DOMAIN Run(Blank, Opening).reg = {}
<1> DEFINE k == Cmd("CHK")
           r == Cmd("RST")
<1>1. k \in C /\ r \in C
  <2>1. Opening[1] = k /\ Opening[2] = r /\ Len(Opening) = 2
    BY DEF Opening
  <2> DEFINE o == Opening
  <2> HIDE DEF o, k, r
  <2>2. 1 \in 1 .. Len(o) /\ 2 \in 1 .. Len(o) /\ o \in Seq(C)
    BY <2>1 DEF o
  <2>3. o[1] \in C /\ o[2] \in C
    BY <2>2, ElementOfSeq
  <2>4. QED
    BY <2>1, <2>3 DEF o
<1>2. k.op = "CHK" /\ r.op = "RST"
  BY DEF Cmd
<1> HIDE DEF k, r
<1>3. p \o << k >> = Append(p, k) /\ Append(p, k) \in Seq(C)
  BY <1>1
<1>4. Run(Blank, Append(p, k)).reg = Run(Blank, p).reg
  BY <1>1, <1>2, CommandEffect
<1>5. << k >> \in Seq(C) /\ Opening = Append(<< k >>, r)
  BY <1>1 DEF Opening, k, r
<1>6. DOMAIN Run(Blank, Append(<< k >>, r)).reg = {}
  BY <1>1, <1>2, <1>5, CommandEffect
<1>7. QED
  BY <1>3, <1>4, <1>5, <1>6 DEF k

\* A chip that was just reset, or that has been sent the beginning of a script that goes on
\* with b after its first two commands.
Started(C, p, b) ==
  \/ p = << >>
  \/ \E q, first, rest, x, y, z :
       /\ p = Opening \o q /\ b = first \o rest
       /\ q \in Seq(C) /\ first \in Seq(C) /\ rest \in Seq(C)
       /\ Alike(q, first, x) /\ Alike(first, q, y) /\ Alike(rest, z, y)

\* A lost reset leaves no trace, on a chip that was just reset or that holds the beginning of
\* an earlier script of the same format: all it held is set again.
LEMMA LostReset ==
  ASSUME NEW C, Opening \in Seq(C), NEW p \in Seq(C), NEW b \in Seq(C), NEW v, NEW z,
         Alike(b, z, v),
         Started(C, p, b)
  PROVE  Apart(Run(Blank, p \o (<< Cmd("CHK") >> \o b)).reg,
               Run(Blank, Opening \o b).reg) = {}
<1> DEFINE k == << Cmd("CHK") >>
           D == DOMAIN Run(Blank, p).reg
           a2 == Run(Blank, p \o (k \o b)).reg
           b2r == Run(Blank, Opening \o b).reg
<1>1. /\ k \in Seq(C) /\ p \o k \in Seq(C)
      /\ Run(Blank, p \o k).reg = Run(Blank, p).reg
      /\ DOMAIN Run(Blank, Opening).reg = {}
  BY Opened
<1> HIDE DEF k
<1>2. Over(D, p \o k, Opening)
  BY <1>1 DEF Over
<1>3. Over(D, (p \o k) \o b, Opening \o b)
  BY <1>1, <1>2, OverSent
<1>4. (p \o k) \o b = p \o (k \o b)
  BY <1>1, Regroup
<1>5. DOMAIN b2r \subseteq DOMAIN a2 /\ (\A r \in DOMAIN b2r : a2[r] = b2r[r])
      /\ DOMAIN a2 \subseteq DOMAIN b2r \cup D
  BY <1>3, <1>4 DEF Over
<1>6. D \subseteq DOMAIN b2r
  <2>1. CASE p = << >>
    <3>1. DOMAIN Run(Blank, << >>).reg = {}
      <4>1. Data(<< >>) = {}
        BY DEF Data
      <4>2. QED
        <5>1. Run(Blank, << >>).reg = [a \in {AddressAt(<< >>, i) : i \in Data(<< >>)} |->
                                       << >>[Latest(Writing(<< >>, a))].arg]
          BY RunIs
        <5>2. {AddressAt(<< >>, i) : i \in Data(<< >>)} = {}
          BY <4>1
        <5>3. QED
          BY <5>1, <5>2
    <3>2. QED
      BY <2>1, <3>1
  <2>2. CASE p # << >>
    <3>1. PICK q, first, rest, x, y, z2 :
            /\ p = Opening \o q /\ b = first \o rest
            /\ q \in Seq(C) /\ first \in Seq(C) /\ rest \in Seq(C)
            /\ Alike(q, first, x) /\ Alike(first, q, y) /\ Alike(rest, z2, y)
      BY <2>2 DEF Started
    <3>2. DOMAIN Run(Blank, Opening \o q).reg = DOMAIN Run(Blank, Opening \o first).reg
      BY <3>1, SameDomain
    <3>3. Opening \o first \in Seq(C)
      BY <3>1, ConcatProperties
    <3>4. DOMAIN Run(Blank, Opening \o first).reg \subseteq DOMAIN Run(Blank, (Opening \o first) \o rest).reg
      BY <3>1, <3>3, SetStays
    <3>5. (Opening \o first) \o rest = Opening \o b
      BY <3>1, Regroup
    <3>6. QED
      BY <3>1, <3>2, <3>4, <3>5
  <2>3. QED
    BY <2>1, <2>2
<1> HIDE DEF D, a2, b2r
<1>7. Apart(a2, b2r) = {}
  BY <1>5, <1>6 DEF Apart
<1>8. QED
  BY <1>7 DEF a2, b2r, k

-----------------------------------------------------------------------------
(* A command that is lost.                                                 *)

\* The sections of a script are sequences of commands.
LEMMA ScriptKind ==
  ASSUME NEW m \in Formats, NEW c, NEW f
  PROVE  LET s == Script(m, c, f)
             n == SectionCount(m)
         IN  n \in {9, 10} /\ s = [i \in 1 .. n |-> s[i]] /\ \A i \in 1 .. n : s[i] \in Seq(Range(s[i]))
<1> DEFINE s == Script(m, c, f)
           v == Low16(SysRate(c, f))
           n == SectionCount(m)
<1>1. Regular(s, s, v, v, n)
  BY ScriptRegular
<1>2. n \in {9, 10}
  BY DEF SectionCount
<1> HIDE DEF n, s, v
<1>3. s = [i \in 1 .. n |-> s[i]]
  BY <1>1 DEF Regular
<1>4. PICK u : s[1] = Opening \o u /\ Alike(u, u, v)
  BY <1>1 DEF Regular
<1>5. ASSUME NEW i \in 1 .. n PROVE s[i] \in Seq(Range(s[i]))
  <2>1. CASE i = 1
    <3>1. Opening \in Seq({Cmd("CHK"), Cmd("RST")})
      BY DEF Opening
    <3>2. Opening \in Seq(Range(Opening))
      BY <3>1, SeqOfRange
    <3>3. u \in Seq(Range(u))
      BY <1>4 DEF Alike
    <3>4. s[1] \in Seq(Range(s[1]))
      BY <1>4, <3>2, <3>3, ConcatRange
    <3>5. QED
      BY <2>1, <3>4
  <2>2. CASE i # 1
    <3>1. i = 2 \/ i \in 3 .. n
      BY <1>2, <2>2
    <3>2. Alike(s[i], s[i], v)
      BY <1>1, <3>1 DEF Regular
    <3>3. QED
      BY <3>2 DEF Alike
  <2>3. QED
    BY <2>1, <2>2
<1>6. QED
  BY <1>2, <1>3, <1>5 DEF n, s

\* The second command of a script is its only reset.
LEMMA OnlyReset ==
  ASSUME NEW m \in Formats, NEW c, NEW f, NEW j \in 1 .. SectionCount(m),
         NEW l \in 1 .. Len(Script(m, c, f)[j]), j # 1 \/ l # 2
  PROVE  Script(m, c, f)[j][l].op # "RST"
<1> DEFINE s == Script(m, c, f)
           v == Low16(SysRate(c, f))
           n == SectionCount(m)
<1>1. Regular(s, s, v, v, n)
  BY ScriptRegular
<1>2. n \in {9, 10}
  BY DEF SectionCount
<1>a. j \in 1 .. n /\ l \in 1 .. Len(s[j])
  OBVIOUS
<1> HIDE DEF n, s, v
<1>3. CASE j = 1
  <2>1. PICK u : s[1] = Opening \o u /\ Alike(u, u, v)
    BY <1>1 DEF Regular
  <2>2. Opening \in Seq(Range(Opening)) /\ Len(Opening) = 2 /\ Opening[1] = Cmd("CHK")
    <3>1. Opening \in Seq({Cmd("CHK"), Cmd("RST")})
      BY DEF Opening
    <3>2. Opening \in Seq(Range(Opening))
      BY <3>1, SeqOfRange
    <3>3. QED
      BY <3>2 DEF Opening
  <2>3. u \in Seq(Range(u)) /\ \A i \in 1 .. Len(u) : u[i].op # "RST"
    BY <2>1 DEF Alike, Fits
  <2> DEFINE k == Len(u)
  <2>4. /\ k \in Nat /\ Len(s[1]) = 2 + k
        /\ \A i \in 1 .. 2 + k : s[1][i] = IF i <= 2 THEN Opening[i] ELSE u[i - 2]
    <3>1. /\ Len(Opening) \in Nat /\ Len(u) \in Nat /\ Len(Opening \o u) = Len(Opening) + Len(u)
          /\ \A i \in 1 .. Len(Opening) + Len(u) :
               (Opening \o u)[i] = IF i <= Len(Opening) THEN Opening[i] ELSE u[i - Len(Opening)]
      BY <2>2, <2>3, ConcatRange
    <3>2. QED
      BY <2>1, <2>2, <3>1
  <2>5. \A i \in 1 .. k : u[i].op # "RST"
    BY <2>3
  <2> HIDE DEF k
  <2>6. CASE l = 1
    <3>1. s[1][1] = Cmd("CHK")
      BY <2>2, <2>4
    <3>2. QED
      BY <1>3, <2>6, <3>1 DEF Cmd, s
  <2>7. CASE l # 1
    <3>1. l \in 1 .. 2 + k /\ ~(l <= 2) /\ l - 2 \in 1 .. k
      BY <1>a, <1>3, <2>4, <2>7
    <3>2. s[1][l] = u[l - 2]
      BY <2>4, <3>1
    <3>3. QED
      BY <1>3, <2>5, <3>1, <3>2 DEF s
  <2>8. QED
    BY <2>6, <2>7
<1>4. CASE j # 1
  <2>1. j = 2 \/ j \in 3 .. n
    BY <1>2, <1>4, <1>a
  <2>2. Alike(s[j], s[j], v)
    BY <1>1, <2>1 DEF Regular
  <2>3. QED
    BY <1>a, <2>2 DEF Alike, Fits, s
<1>5. QED
  BY <1>3, <1>4

\* A sequence around one of its elements, and without it.
LEMMA Around ==
  ASSUME NEW C, NEW z \in Seq(C), NEW l \in 1 .. Len(z)
  PROVE  LET y == SubSeq(z, 1, l - 1)
             w == SubSeq(z, l + 1, Len(z))
         IN  /\ y \in Seq(C) /\ w \in Seq(C) /\ z[l] \in C
             /\ z = Append(y, z[l]) \o w /\ RemoveAt(z, l) = y \o w
<1> DEFINE n == Len(z)
           y == SubSeq(z, 1, l - 1)
           w == SubSeq(z, l + 1, n)
<1>1. n \in Nat /\ l \in 1 .. n /\ z[l] \in C
  BY LenProperties, ElementOfSeq
<1>2. y \in Seq(C) /\ w \in Seq(C)
  <2>1. \A i \in 1 .. n : z[i] \in C
    BY ElementOfSeq
  <2>2. ASSUME NEW i \in Int, NEW j \in Int, 1 <= i, j <= n PROVE SubSeq(z, i, j) \in Seq(C)
    <3>1. \A h \in i .. j : h \in 1 .. n
      BY <1>1, <2>2
    <3>2. \A h \in i .. j : z[h] \in C
      BY <2>1, <3>1
    <3>3. QED
      BY <3>2, SubSeqProperties
  <2>3. 1 \in Int /\ l - 1 \in Int /\ l + 1 \in Int /\ n \in Int /\ 1 <= 1 /\ l - 1 <= n /\ 1 <= l + 1 /\ n <= n
    BY <1>1
  <2>4. QED
    BY <2>2, <2>3
<1>3. SubSeq(z, 1, l) = Append(y, z[l])
  <2>1. 1 \in 1 .. n /\ l \in 1 .. n
    BY <1>1
  <2>2. SubSeq(z, 1, l) = SubSeq(z, 1, l - 1) \o << z[l] >>
    BY <2>1, SubSeqRecursiveSecond
  <2>3. Append(y, z[l]) = y \o << z[l] >>
    BY <1>1, <1>2, AppendIsConcat
  <2>4. QED
    BY <2>2, <2>3
<1>4. z = SubSeq(z, 1, l) \o w
  <2>1. 1 \in 1 .. n + 1 /\ l \in 1 - 1 .. n /\ n \in l .. n
    BY <1>1
  <2>2. SubSeq(z, 1, l) \o SubSeq(z, l + 1, n) = SubSeq(z, 1, n)
    BY <2>1, ConcatAdjacentSubSeq
  <2>3. SubSeq(z, 1, n) = z
    BY SubSeqFull
  <2>4. QED
    BY <2>2, <2>3
<1>5. RemoveAt(z, l) = y \o w
  BY DEF RemoveAt
<1>6. QED
  BY <1>1, <1>2, <1>3, <1>4, <1>5

\* Sequences that are the same behind the same beginning are the same.
LEMMA SameRest ==
  ASSUME NEW t, t \in Seq(Range(t)), NEW u, u \in Seq(Range(u)), NEW w, w \in Seq(Range(w)),
         t \o u = t \o w
  PROVE  u = w
<1> DEFINE n == Len(t)
           k == Len(u)
           h == Len(w)
           z == t \o u
<1>1. /\ n \in Nat /\ k \in Nat /\ Len(z) = n + k
      /\ \A i \in 1 .. n + k : z[i] = IF i <= n THEN t[i] ELSE u[i - n]
  BY ConcatRange
<1>2. /\ h \in Nat /\ Len(z) = n + h
      /\ \A i \in 1 .. n + h : z[i] = IF i <= n THEN t[i] ELSE w[i - n]
  BY ConcatRange
<1>3. u = [i \in 1 .. k |-> u[i]] /\ w = [i \in 1 .. h |-> w[i]]
  <2>1. u \in [1 .. k -> Range(u)] /\ w \in [1 .. h -> Range(w)]
    BY LenProperties
  <2> HIDE DEF k, h
  <2>2. QED
    BY <2>1
<1> HIDE DEF n, k, h, z
<1>4. k = h
  BY <1>1, <1>2
<1>5. ASSUME NEW i \in 1 .. k PROVE u[i] = w[i]
  <2>1. n + i \in 1 .. n + k /\ ~(n + i <= n) /\ (n + i) - n = i
    BY <1>1
  <2>2. z[n + i] = u[(n + i) - n]
    BY <1>1, <2>1
  <2>3. z[n + i] = w[(n + i) - n]
    BY <1>2, <1>4, <2>1
  <2>4. QED
    BY <2>1, <2>2, <2>3
<1>6. QED
  BY <1>3, <1>4, <1>5

\* Sections that are the same up to a place, or from one on, make the same part of a sequence.
LEMMA SamePart ==
  ASSUME NEW C, NEW q \in Seq(C), NEW s \in Seq(C), NEW i \in Nat \ {0}, NEW j \in Nat,
         j <= Len(q), j <= Len(s), \A h \in i .. j : q[h] = s[h]
  PROVE  SubSeq(q, i, j) = SubSeq(s, i, j)
<1> DEFINE x == SubSeq(q, i, j)
           y == SubSeq(s, i, j)
           n == IF i <= j THEN j - i + 1 ELSE 0
<1>1. Len(q) \in Nat /\ Len(s) \in Nat
  BY LenProperties
<1>2. \A h \in i .. j : q[h] \in C /\ s[h] \in C
  <2>1. \A h \in i .. j : h \in 1 .. Len(q) /\ h \in 1 .. Len(s)
    BY <1>1
  <2>2. QED
    BY <2>1, ElementOfSeq
<1>3. /\ x \in Seq(C) /\ Len(x) = n /\ \A h \in 1 .. j - i + 1 : x[h] = q[i + h - 1]
      /\ y \in Seq(C) /\ Len(y) = n /\ \A h \in 1 .. j - i + 1 : y[h] = s[i + h - 1]
  BY <1>2, SubSeqProperties
<1>4. x = [h \in 1 .. n |-> x[h]] /\ y = [h \in 1 .. n |-> y[h]]
  <2>1. x \in [1 .. Len(x) -> C] /\ y \in [1 .. Len(y) -> C]
    BY <1>3, LenProperties
  <2> HIDE DEF x, y, n
  <2>2. QED
    BY <1>3, <2>1
<1> HIDE DEF x, y
<1>5. ASSUME NEW h \in 1 .. n PROVE x[h] = y[h]
  <2>1. h \in 1 .. j - i + 1 /\ i + h - 1 \in i .. j
    OBVIOUS
  <2>2. q[i + h - 1] = s[i + h - 1]
    BY <2>1
  <2>3. QED
    BY <1>3, <2>1, <2>2
<1> HIDE DEF n
<1>6. QED
  BY <1>4, <1>5 DEF x, y

\* Concatenation, so that the provers do not look into it.
Joined(t, u) == t \o u

\* It is associative, and a command more is a piece of its own.
LEMMA JoinedSeq ==
  ASSUME NEW C, NEW t \in Seq(C), NEW u \in Seq(C)
  PROVE  Joined(t, u) \in Seq(C)
BY ConcatProperties DEF Joined

LEMMA JoinedTwice ==
  ASSUME NEW C, NEW t \in Seq(C), NEW u \in Seq(C), NEW w \in Seq(C)
  PROVE  Joined(Joined(t, u), w) = Joined(t, Joined(u, w))
BY Regroup DEF Joined

LEMMA JoinedOne ==
  ASSUME NEW C, NEW t \in Seq(C), NEW x \in C
  PROVE  \E o \in Seq(C) : \A z \in Seq(C) : Append(z, x) = Joined(z, o)
<1>1. << x >> \in Seq(C)
  OBVIOUS
<1>2. \A z \in Seq(C) : Append(z, x) = z \o << x >>
  BY AppendIsConcat
<1>3. QED
  BY <1>1, <1>2 DEF Joined

\* Pieces around one that is left out, or put in, belong to either side.
LEMMA Spliced ==
  ASSUME NEW C, NEW a \in Seq(C), NEW y \in Seq(C), NEW w \in Seq(C), NEW b \in Seq(C), NEW x \in C
  PROVE  /\ Joined(Joined(a, y), Joined(w, b)) = Joined(a, Joined(Joined(y, w), b))
         /\ Joined(Append(Joined(a, y), x), Joined(w, b))
              = Joined(a, Joined(Joined(Append(y, x), w), b))
<1>1. PICK o \in Seq(C) : \A z \in Seq(C) : Append(z, x) = Joined(z, o)
  BY JoinedOne
<1>2. \A t, u, v \in Seq(C) : Joined(t, u) \in Seq(C) /\ Joined(Joined(t, u), v) = Joined(t, Joined(u, v))
  BY JoinedSeq, JoinedTwice
<1>3. ASSUME NEW g \in Seq(C)
      PROVE  Joined(Joined(a, g), Joined(w, b)) = Joined(a, Joined(Joined(g, w), b))
  BY <1>2
<1>4. Joined(a, y) \in Seq(C) /\ Joined(y, o) \in Seq(C) /\ Joined(Joined(a, y), o) = Joined(a, Joined(y, o))
  BY <1>2
<1>5. Append(y, x) = Joined(y, o) /\ Append(Joined(a, y), x) = Joined(Joined(a, y), o)
  BY <1>1, <1>4
<1>6. QED
  BY <1>3, <1>4, <1>5

\* The sections of a script without command l of section j.
Dropped(s, n, j, l) == [i \in 1 .. n |-> IF i = j THEN RemoveAt(s[j], l) ELSE s[i]]

\* A command other than the reset is lost: two registers at most are wrong.
LEMMA OneGone ==
  ASSUME NEW m \in Formats, NEW c, NEW f, NEW j \in 1 .. SectionCount(m),
         NEW l \in 1 .. Len(Script(m, c, f)[j]), j # 1 \/ l # 2
  PROVE  LET q == Dropped(Script(m, c, f), SectionCount(m), j, l) IN
         \E a, b : Apart(Run(Blank, FlattenSeq(q)).reg, Image(m, c, f).reg) \subseteq {a, b}
<1> DEFINE s == Script(m, c, f)
           n == SectionCount(m)
           q == Dropped(s, n, j, l)
           z == s[j]
           C == UNION {Range(s[i]) : i \in 1 .. n}
           y == SubSeq(z, 1, l - 1)
           w == SubSeq(z, l + 1, Len(z))
           x == z[l]
           a == FlattenSeq(SubSeq(s, 1, j - 1))
           b == FlattenSeq(SubSeq(s, j + 1, n))
<1>1. n \in {9, 10} /\ s = [i \in 1 .. n |-> s[i]] /\ \A i \in 1 .. n : s[i] \in Seq(Range(s[i]))
  BY ScriptKind
<1>2. x.op # "RST"
  BY OnlyReset
<1>3. j \in 1 .. n /\ l \in 1 .. Len(z) /\ q = [i \in 1 .. n |-> IF i = j THEN RemoveAt(z, l) ELSE s[i]]
      /\ Image(m, c, f) = Run(Blank, FlattenSeq(s))
  BY DEF Image, Dropped
<1> HIDE DEF n, s, q
<1>4. s \in Seq(Seq(C)) /\ Len(s) = n
  <2>1. n \in Nat
    BY <1>1
  <2>2. QED
    BY <1>1, <2>1, OneSet
<1> HIDE DEF C
<1>5. z \in Seq(C) /\ \A i \in 1 .. n : s[i] \in Seq(C)
  <2>1. \A i \in 1 .. Len(s) : s[i] \in Seq(C)
    BY <1>4, ElementOfSeq
  <2>2. QED
    BY <1>3, <1>4, <2>1
<1> HIDE DEF z
<1>6. y \in Seq(C) /\ w \in Seq(C) /\ x \in C /\ z = Append(y, x) \o w /\ RemoveAt(z, l) = y \o w
  BY <1>3, <1>5, Around
<1> HIDE DEF y, w, x
<1>7. q \in Seq(Seq(C)) /\ Len(q) = n
  <2>1. y \o w \in Seq(C)
    BY <1>6, ConcatProperties
  <2>2. \A i \in 1 .. n : q[i] \in Seq(C)
    BY <1>3, <1>5, <1>6, <2>1
  <2>3. DOMAIN q = 1 .. n
    BY <1>3
  <2>4. q \in [1 .. n -> Seq(C)]
    BY <1>3, <2>2
  <2>5. n \in Nat
    BY <1>1
  <2>6. q \in Seq(Seq(C))
    BY <2>4, <2>5, SeqDef
  <2>7. QED
    BY <2>3, <2>5, <2>6, LenProperties
<1>8. SubSeq(q, 1, j - 1) = SubSeq(s, 1, j - 1) /\ SubSeq(q, j + 1, n) = SubSeq(s, j + 1, n)
  <2> DEFINE S == Seq(C)
  <2> HIDE DEF S
  <2>1. /\ j - 1 \in Nat /\ j + 1 \in Nat \ {0} /\ 1 \in Nat \ {0} /\ n \in Nat /\ j - 1 <= n /\ n <= n
        /\ \A h \in 1 .. j - 1 : h \in 1 .. n /\ h # j
        /\ \A h \in j + 1 .. n : h \in 1 .. n /\ h # j
    BY <1>1, <1>3
  <2>2. (\A h \in 1 .. j - 1 : q[h] = s[h]) /\ (\A h \in j + 1 .. n : q[h] = s[h])
    BY <1>3, <2>1
  <2>3. q \in Seq(S) /\ s \in Seq(S) /\ Len(q) = n /\ Len(s) = n
    BY <1>4, <1>7 DEF S
  <2>4. SubSeq(q, 1, j - 1) = SubSeq(s, 1, j - 1)
    BY <2>1, <2>2, <2>3, SamePart
  <2>5. SubSeq(q, j + 1, n) = SubSeq(s, j + 1, n)
    BY <2>1, <2>2, <2>3, SamePart
  <2>6. QED
    BY <2>4, <2>5
<1>9. a \in Seq(C) /\ b \in Seq(C) /\ FlattenSeq(s) = a \o (z \o b)
  <2>1. j \in 1 .. Len(s)
    BY <1>3, <1>4
  <2>2. /\ FlattenSeq(SubSeq(s, 1, j - 1)) \in Seq(C) /\ FlattenSeq(SubSeq(s, j + 1, Len(s))) \in Seq(C)
        /\ FlattenSeq(s) = FlattenSeq(SubSeq(s, 1, j - 1))
                             \o (s[j] \o FlattenSeq(SubSeq(s, j + 1, Len(s))))
    BY <1>4, <2>1, FlattenAt
  <2>3. QED
    BY <1>4, <2>2 DEF z
<1>10. FlattenSeq(q) = a \o ((y \o w) \o b)
  <2>1. j \in 1 .. Len(q) /\ q[j] = y \o w
    BY <1>3, <1>6, <1>7
  <2>2. FlattenSeq(q) = FlattenSeq(SubSeq(q, 1, j - 1))
                           \o (q[j] \o FlattenSeq(SubSeq(q, j + 1, Len(q))))
    BY <1>7, <2>1, FlattenAt
  <2>3. QED
    BY <1>7, <1>8, <2>1, <2>2
<1> HIDE DEF a, b
<1> DEFINE u == a \o y
           t == w \o b
<1>11. u \in Seq(C) /\ t \in Seq(C)
  BY <1>6, <1>9, ConcatProperties
<1>12. u \o t = FlattenSeq(q) /\ Append(u, x) \o t = FlattenSeq(s)
  <2>1. /\ Joined(Joined(a, y), Joined(w, b)) = Joined(a, Joined(Joined(y, w), b))
        /\ Joined(Append(Joined(a, y), x), Joined(w, b))
             = Joined(a, Joined(Joined(Append(y, x), w), b))
    BY <1>6, <1>9, Spliced
  <2>2. FlattenSeq(q) = Joined(a, Joined(Joined(y, w), b))
        /\ FlattenSeq(s) = Joined(a, Joined(Joined(Append(y, x), w), b))
    BY <1>6, <1>9, <1>10 DEF Joined
  <2>3. u \o t = Joined(Joined(a, y), Joined(w, b))
        /\ Append(u, x) \o t = Joined(Append(Joined(a, y), x), Joined(w, b))
    BY DEF u, t, Joined
  <2>4. QED
    BY <2>1, <2>2, <2>3
<1> HIDE DEF u, t
<1>14. PICK d, e : Near({d, e}, u \o t, Append(u, x) \o t)
  BY <1>2, <1>6, <1>11, LostCommand
<1>15. Apart(Run(Blank, FlattenSeq(q)).reg, Image(m, c, f).reg) \subseteq {d, e}
  BY <1>3, <1>12, <1>14 DEF Near
<1>16. QED
  BY <1>15 DEF q, n, s

\* What is left of the first section of a script without the reset.
LEMMA ResetDropped ==
  ASSUME NEW u, u \in Seq(Range(u))
  PROVE  RemoveAt(Opening \o u, 2) = << Cmd("CHK") >> \o u
<1> DEFINE z == Opening \o u
           C == Range(z)
           n == Len(u)
           o == << Cmd("CHK") >>
           w == SubSeq(z, 3, Len(z))
           y == SubSeq(z, 1, 1)
<1>1. Opening \in Seq(Range(Opening)) /\ Len(Opening) = 2 /\ Opening[1] = Cmd("CHK")
  <2>1. Opening \in Seq({Cmd("CHK"), Cmd("RST")})
    BY DEF Opening
  <2>2. Opening \in Seq(Range(Opening))
    BY <2>1, SeqOfRange
  <2>3. QED
    BY <2>2 DEF Opening
<1>2. /\ z \in Seq(C)
      /\ Len(Opening) \in Nat /\ Len(u) \in Nat /\ Len(z) = Len(Opening) + Len(u)
      /\ \A i \in 1 .. Len(Opening) + Len(u) :
           z[i] = IF i <= Len(Opening) THEN Opening[i] ELSE u[i - Len(Opening)]
  BY <1>1, ConcatRange
<1>a. u = [i \in 1 .. n |-> u[i]]
  <2>1. u \in [1 .. n -> Range(u)]
    BY LenProperties
  <2> HIDE DEF n
  <2>2. QED
    BY <2>1
<1> HIDE DEF z, C
<1>3. /\ n \in Nat /\ Len(z) = 2 + n /\ z[1] = Cmd("CHK")
      /\ \A i \in 1 .. n : z[2 + i] = u[i]
  <2>1. n \in Nat /\ Len(z) = 2 + n
    BY <1>1, <1>2
  <2>2. 1 \in 1 .. 2 + n
    BY <2>1
  <2>3. z[1] = Cmd("CHK")
    BY <1>1, <1>2, <2>2
  <2>4. ASSUME NEW i \in 1 .. n PROVE z[2 + i] = u[i]
    <3>1. 2 + i \in 1 .. 2 + n /\ ~(2 + i <= 2) /\ (2 + i) - 2 = i
      BY <2>1
    <3>2. QED
      BY <1>1, <1>2, <3>1
  <2>5. QED
    BY <2>1, <2>3, <2>4
<1> HIDE DEF n
<1>4. \A i \in 1 .. 2 + n : z[i] \in C
  BY <1>2, <1>3, ElementOfSeq
<1>5. y \in Seq(C) /\ Len(y) = 1 /\ y[1] = z[1]
  <2>1. \A i \in 1 .. 1 : z[i] \in C
    <3>1. \A i \in 1 .. 1 : i \in 1 .. 2 + n
      BY <1>3
    <3>2. QED
      BY <1>4, <3>1
  <2>2. /\ y \in Seq(C) /\ Len(y) = IF 1 <= 1 THEN 1 - 1 + 1 ELSE 0
        /\ \A i \in 1 .. 1 - 1 + 1 : y[i] = z[1 + i - 1]
    BY <2>1, SubSeqProperties
  <2> HIDE DEF y
  <2>3. QED
    BY <2>2
<1>6. w \in Seq(C) /\ Len(w) = n /\ \A i \in 1 .. n : w[i] = u[i]
  <2> DEFINE h == 2 + n
  <2>1. h \in Int /\ (\A i \in 3 .. h : z[i] \in C)
    <3>1. h \in Int /\ \A i \in 3 .. h : i \in 1 .. 2 + n
      BY <1>3
    <3>2. QED
      BY <1>4, <3>1
  <2>2. w = SubSeq(z, 3, h)
    BY <1>3
  <2> HIDE DEF w, h
  <2>3. /\ w \in Seq(C) /\ Len(w) = IF 3 <= h THEN h - 3 + 1 ELSE 0
        /\ \A i \in 1 .. h - 3 + 1 : w[i] = z[3 + i - 1]
    BY <2>1, <2>2, SubSeqProperties
  <2>4. h - 3 + 1 = n /\ Len(w) = n
    BY <1>3, <2>3 DEF h
  <2>5. ASSUME NEW i \in 1 .. n PROVE w[i] = u[i]
    <3>1. 3 + i - 1 = 2 + i
      OBVIOUS
    <3>2. QED
      BY <1>3, <2>3, <2>4, <3>1
  <2>6. QED
    BY <2>3, <2>4, <2>5
<1> HIDE DEF y, w
<1>7. y = o
  BY <1>3, <1>5
<1>8. w = u
  <2>1. w \in [1 .. n -> C]
    BY <1>6, LenProperties
  <2>2. QED
    BY <1>6, <1>a, <2>1
<1>9. RemoveAt(z, 2) = y \o w
  BY DEF RemoveAt, y, w
<1>10. QED
  BY <1>7, <1>8, <1>9 DEF z, o

\* The commands of some sections, when the first begins with h.
LEMMA FlattenOpen ==
  ASSUME NEW C, NEW q \in Seq(Seq(C)), Len(q) >= 1, NEW h \in Seq(C), NEW u \in Seq(C), q[1] = h \o u
  PROVE  LET F == FlattenSeq(SubSeq(q, 2, Len(q))) IN
         F \in Seq(C) /\ FlattenSeq(q) = h \o (u \o F)
<1> DEFINE F == FlattenSeq(SubSeq(q, 2, Len(q)))
           E == FlattenSeq(SubSeq(q, 1, 1 - 1))
<1>1. 1 \in 1 .. Len(q) /\ 1 + 1 = 2 /\ 1 - 1 < 1
  BY LenProperties
<1>2. F \in Seq(C) /\ FlattenSeq(q) = E \o (q[1] \o F)
  BY <1>1, FlattenAt
<1>3. E = << >>
  <2>1. SubSeq(q, 1, 1 - 1) = << >>
    BY <1>1, SubSeqEmpty
  <2>2. QED
    BY <2>1, FlattenNothing
<1> HIDE DEF F, E
<1>4. FlattenSeq(q) = (h \o u) \o F
  <2>1. h \o u \in Seq(C)
    BY ConcatProperties
  <2>2. (h \o u) \o F \in Seq(C)
    BY <1>2, <2>1, ConcatProperties
  <2>3. << >> \o ((h \o u) \o F) = (h \o u) \o F
    BY <2>2, ConcatEmptySeq
  <2>4. QED
    BY <1>2, <1>3, <2>3
<1>5. (h \o u) \o F = h \o (u \o F)
  <2>1. F \in Seq(C)
    BY <1>2
  <2>2. Joined(Joined(h, u), F) = Joined(h, Joined(u, F))
    BY ONLY <2>1, h \in Seq(C), u \in Seq(C), JoinedTwice
  <2>3. QED
    BY ONLY <2>2 DEF Joined
<1>6. QED
  BY <1>2, <1>4, <1>5 DEF F

\* Sections that are alike from i to j have commands there that are alike.
LEMMA AlikePart ==
  ASSUME NEW C, NEW q \in Seq(Seq(C)), NEW r \in Seq(Seq(C)), NEW v,
         NEW i \in Nat \ {0}, NEW j \in Nat, j <= Len(q), j <= Len(r),
         \A h \in i .. j : Alike(q[h], r[h], v)
  PROVE  /\ FlattenSeq(SubSeq(q, i, j)) \in Seq(C) /\ FlattenSeq(SubSeq(r, i, j)) \in Seq(C)
         /\ Alike(FlattenSeq(SubSeq(q, i, j)), FlattenSeq(SubSeq(r, i, j)), v)
<1> DEFINE S == Seq(C)
           x == SubSeq(q, i, j)
           y == SubSeq(r, i, j)
           n == IF i <= j THEN j - i + 1 ELSE 0
<1>1. Len(q) \in Nat /\ Len(r) \in Nat
  BY LenProperties
<1>2. \A h \in i .. j : q[h] \in S /\ r[h] \in S
  <2>1. \A h \in i .. j : h \in 1 .. Len(q) /\ h \in 1 .. Len(r)
    BY <1>1
  <2>2. QED
    BY <2>1, ElementOfSeq
<1>3. /\ x \in Seq(S) /\ Len(x) = n /\ \A h \in 1 .. j - i + 1 : x[h] = q[i + h - 1]
      /\ y \in Seq(S) /\ Len(y) = n /\ \A h \in 1 .. j - i + 1 : y[h] = r[i + h - 1]
  <2> HIDE DEF S
  <2>1. QED
    BY <1>2, SubSeqProperties
<1> HIDE DEF x, y
<1>4. ASSUME NEW h \in 1 .. n PROVE Alike(x[h], y[h], v)
  <2>1. h \in 1 .. j - i + 1 /\ i + h - 1 \in i .. j
    OBVIOUS
  <2>2. Alike(q[i + h - 1], r[i + h - 1], v)
    BY <2>1
  <2>3. QED
    BY <1>3, <2>1, <2>2
<1> HIDE DEF n
<1>5. Alike(FlattenSeq(x), FlattenSeq(y), v)
  BY <1>3, <1>4, AlikeFlat
<1>6. FlattenSeq(x) \in Seq(C) /\ FlattenSeq(y) \in Seq(C)
  BY <1>3, FlattenConcat
<1>7. QED
  BY <1>5, <1>6 DEF x, y

\* A part of the sections of a script.
LEMMA PartKind ==
  ASSUME NEW S, NEW q \in Seq(S), NEW i \in Nat \ {0}, NEW j \in Nat, j <= Len(q)
  PROVE  SubSeq(q, i, j) \in Seq(S)
<1>1. Len(q) \in Nat
  BY LenProperties
<1>2. \A h \in i .. j : h \in 1 .. Len(q)
  BY <1>1
<1>3. \A h \in i .. j : q[h] \in S
  BY <1>2, ElementOfSeq
<1>4. QED
  BY <1>3, SubSeqProperties

\* The first k sections of a script, each with settings and a frame rate of its own.
Earlier(m, k, old) ==
  /\ old = [i \in 1 .. k |-> old[i]]
  /\ \A i \in 1 .. k : \E d, g : old[i] = Script(m, d, g)[i]

\* A script begins with its opening and then u.
Opens(m, c, f, u) == Script(m, c, f)[1] = Opening \o u
\* What follows the opening does not depend on the settings.
LEMMA SameOpening ==
  ASSUME NEW m \in Formats, NEW c, NEW f, NEW d, NEW g, NEW C, NEW u \in Seq(C), Opens(m, c, f, u)
  PROVE  Opens(m, d, g, u) /\ Alike(u, u, Low16(SysRate(d, g)))
<1> DEFINE s == Script(m, c, f)
           t == Script(m, d, g)
           v == Low16(SysRate(d, g))
           n == SectionCount(m)
<1>1. Regular(t, s, v, v, n)
  BY ScriptRegular
<1>a. s[1] = Opening \o u
  BY DEF Opens
<1> HIDE DEF n, s, t, v
<1>2. PICK w : t[1] = Opening \o w /\ s[1] = Opening \o w /\ Alike(w, w, v)
  BY <1>1 DEF Regular
<1>3. Opening \in Seq(Range(Opening))
  <2>1. Opening \in Seq({Cmd("CHK"), Cmd("RST")})
    BY DEF Opening
  <2>2. QED
    BY <2>1, SeqOfRange
<1>4. u \in Seq(Range(u)) /\ w \in Seq(Range(w))
  BY <1>2, SeqOfRange DEF Alike
<1>5. u = w
  BY <1>2, <1>3, <1>4, <1>a, SameRest
<1>6. QED
  BY <1>2, <1>5 DEF t, v, Opens

\* A chip that holds the first sections of an earlier script is Started.
LEMMA StartedEarlier ==
  ASSUME NEW C, NEW m \in Formats, NEW c, NEW f, Script(m, c, f) \in Seq(Seq(C)),
         Len(Script(m, c, f)) = SectionCount(m), Opening \in Seq(C),
         NEW u \in Seq(C), Script(m, c, f)[1] = Opening \o u,
         NEW k \in Nat, k <= SectionCount(m), NEW old \in Seq(Seq(C)), Len(old) = k, Earlier(m, k, old)
  PROVE  Started(C, FlattenSeq(old), u \o FlattenSeq(SubSeq(Script(m, c, f), 2, SectionCount(m))))
<1> DEFINE s == Script(m, c, f)
           n == SectionCount(m)
           y == Low16(SysRate(c, f))
           S == Seq(C)
           B == FlattenSeq(SubSeq(s, 2, n))
           F == FlattenSeq(SubSeq(s, 2, k))
           R == FlattenSeq(SubSeq(s, k + 1, n))
           P == FlattenSeq(SubSeq(old, 2, k))
<1>0. Opens(m, c, f, u)
  BY DEF Opens
<1>1. n \in {9, 10}
  BY DEF SectionCount
<1>2. s \in Seq(S) /\ Len(s) = n /\ s[1] = Opening \o u /\ k <= n
  OBVIOUS
<1>3. ASSUME NEW i \in 1 .. k, i >= 2 PROVE Alike(s[i], old[i], y)
  <2>1. PICK d, g : old[i] = Script(m, d, g)[i]
    BY DEF Earlier
  <2>2. Regular(s, Script(m, d, g), y, y, n)
    BY ScriptRegular
  <2>3. i = 2 \/ i \in 3 .. n
    BY <1>1, <1>3
  <2> HIDE DEF s, n, y
  <2>4. QED
    BY <2>1, <2>2, <2>3 DEF Regular
<1>4. ASSUME NEW i \in 2 .. n PROVE Alike(s[i], s[i], y)
  <2>1. Regular(s, s, y, y, n)
    BY ScriptRegular
  <2>2. i = 2 \/ i \in 3 .. n
    BY <1>1
  <2> HIDE DEF s, n, y
  <2>3. QED
    BY <2>1, <2>2 DEF Regular
<1>5. Alike(u, u, y)
  BY ONLY m \in Formats, u \in Seq(C), <1>0, SameOpening DEF y
<1>6. PICK x : Alike(u, u, x) /\ \A i \in 2 .. k : Alike(old[i], s[i], x)
  <2>1. CASE k < 2
    <3>1. \A i \in 2 .. k : FALSE
      BY <2>1
    <3>2. QED
      BY <1>5, <3>1
  <2>2. CASE k >= 2
    <3>1. 2 \in 1 .. k
      BY <2>2
    <3>2. PICK d, g : old[2] = Script(m, d, g)[2]
      BY <3>1 DEF Earlier
    <3> DEFINE x == Low16(SysRate(d, g))
    <3>3. Alike(u, u, x)
      BY ONLY m \in Formats, u \in Seq(C), <1>0, SameOpening DEF x
    <3>4. ASSUME NEW i \in 2 .. k PROVE Alike(old[i], s[i], x)
      <4>1. i \in 1 .. k
        OBVIOUS
      <4>2. PICK d2, g2 : old[i] = Script(m, d2, g2)[i]
        BY <4>1 DEF Earlier
      <4>3. Regular(Script(m, d, g), s, x, x, n)
        BY ScriptRegular
      <4>4. Regular(Script(m, d2, g2), s, Low16(SysRate(d2, g2)), x, n)
        BY ScriptRegular
      <4>5. i = 2 \/ i \in 3 .. n
        BY <1>1
      <4> HIDE DEF s, n, x
      <4>6. CASE i = 2
        BY <3>2, <4>3, <4>6 DEF Regular
      <4>7. CASE i \in 3 .. n
        BY <4>2, <4>4, <4>7 DEF Regular
      <4>8. QED
        BY <4>5, <4>6, <4>7
    <3> HIDE DEF x
    <3>5. QED
      BY <3>3, <3>4
  <2>3. QED
    BY <2>1, <2>2
<1>b. k = 0 \/ k >= 1
  OBVIOUS
<1>c. Len(old) = k /\ \A i \in 1 .. k : \E d, g : old[i] = Script(m, d, g)[i]
  BY DEF Earlier
<1>7. CASE k = 0
  <2>1. old = << >>
    BY <1>7, EmptySeq
  <2>2. FlattenSeq(old) = << >>
    BY <2>1, FlattenNothing
  <2>3. QED
    BY <2>2 DEF Started
<1>8. CASE k >= 1
  <2>1. old[1] = Opening \o u
    <3>1. 1 \in 1 .. k
      BY <1>8
    <3>2. PICK d, g : old[1] = Script(m, d, g)[1]
      BY <1>c, <3>1
    <3>3. Opens(m, d, g, u)
      BY ONLY m \in Formats, u \in Seq(C), <1>0, SameOpening
    <3>4. QED
      BY ONLY <3>2, <3>3 DEF Opens
  <2>2. P \in Seq(C) /\ FlattenSeq(old) = Opening \o (u \o P)
    <3>1. Len(old) >= 1
      BY <1>8
    <3>2. /\ FlattenSeq(SubSeq(old, 2, Len(old))) \in Seq(C)
          /\ FlattenSeq(old) = Opening \o (u \o FlattenSeq(SubSeq(old, 2, Len(old))))
      BY <2>1, <3>1, FlattenOpen
    <3>3. QED
      BY <3>2
  <2>3. /\ F \in Seq(C) /\ Alike(P, F, x) /\ Alike(F, P, y)
    <3>1. \A i \in 2 .. k : Alike(s[i], old[i], y)
      BY <1>3
    <3>2. 2 \in Nat \ {0} /\ k <= Len(old) /\ k <= Len(s)
      OBVIOUS
    <3> HIDE DEF s, n, y
    <3>3. F \in Seq(C) /\ Alike(P, F, x)
      BY <1>2, <1>6, <3>2, AlikePart
    <3>4. Alike(F, P, y)
      BY <1>2, <3>1, <3>2, AlikePart
    <3>5. QED
      BY <3>3, <3>4
  <2>4. R \in Seq(C) /\ Alike(R, R, y)
    <3>1. \A i \in k + 1 .. n : Alike(s[i], s[i], y)
      <4>1. \A i \in k + 1 .. n : i \in 2 .. n
        BY <1>1, <1>8
      <4>2. QED
        BY <1>4, <4>1
    <3>2. k + 1 \in Nat \ {0} /\ n \in Nat /\ n <= Len(s)
      BY <1>1
    <3> HIDE DEF s, n, y
    <3>3. QED
      BY <1>2, <3>1, <3>2, AlikePart
  <2>5. B = F \o R
    <3>1. SubSeq(s, 2, k) \o SubSeq(s, k + 1, n) = SubSeq(s, 2, n)
      <4>1. 2 \in 1 .. n + 1 /\ k \in 2 - 1 .. n /\ n \in k .. n
        BY <1>1, <1>8
      <4> HIDE DEF s, n, S
      <4>2. QED
        BY <1>2, <4>1, ConcatAdjacentSubSeq
    <3>2. 2 \in Nat \ {0} /\ k <= Len(s) /\ k + 1 \in Nat \ {0} /\ n \in Nat /\ n <= Len(s)
      BY <1>1
    <3> HIDE DEF s, n
    <3>3. SubSeq(s, 2, k) \in Seq(S) /\ SubSeq(s, k + 1, n) \in Seq(S)
      <4> HIDE DEF S
      <4>1. QED
        BY <1>2, <3>2, PartKind
    <3>4. FlattenSeq(SubSeq(s, 2, k) \o SubSeq(s, k + 1, n)) = F \o R
      BY <3>3, FlattenConcat
    <3>5. QED
      BY <3>1, <3>4
  <2> HIDE DEF s, n, y, B, F, R, P
  <2>6. /\ u \o P \in Seq(C) /\ u \o F \in Seq(C)
        /\ Alike(u \o P, u \o F, x) /\ Alike(u \o F, u \o P, y)
    <3>1. u \o P \in Seq(C) /\ u \o F \in Seq(C)
      BY <2>2, <2>3, ConcatProperties
    <3>2. Alike(u \o P, u \o F, x)
      BY <1>6, <2>3, AlikeConcat
    <3>3. Alike(u \o F, u \o P, y)
      BY <1>5, <2>3, AlikeConcat
    <3>4. QED
      BY <3>1, <3>2, <3>3
  <2>7. u \o B = (u \o F) \o R
    <3>1. F \in Seq(C) /\ R \in Seq(C)
      BY <2>3, <2>4
    <3>2. Joined(Joined(u, F), R) = Joined(u, Joined(F, R))
      BY ONLY <3>1, u \in Seq(C), JoinedTwice
    <3>3. QED
      BY ONLY <2>5, <3>2 DEF Joined
  <2>8. Started(C, FlattenSeq(old), u \o B)
    <3> DEFINE q == u \o P
               first == u \o F
    <3>1. FlattenSeq(old) = Opening \o q /\ u \o B = first \o R
      BY <2>2, <2>7
    <3>2. q \in Seq(C) /\ first \in Seq(C) /\ Alike(q, first, x) /\ Alike(first, q, y)
      BY <2>6
    <3> HIDE DEF q, first
    <3>3. QED
      BY <2>4, <3>1, <3>2 DEF Started
  <2>9. QED
    BY <2>8 DEF B, s, n
<1>9. QED
  BY <1>7, <1>8, <1>b

\* The reset is lost: whatever sections of an earlier script of the format are still there,
\* all registers are right.
LEMMA ResetGone ==
  ASSUME NEW m \in Formats, NEW c, NEW f, NEW k \in Nat, k <= SectionCount(m),
         NEW old, Earlier(m, k, old)
  PROVE  Apart(Run(Blank, FlattenSeq(old \o Dropped(Script(m, c, f), SectionCount(m), 1, 2))).reg,
               Image(m, c, f).reg) = {}
<1> DEFINE s == Script(m, c, f)
           n == SectionCount(m)
           v == Low16(SysRate(c, f))
           q == Dropped(s, n, 1, 2)
           C1 == UNION {Range(s[i]) : i \in 1 .. n}
           C2 == UNION {Range(old[i]) : i \in 1 .. k}
           C == C1 \cup C2 \cup {Cmd("CHK")}
           B == FlattenSeq(SubSeq(s, 2, n))
           o == << Cmd("CHK") >>
<1>1. n \in {9, 10} /\ s = [i \in 1 .. n |-> s[i]] /\ \A i \in 1 .. n : s[i] \in Seq(Range(s[i]))
  BY ScriptKind
<1>2. old = [i \in 1 .. k |-> old[i]] /\ \A i \in 1 .. k : old[i] \in Seq(Range(old[i]))
  <2>1. ASSUME NEW i \in 1 .. k PROVE old[i] \in Seq(Range(old[i]))
    <3>1. PICK d, g : old[i] = Script(m, d, g)[i]
      BY DEF Earlier
    <3>2. i \in 1 .. n
      BY <1>1
    <3> HIDE DEF n
    <3>3. Script(m, d, g)[i] \in Seq(Range(Script(m, d, g)[i]))
      BY <3>2, ScriptKind DEF n
    <3>4. QED
      BY <3>1, <3>3
  <2>2. QED
    BY <2>1 DEF Earlier
<1>3. Regular(s, s, v, v, n)
  BY ScriptRegular
<1>4. Image(m, c, f) = Run(Blank, FlattenSeq(s))
  BY DEF Image
<1>5. q = [i \in 1 .. n |-> IF i = 1 THEN RemoveAt(s[1], 2) ELSE s[i]]
  BY DEF Dropped
<1>d. Earlier(m, k, old) /\ k <= n /\ s = Script(m, c, f) /\ n = SectionCount(m)
  OBVIOUS
<1> HIDE DEF s, n, q, v
<1>6. s \in Seq(Seq(C)) /\ Len(s) = n
  <2>1. n \in Nat
    BY <1>1
  <2>2. s \in Seq(Seq(C1)) /\ Len(s) = n
    BY <1>1, <2>1, OneSet
  <2>3. Seq(C1) \subseteq Seq(C)
    BY SeqMonotonic
  <2> HIDE DEF C1, C
  <2>4. Seq(Seq(C1)) \subseteq Seq(Seq(C))
    BY <2>3, SeqMonotonic
  <2>5. QED
    BY <2>2, <2>4
<1>7. old \in Seq(Seq(C)) /\ Len(old) = k
  <2>1. old \in Seq(Seq(C2)) /\ Len(old) = k
    BY <1>2, OneSet
  <2>2. Seq(C2) \subseteq Seq(C)
    BY SeqMonotonic
  <2> HIDE DEF C2, C
  <2>3. Seq(Seq(C2)) \subseteq Seq(Seq(C))
    BY <2>2, SeqMonotonic
  <2>4. QED
    BY <2>1, <2>3
<1>8. Cmd("CHK") \in C
  OBVIOUS
<1> HIDE DEF C, C1, C2
<1>9. o \in Seq(C)
  BY <1>8
<1>10. PICK u : s[1] = Opening \o u /\ Alike(u, u, v)
  BY <1>3 DEF Regular
<1>11. u \in Seq(Range(u)) /\ Opening \in Seq(Range(Opening))
  <2>1. Opening \in Seq({Cmd("CHK"), Cmd("RST")})
    BY DEF Opening
  <2>2. Opening \in Seq(Range(Opening))
    BY <2>1, SeqOfRange
  <2>3. QED
    BY <1>10, <2>2 DEF Alike
<1>12. \A i \in 1 .. n : s[i] \in Seq(C)
  <2>1. \A i \in 1 .. Len(s) : s[i] \in Seq(C)
    BY <1>6, ElementOfSeq
  <2>2. QED
    BY <1>6, <2>1
<1>13. Opening \in Seq(C) /\ u \in Seq(C)
  <2>1. s[1] \in Seq(C)
    BY <1>1, <1>12
  <2>2. Opening \o u \in Seq(C)
    BY <1>10, <2>1
  <2>3. QED
    BY ONLY <1>11, <2>2, PartsKind
<1>14. q[1] = o \o u /\ \A i \in 2 .. n : q[i] = s[i]
  <2>1. 1 \in 1 .. n /\ \A i \in 2 .. n : i \in 1 .. n /\ i # 1
    BY <1>1
  <2>2. RemoveAt(s[1], 2) = o \o u
    BY <1>10, <1>11, ResetDropped
  <2> HIDE DEF o
  <2>3. QED
    BY <1>5, <2>1, <2>2
<1> HIDE DEF o
<1>15. q \in Seq(Seq(C)) /\ Len(q) = n
  <2>1. o \o u \in Seq(C)
    BY ONLY <1>9, <1>13, ConcatProperties
  <2>2. \A i \in 1 .. n : q[i] \in Seq(C)
    <3>1. \A i \in 1 .. n : i = 1 \/ i \in 2 .. n
      BY <1>1
    <3>2. QED
      BY <1>12, <1>14, <2>1, <3>1
  <2>3. n \in Nat /\ DOMAIN q = 1 .. n
    BY <1>1, <1>5
  <2>4. q \in [1 .. n -> Seq(C)]
    BY <1>5, <2>2, <2>3
  <2>5. q \in Seq(Seq(C))
    BY <2>3, <2>4, SeqDef
  <2>6. QED
    BY <2>3, <2>5, LenProperties
<1>16. SubSeq(q, 2, n) = SubSeq(s, 2, n)
  <2>1. 2 \in Nat \ {0} /\ n \in Nat /\ n <= Len(q) /\ n <= Len(s)
    BY <1>1, <1>6, <1>15
  <2>2. QED
    BY <1>6, <1>14, <1>15, <2>1, SamePart
<1>17. /\ B \in Seq(C)
       /\ FlattenSeq(s) = Opening \o (u \o B)
       /\ FlattenSeq(q) = o \o (u \o B)
  <2>1. Len(s) >= 1 /\ Len(q) >= 1
    BY <1>1, <1>6, <1>15
  <2>2. /\ FlattenSeq(SubSeq(s, 2, Len(s))) \in Seq(C)
        /\ FlattenSeq(s) = Opening \o (u \o FlattenSeq(SubSeq(s, 2, Len(s))))
    BY <1>6, <1>10, <1>13, <2>1, FlattenOpen
  <2>3. FlattenSeq(q) = o \o (u \o FlattenSeq(SubSeq(q, 2, Len(q))))
    BY <1>9, <1>13, <1>14, <1>15, <2>1, FlattenOpen
  <2>4. QED
    BY <1>6, <1>15, <1>16, <2>2, <2>3
<1>18. Alike(B, B, v)
  <2>1. \A i \in 2 .. n : Alike(s[i], s[i], v)
    <3>1. \A i \in 2 .. n : i = 2 \/ i \in 3 .. n
      BY <1>1
    <3>2. QED
      BY <1>3, <3>1 DEF Regular
  <2>2. 2 \in Nat \ {0} /\ n \in Nat /\ n <= Len(s)
    BY <1>1, <1>6
  <2>3. QED
    BY <1>6, <2>1, <2>2, AlikePart
<1>19. Started(C, FlattenSeq(old), u \o B)
  <2>1. k <= SectionCount(m)
    BY <1>d
  <2>2. Script(m, c, f) \in Seq(Seq(C)) /\ Len(Script(m, c, f)) = SectionCount(m)
        /\ Script(m, c, f)[1] = Opening \o u
    BY <1>d, <1>6, <1>10
  <2>3. Started(C, FlattenSeq(old), u \o FlattenSeq(SubSeq(Script(m, c, f), 2, SectionCount(m))))
    BY ONLY m \in Formats, k \in Nat, <1>d, <2>1, <2>2, <1>7, <1>13, StartedEarlier
  <2>4. QED
    BY <1>d, <2>3
<1>20. FlattenSeq(old \o q) = FlattenSeq(old) \o (o \o (u \o B)) /\ FlattenSeq(old) \in Seq(C)
  BY <1>7, <1>15, <1>17, FlattenConcat
<1> HIDE DEF B
<1>21. u \o B \in Seq(C) /\ Alike(u \o B, u \o B, v)
  <2>1. u \o B \in Seq(C)
    BY ONLY <1>13, <1>17, ConcatProperties
  <2>2. QED
    BY <1>10, <1>18, <2>1, AlikeConcat
<1>22. Apart(Run(Blank, FlattenSeq(old) \o (o \o (u \o B))).reg, Run(Blank, Opening \o (u \o B)).reg) = {}
  <2> DEFINE b == u \o B
             p == FlattenSeq(old)
  <2>1. b \in Seq(C) /\ Alike(b, b, v) /\ p \in Seq(C) /\ Started(C, p, b)
    BY <1>19, <1>20, <1>21
  <2> HIDE DEF b, p
  <2>2. Apart(Run(Blank, p \o (o \o b)).reg, Run(Blank, Opening \o b).reg) = {}
    BY ONLY <1>13, <2>1, LostReset DEF o
  <2>3. QED
    BY <2>2 DEF b, p
<1>23. Apart(Run(Blank, FlattenSeq(old \o q)).reg, Image(m, c, f).reg) = {}
  BY <1>4, <1>17, <1>20, <1>22
<1>24. QED
  BY <1>23 DEF q, s, n

=============================================================================

-------------------------- MODULE RequestLogProofs --------------------------
(***************************************************************************)
(* The safety of RequestLog for any number of backups, any sizes and any   *)
(* number of requests.                                                     *)
(*                                                                         *)
(* InOrder and KeepsTheNewest are inductive once three things are known: a *)
(* rotation moves files only after the stream let go of its buffer and     *)
(* only when path has something in it (RotationAt), the number a file is   *)
(* moved to is free unless it is the last one, so that nothing but the     *)
(* oldest backup is ever overwritten (GapAt), and what is in the files and *)
(* in the buffer comes from requests that have ended (PastOnly).           *)
(***************************************************************************)
EXTENDS RequestLog, TLAPS

(* The types of the state; the size of the file, a sum over the events in  *)
(* it, is left out.                                                        *)
Typed ==
    /\ file \in Files /\ backup \in [1..Backups -> Files]
    /\ stream \in {"open", "none", "closed"}
    /\ pending \in Seq(Events)
    /\ pc \in {"idle", "close", "shift", "open", "append"} /\ slot \in 0..Backups
    /\ lines \in Seq(1..MaxLine) /\ Len(lines) <= MaxEvents
    /\ outcome \in Seq({"logged", "failed", "raised"})
    /\ Len(lines) = Len(outcome) + IF pc = "idle" THEN 0 ELSE 1

(* What is logged or buffered belongs to requests that have ended.         *)
PastOnly ==
    /\ \A n \in 0..Backups : Range(Part(n)) \subseteq 1..Len(outcome)
    /\ Range(pending) \subseteq 1..Len(outcome)

(* An open stream has its file, and only an open stream has a buffer.      *)
StreamAt ==
    /\ stream = "open" => file # NoFile
    /\ stream # "open" => pending = <<>>
    /\ pc \in {"shift", "open"} => stream = "none"

(* A rotation begins when path has something in it, and no backup is       *)
(* empty.                                                                  *)
RotationAt ==
    /\ size > 0 => file # <<>>
    /\ pc \in {"close", "shift"} => size > 0
    /\ \A n \in 1..Backups : backup[n] # <<>>

(* The number that the next file takes is free, or is the last one.        *)
GapAt == pc = "shift" /\ slot \in 1..Backups - 1 => backup[slot] = NoFile

IInv == Typed /\ PastOnly /\ StreamAt /\ RotationAt /\ GapAt /\ InOrder /\ KeepsTheNewest

----------------------------------------------------------------------------
(* What a file holds is a sequence of events.                              *)
LEMMA PartType == ASSUME Typed, NEW n \in 0..Backups PROVE Part(n) \in Seq(Events)
<1>1. \A f \in Files : Content(f) \in Seq(Events)
  BY DEF Files, Content
<1>2. (IF n = 0 THEN file ELSE backup[n]) \in Files
  BY BackupsAssumption DEF Typed
<1>3. QED
  BY <1>1, <1>2 DEF Part

(* The contents of an empty file.                                          *)
LEMMA EmptyType == <<>> \in Seq(Events) /\ Range(<<>>) = {} /\ Ascending(<<>>)
<1>1. <<>> \in Seq(Events)
  BY SMT
<1>2. QED
  BY <1>1 DEF Range, Ascending

(* A concatenation holds what its parts hold, and is ascending if they are *)
(* and come in order.                                                      *)
LEMMA ConcatFacts ==
    ASSUME NEW s \in Seq(Events), NEW t \in Seq(Events)
    PROVE  /\ s \o t \in Seq(Events)
           /\ Range(s \o t) = Range(s) \cup Range(t)
           /\ Ascending(s) /\ Ascending(t) /\ Before(s, t) => Ascending(s \o t)
<1> DEFINE c == s \o t
<1>1. /\ c \in Seq(Events) /\ Len(c) = Len(s) + Len(t) /\ Len(s) \in Nat /\ Len(t) \in Nat
      /\ DOMAIN c = 1..Len(c) /\ DOMAIN s = 1..Len(s) /\ DOMAIN t = 1..Len(t)
  OBVIOUS
<1>2. \A i \in 1..Len(s) : c[i] = s[i]
  OBVIOUS
<1>3. \A i \in 1..Len(t) : c[Len(s) + i] = t[i]
  OBVIOUS
<1>4. \A i \in 1..Len(c) : i \in 1..Len(s) \/ (i - Len(s) \in 1..Len(t) /\ c[i] = t[i - Len(s)])
  <2>1. TAKE i \in 1..Len(c)
  <2>2. CASE i <= Len(s)
    BY <1>1, <2>2
  <2>3. CASE i > Len(s)
    <3>1. i - Len(s) \in 1..Len(t) /\ Len(s) + (i - Len(s)) = i
      BY <1>1, <2>3
    <3>2. QED
      BY <1>3, <3>1
  <2>4. QED
    BY <1>1, <2>2, <2>3
<1>5. Range(c) = Range(s) \cup Range(t)
  <2>1. Range(c) \subseteq Range(s) \cup Range(t)
    BY <1>1, <1>2, <1>4 DEF Range
  <2>2. Range(s) \subseteq Range(c)
    <3>1. \A i \in 1..Len(s) : i \in 1..Len(c)
      BY <1>1
    <3>2. QED
      BY <1>1, <1>2, <3>1 DEF Range
  <2>3. Range(t) \subseteq Range(c)
    <3>1. \A i \in 1..Len(t) : Len(s) + i \in 1..Len(c)
      BY <1>1
    <3>2. QED
      BY <1>1, <1>3, <3>1 DEF Range
  <2>4. QED
    BY <2>1, <2>2, <2>3
<1>6. ASSUME Ascending(s), Ascending(t), Before(s, t) PROVE Ascending(c)
  <2>1. SUFFICES ASSUME NEW i \in 1..Len(c), NEW j \in 1..Len(c), i < j PROVE c[i] < c[j]
    BY <1>1 DEF Ascending
  <2>2. CASE j \in 1..Len(s)
    <3>1. i \in 1..Len(s)
      BY <1>1, <2>1, <2>2
    <3>2. QED
      BY <1>1, <1>2, <1>6, <2>1, <2>2, <3>1 DEF Ascending
  <2>3. CASE j \notin 1..Len(s) /\ i \in 1..Len(s)
    <3>1. c[j] \in Range(t) /\ c[i] \in Range(s)
      BY <1>1, <1>2, <1>4, <2>3 DEF Range
    <3>2. QED
      BY <1>6, <3>1 DEF Before
  <2>4. CASE j \notin 1..Len(s) /\ i \notin 1..Len(s)
    <3>1. /\ i - Len(s) \in 1..Len(t) /\ c[i] = t[i - Len(s)]
          /\ j - Len(s) \in 1..Len(t) /\ c[j] = t[j - Len(s)]
      BY <1>4, <2>4
    <3>2. i - Len(s) < j - Len(s)
      BY <1>1, <2>1
    <3>3. QED
      BY <1>1, <1>6, <3>1, <3>2 DEF Ascending
  <2>5. QED
    BY <2>2, <2>3, <2>4
<1>7. QED
  BY <1>1, <1>5, <1>6

(* What stays of a sequence behind its first elements.                     *)
LEMMA SuffixFacts ==
    ASSUME NEW S, NEW s \in Seq(S), NEW n \in 0..Len(s)
    PROVE  LET b == SubSeq(s, n + 1, Len(s))
           IN  /\ b \in Seq(S) /\ Len(b) = Len(s) - n /\ DOMAIN b = 1..Len(s) - n
               /\ \A i \in 1..Len(s) - n : b[i] = s[n + i]
<1> SUFFICES ASSUME NEW b, b = SubSeq(s, n + 1, Len(s))
             PROVE  /\ b \in Seq(S) /\ Len(b) = Len(s) - n /\ DOMAIN b = 1..Len(s) - n
                    /\ \A i \in 1..Len(s) - n : b[i] = s[n + i]
  OBVIOUS
<1>1. Len(s) \in Nat /\ n \in Nat /\ n <= Len(s)
  OBVIOUS
<1>2. b \in Seq(S) /\ Len(b) = Len(s) - n /\ \A i \in 1..Len(b) : b[i] = s[n + i]
  BY <1>1
<1>3. QED
  BY <1>1, <1>2

(* A buffer that is written in part: what went out comes before what       *)
(* stayed.                                                                 *)
LEMMA SplitFacts ==
    ASSUME NEW s \in Seq(Events), Ascending(s), NEW n \in 0..Len(s)
    PROVE  LET a == SubSeq(s, 1, n)
               b == SubSeq(s, n + 1, Len(s))
           IN  /\ a \in Seq(Events) /\ b \in Seq(Events)
               /\ Ascending(a) /\ Ascending(b) /\ Before(a, b)
               /\ Range(a) \subseteq Range(s) /\ Range(b) \subseteq Range(s)
<1> DEFINE a == SubSeq(s, 1, n)
           b == SubSeq(s, n + 1, Len(s))
<1>1. Len(s) \in Nat /\ n \in Nat /\ n <= Len(s) /\ DOMAIN s = 1..Len(s)
  OBVIOUS
<1>2. /\ a \in Seq(Events) /\ Len(a) = n /\ DOMAIN a = 1..n
      /\ \A i \in 1..n : a[i] = s[i] /\ i \in 1..Len(s)
  BY <1>1
<1>3. /\ b \in Seq(Events) /\ Len(b) = Len(s) - n /\ DOMAIN b = 1..Len(s) - n
      /\ \A i \in 1..Len(s) - n : b[i] = s[n + i]
  BY SuffixFacts
<1>4. \A i \in 1..Len(s) - n : n + i \in 1..Len(s) /\ n + i > n
  BY <1>1
<1> HIDE DEF a, b
<1>5. Ascending(a)
  BY <1>1, <1>2 DEF Ascending
<1>6. Ascending(b)
  <2>1. SUFFICES ASSUME NEW i \in 1..Len(s) - n, NEW j \in 1..Len(s) - n, i < j PROVE b[i] < b[j]
    BY <1>3 DEF Ascending
  <2>2. n + i < n + j
    BY <1>1, <2>1
  <2>3. QED
    BY <1>1, <1>3, <1>4, <2>2 DEF Ascending
<1>7. Before(a, b)
  <2>1. SUFFICES ASSUME NEW i \in 1..n, NEW j \in 1..Len(s) - n PROVE a[i] < b[j]
    BY <1>2, <1>3 DEF Before, Range
  <2>2. i < n + j
    BY <1>1
  <2>3. QED
    BY <1>1, <1>2, <1>3, <1>4, <2>2 DEF Ascending
<1>8. Range(a) \subseteq Range(s) /\ Range(b) \subseteq Range(s)
  <2>1. Range(a) \subseteq Range(s)
    BY <1>1, <1>2 DEF Range
  <2>2. Range(b) \subseteq Range(s)
    BY <1>1, <1>3, <1>4 DEF Range
  <2>3. QED
    BY <2>1, <2>2
<1>9. QED
  BY <1>2, <1>3, <1>5, <1>6, <1>7, <1>8 DEF a, b

(* The buffer with the line of the current write.                          *)
LEMMA BufferFacts ==
    ASSUME NEW q \in Seq(Events), Ascending(q), NEW e \in Events, Range(q) \subseteq 1..e - 1
    PROVE  /\ Append(q, e) \in Seq(Events) /\ Ascending(Append(q, e))
           /\ Range(Append(q, e)) = Range(q) \cup {e}
           /\ Append(q, e) # <<>> /\ Len(Append(q, e)) = Len(q) + 1
<1> DEFINE c == Append(q, e)
<1>1. /\ c \in Seq(Events) /\ Len(c) = Len(q) + 1 /\ Len(q) \in Nat /\ e \in Nat
      /\ DOMAIN c = 1..Len(q) + 1 /\ DOMAIN q = 1..Len(q)
  BY MaxEventsAssumption DEF Events
<1>2. c[Len(q) + 1] = e /\ \A i \in 1..Len(q) : c[i] = q[i]
  OBVIOUS
<1>3. \A i \in 1..Len(q) : q[i] < e
  BY <1>1 DEF Range
<1> HIDE DEF c
<1>4. Ascending(c)
  <2>1. SUFFICES ASSUME NEW i \in 1..Len(q) + 1, NEW j \in 1..Len(q) + 1, i < j PROVE c[i] < c[j]
    BY <1>1 DEF Ascending
  <2>2. i \in 1..Len(q) /\ (j \in 1..Len(q) \/ j = Len(q) + 1)
    BY <1>1, <2>1
  <2>3. QED
    BY <1>1, <1>2, <1>3, <2>1, <2>2 DEF Ascending
<1>5. Range(c) = Range(q) \cup {e}
  <2>1. \A i \in 1..Len(q) + 1 : i \in 1..Len(q) \/ i = Len(q) + 1
    BY <1>1
  <2>2. \A i \in 1..Len(q) : i \in 1..Len(q) + 1
    BY <1>1
  <2>3. Len(q) + 1 \in 1..Len(q) + 1
    BY <1>1
  <2>4. QED
    BY <1>1, <1>2, <2>1, <2>2, <2>3 DEF Range
<1>6. c # <<>>
  BY <1>1
<1>7. QED
  BY <1>1, <1>4, <1>5, <1>6 DEF c

----------------------------------------------------------------------------
(* Whatever goes out of the buffer to the end of path is newer than the    *)
(* log and older than what stays in the buffer.                            *)
LEMMA GrownInOrder ==
    ASSUME Typed, PastOnly, InOrder, NEW s \in Seq(Events), NEW r \in Seq(Events),
           UNCHANGED backup, Part(0)' = Part(0) \o s, pending' = r,
           Ascending(s), Ascending(r), Before(s, r),
           Range(s) \cup Range(r) \subseteq Range(pending) \cup {Len(outcome) + 1}
    PROVE  InOrder' /\ Logged' = Logged \cup Range(s)
<1>1. \A n \in 0..Backups : n = 0 \/ Part(n)' = Part(n)
  BY DEF Part, Content
<1>2. /\ Len(outcome) \in Nat /\ \A n \in 0..Backups : Part(n) \in Seq(Events)
      /\ 0 \in 0..Backups
  BY PartType, BackupsAssumption DEF Typed
<1>3. \A n \in 0..Backups : Before(Part(n), s) /\ Before(Part(n), r)
  <2>1. SUFFICES ASSUME NEW n \in 0..Backups, NEW x \in Range(Part(n)),
                        NEW y \in Range(s) \cup Range(r)
                 PROVE  x < y
    BY DEF Before
  <2>2. CASE y \in Range(pending)
    BY <2>2 DEF InOrder, Before
  <2>3. CASE y = Len(outcome) + 1
    <3>1. x \in 1..Len(outcome)
      BY DEF PastOnly
    <3>2. QED
      BY <1>2, <2>3, <3>1
  <2>4. QED
    BY <2>2, <2>3
<1>4. /\ Ascending(Part(0) \o s) /\ Range(Part(0) \o s) = Range(Part(0)) \cup Range(s)
  BY <1>2, <1>3, ConcatFacts DEF InOrder
<1>5. \A n \in 0..Backups : Ascending(Part(n)') /\ Before(Part(n)', r)
  BY <1>1, <1>3, <1>4 DEF InOrder, Before
<1>6. \A m, n \in 0..Backups : m < n => Before(Part(n)', Part(m)')
  <2>1. SUFFICES ASSUME NEW m \in 0..Backups, NEW n \in 0..Backups, m < n
                 PROVE  Before(Part(n)', Part(m)')
    OBVIOUS
  <2>2. Part(n)' = Part(n) /\ Before(Part(n), Part(m)) /\ Before(Part(n), s)
    BY <1>1, <1>3, <2>1 DEF InOrder
  <2>3. CASE m = 0
    BY <1>4, <2>2, <2>3 DEF Before
  <2>4. CASE m # 0
    BY <1>1, <2>2, <2>4
  <2>5. QED
    BY <2>3, <2>4
<1>7. InOrder'
  BY <1>5, <1>6 DEF InOrder, Ascending, Before, Range
<1>8. Logged' = Logged \cup Range(s)
  <2>1. \A n \in 0..Backups :
          Range(Part(n)') = IF n = 0 THEN Range(Part(0)) \cup Range(s) ELSE Range(Part(n))
    BY <1>1, <1>4
  <2>2. Logged' = UNION {Range(Part(n)') : n \in 0..Backups}
    BY DEF Logged, Range
  <2>3. Logged = UNION {Range(Part(n)) : n \in 0..Backups}
    BY DEF Logged
  <2>4. \A x \in Logged' : x \in Logged \cup Range(s)
    <3>1. TAKE x \in Logged'
    <3>2. PICK n \in 0..Backups : x \in Range(Part(n)')
      BY <2>2
    <3>3. CASE n = 0
      BY <1>2, <2>1, <2>3, <3>2, <3>3
    <3>4. CASE n # 0
      BY <2>1, <2>3, <3>2, <3>4
    <3>5. QED
      BY <3>3, <3>4
  <2>5. \A x \in Logged \cup Range(s) : x \in Logged'
    BY <1>2, <2>1, <2>2, <2>3
  <2>6. QED
    BY <2>4, <2>5
<1>9. QED
  BY <1>7, <1>8

(* The log grew and the write, if it ended, ended with its event in it or  *)
(* without success: what was kept is kept.                                 *)
LEMMA GrownKeeps ==
    ASSUME Typed, PastOnly, InOrder, KeepsTheNewest, NEW s,
           Logged' = Logged \cup Range(s),
           Range(s) \subseteq Range(pending) \cup {Len(outcome) + 1},
           NEW o, outcome' = outcome \/ outcome' = Append(outcome, o),
           o = "logged" => Len(outcome) + 1 \in Range(s)
    PROVE  KeepsTheNewest'
<1>1. Len(outcome) \in Nat
  BY DEF Typed
<1>2. SUFFICES ASSUME NEW e \in 1..Len(outcome'), outcome'[e] = "logged"
               PROVE  Logged' # {} /\ (e \in Logged' \/ \A x \in Logged' : e < x)
  BY DEF KeepsTheNewest
<1>3. CASE e \in 1..Len(outcome)
  <2>1. outcome[e] = "logged"
    BY <1>1, <1>2, <1>3 DEF Typed
  <2>2. Logged # {} /\ (e \in Logged \/ \A x \in Logged : e < x)
    BY <1>3, <2>1 DEF KeepsTheNewest
  <2>3. CASE e \in Logged
    BY <2>3
  <2>4. CASE \A x \in Logged : e < x
    <3>1. PICK z \in Logged : e < z
      BY <2>2, <2>4
    <3>2. PICK n \in 0..Backups : z \in Range(Part(n))
      BY DEF Logged
    <3>3. z \in 1..Len(outcome)
      BY <3>2 DEF PastOnly
    <3>4. ASSUME NEW x \in Range(s) PROVE e < x
      <4>1. CASE x \in Range(pending)
        <5>1. z < x /\ x \in 1..Len(outcome)
          BY <3>2, <4>1 DEF InOrder, Before, PastOnly
        <5>2. QED
          BY <1>1, <1>3, <3>1, <3>3, <5>1
      <4>2. CASE x = Len(outcome) + 1
        BY <1>1, <1>3, <4>2
      <4>3. QED
        BY <3>4, <4>1, <4>2
    <3>5. QED
      BY <2>2, <2>4, <3>4
  <2>5. QED
    BY <2>2, <2>3, <2>4
<1>4. CASE e \notin 1..Len(outcome)
  <2>1. outcome' = Append(outcome, o) /\ e = Len(outcome) + 1
    BY <1>1, <1>2, <1>4 DEF Typed
  <2>2. o = "logged"
    BY <1>2, <2>1 DEF Typed
  <2>3. QED
    BY <2>1, <2>2
<1>5. QED
  BY <1>3, <1>4

(* A step that writes s to path, leaves r in the buffer and moves no file. *)
LEMMA Grown ==
    ASSUME Typed, PastOnly, InOrder, KeepsTheNewest, NEW s \in Seq(Events), NEW r \in Seq(Events),
           UNCHANGED backup, Part(0)' = Part(0) \o s, pending' = r,
           Ascending(s), Ascending(r), Before(s, r), NEW o,
           \/ outcome' = outcome /\ Range(s) \cup Range(r) \subseteq Range(pending)
           \/ /\ outcome' = Append(outcome, o)
              /\ Range(s) \cup Range(r) \subseteq Range(pending) \cup {Len(outcome) + 1},
           o = "logged" => Len(outcome) + 1 \in Range(s)
    PROVE  InOrder' /\ KeepsTheNewest' /\ PastOnly'
<1>1. Range(s) \cup Range(r) \subseteq Range(pending) \cup {Len(outcome) + 1}
  OBVIOUS
<1>2. InOrder' /\ Logged' = Logged \cup Range(s)
  BY <1>1, GrownInOrder
<1>3. outcome' = outcome \/ outcome' = Append(outcome, o)
  OBVIOUS
<1>4. Range(s) \subseteq Range(pending) \cup {Len(outcome) + 1}
  BY <1>1
<1>5. KeepsTheNewest'
  BY <1>2, <1>3, <1>4, GrownKeeps
<1>6. PastOnly'
  <2>1. Len(outcome) \in Nat /\ Len(outcome') \in {Len(outcome), Len(outcome) + 1}
    BY DEF Typed
  <2>2. 1..Len(outcome) \subseteq 1..Len(outcome')
    BY <2>1
  <2>3. outcome' = Append(outcome, o) => Len(outcome) + 1 \in 1..Len(outcome')
    BY <2>1 DEF Typed
  <2>4. Range(s) \cup Range(r) \subseteq 1..Len(outcome')
    BY <2>2, <2>3 DEF PastOnly
  <2>5. \A x \in Logged' : x \in 1..Len(outcome')
    <3>1. \A x \in Logged : x \in 1..Len(outcome)
      BY DEF Logged, PastOnly
    <3>2. QED
      BY <1>2, <2>2, <2>4, <3>1
  <2>6. \A n \in 0..Backups : Range(Part(n))' \subseteq Logged'
    BY DEF Logged
  <2>7. Range(pending') \subseteq 1..Len(outcome')
    BY <2>4
  <2>8. QED
    BY <2>5, <2>6, <2>7 DEF PastOnly, Range
<1>7. QED
  BY <1>2, <1>5, <1>6

(* A step that writes nothing to path and moves no file.                   *)
LEMMA SameLog ==
    ASSUME Typed, PastOnly, InOrder, KeepsTheNewest,
           UNCHANGED <<backup, pending>>, Part(0)' = Part(0),
           outcome' = outcome \/ \E o \in {"failed", "raised"} : outcome' = Append(outcome, o)
    PROVE  InOrder' /\ KeepsTheNewest' /\ PastOnly'
<1>1. Part(0) \in Seq(Events)
  BY PartType, BackupsAssumption
<1>2. PICK r \in Seq(Events) : r = pending
  BY DEF Typed
<1>3. PICK s \in Seq(Events) : s = <<>>
  BY EmptyType
<1>4. Part(0)' = Part(0) \o s /\ pending' = r
  BY <1>1, <1>2, <1>3
<1>5. Range(s) = {} /\ Ascending(s)
  BY <1>3 DEF Range, Ascending
<1>6. Before(s, r) /\ Ascending(r)
  BY <1>2, <1>5 DEF Before, InOrder
<1>7. PICK o \in {"failed", "raised"} : outcome' = outcome \/ outcome' = Append(outcome, o)
  OBVIOUS
<1>8. /\ Range(s) \cup Range(r) \subseteq Range(pending)
      /\ Range(s) \cup Range(r) \subseteq Range(pending) \cup {Len(outcome) + 1}
      /\ o = "logged" => Len(outcome) + 1 \in Range(s)
  BY <1>2, <1>5
<1>9. QED
  BY <1>4, <1>5, <1>6, <1>7, <1>8, Grown

(* Nothing is logged initially.                                            *)
LEMMA InitIInv == Init => IInv
<1> SUFFICES ASSUME Init PROVE IInv
  OBVIOUS
<1>1. Typed
  BY BackupsAssumption, SizesAssumption, MaxEventsAssumption DEF Init, Typed, Files
<1>2. \A n \in 0..Backups : Part(n) = <<>>
  BY DEF Init, Part, Content
<1>3. Range(<<>>) = {}
  BY DEF Range
<1>4. PastOnly
  BY <1>2, <1>3 DEF Init, PastOnly
<1>5. NoFile # <<>>
  BY NoFileAssumption, EmptyType
<1>6. StreamAt /\ RotationAt /\ GapAt
  BY <1>5 DEF Init, StreamAt, RotationAt, GapAt
<1>7. InOrder
  BY <1>2, <1>3 DEF Init, InOrder, Before, Ascending
<1>8. KeepsTheNewest
  BY DEF Init, KeepsTheNewest
<1>9. QED
  BY <1>1, <1>4, <1>6, <1>7, <1>8 DEF IInv

(* A request comes, and its line may not fit.                              *)
LEMMA WriteStep == ASSUME IInv, NEW n \in 1..MaxLine, Write(n) PROVE IInv'
<1>1. InOrder' /\ KeepsTheNewest' /\ PastOnly'
  <2>1. Part(0)' = Part(0)
    BY DEF Write, Part, Content
  <2>2. QED
    BY <2>1, SameLog DEF IInv, Write
<1>2. Typed'
  BY MaxEventsAssumption DEF IInv, Write, Typed, event
<1>3. StreamAt' /\ RotationAt' /\ GapAt'
  BY DEF IInv, Write, StreamAt, RotationAt, GapAt
<1>4. QED
  BY <1>1, <1>2, <1>3 DEF IInv

(* What path holds after something was written to it.                      *)
LEMMA FileGrows ==
    ASSUME Typed, NEW s \in Seq(Events), file' = Content(file) \o s
    PROVE  /\ file' \in Files /\ file' # NoFile /\ Part(0)' = Part(0) \o s
           /\ file' = <<>> => Content(file) = <<>> /\ s = <<>>
<1>1. Content(file) \in Seq(Events)
  BY DEF Typed, Files, Content
<1>2. PICK c \in Seq(Events) : c = Content(file)
  BY <1>1
<1>3. c \o s \in Seq(Events) /\ Len(c \o s) = Len(c) + Len(s)
  OBVIOUS
<1>4. file' \in Seq(Events)
  BY <1>2, <1>3
<1>5. file' \in Files /\ file' # NoFile
  BY <1>4, NoFileAssumption DEF Files
<1>6. Part(0)' = Part(0) \o s
  BY <1>5 DEF Part, Content
<1>7. c \o s = <<>> => c = <<>> /\ s = <<>>
  BY <1>3
<1>8. QED
  BY <1>2, <1>5, <1>6, <1>7

(* _rotate closes the stream, and its buffer goes to path or is lost.      *)
LEMMA CloseStep == ASSUME IInv, Close PROVE IInv'
<1>1. PICK q \in Seq(Events) : q = pending
  BY DEF IInv, Typed
<1>2. Ascending(q)
  BY <1>1 DEF IInv, InOrder
<1>3. pending' = <<>> /\ UNCHANGED <<backup, size, lines>>
  BY DEF Close
<1>4. \A s : Before(s, <<>>)
  BY EmptyType DEF Before
<1>5. CASE /\ pc' = "shift" /\ slot' = Backups /\ stream' = "none" /\ UNCHANGED outcome
           /\ file' = IF stream = "open" THEN file \o pending ELSE file
  <2>1. Part(0)' = Part(0) \o q /\ file' \in Files /\ (file # <<>> => file' # <<>>)
    <3>1. CASE stream = "open"
      <4>1. file # NoFile /\ file' = Content(file) \o q
        BY <1>1, <1>5, <3>1 DEF IInv, StreamAt, Content
      <4>2. QED
        BY <4>1, FileGrows DEF IInv, Content
    <3>2. CASE stream # "open"
      <4>1. q = <<>> /\ file' = file
        BY <1>1, <1>5, <3>2 DEF IInv, StreamAt
      <4>2. Part(0) \in Seq(Events) /\ Part(0)' = Part(0)
        BY <4>1, PartType, BackupsAssumption DEF IInv, Part, Content
      <4>3. QED
        BY <4>1, <4>2 DEF IInv, Typed
    <3>3. QED
      BY <3>1, <3>2
  <2>2. InOrder' /\ KeepsTheNewest' /\ PastOnly'
    <3>1. Range(q) \cup Range(<<>>) \subseteq Range(pending)
      BY <1>1, EmptyType
    <3>2. "failed" = "logged" => Len(outcome) + 1 \in Range(q)
      OBVIOUS
    <3>3. QED
      BY <1>2, <1>3, <1>4, <1>5, <2>1, <3>1, <3>2, EmptyType, Grown DEF IInv
  <2>3. Typed'
    BY <1>3, <1>5, <2>1, EmptyType, BackupsAssumption DEF IInv, Typed, Close
  <2>4. StreamAt' /\ RotationAt' /\ GapAt'
    BY <1>3, <1>5, <2>1, BackupsAssumption DEF IInv, Close, StreamAt, RotationAt, GapAt
  <2>5. QED
    BY <2>2, <2>3, <2>4 DEF IInv
<1>6. CASE /\ Fails /\ stream = "open" /\ stream' = "closed" /\ UNCHANGED slot
           /\ \E n \in 0..Len(pending) : file' = file \o SubSeq(pending, 1, n)
  <2>1. PICK n \in 0..Len(q) : file' = file \o SubSeq(q, 1, n)
    BY <1>1, <1>6
  <2>2. PICK s \in Seq(Events) : /\ s = SubSeq(q, 1, n) /\ Ascending(s)
                                 /\ Range(s) \subseteq Range(q)
    BY <1>2, SplitFacts
  <2>3. /\ Part(0)' = Part(0) \o s /\ file' \in Files /\ (file # <<>> => file' # <<>>)
    <3>1. file # NoFile /\ file' = Content(file) \o s
      BY <1>6, <2>1, <2>2 DEF IInv, StreamAt, Content
    <3>2. QED
      BY <3>1, FileGrows DEF IInv, Content
  <2>4. outcome' = Append(outcome, "failed") /\ pc' = "idle"
    BY <1>6 DEF Fails, End
  <2>5. InOrder' /\ KeepsTheNewest' /\ PastOnly'
    <3>1. Range(s) \cup Range(<<>>) \subseteq Range(pending) \cup {Len(outcome) + 1}
      BY <1>1, <2>2, EmptyType
    <3>2. "failed" = "logged" => Len(outcome) + 1 \in Range(s)
      OBVIOUS
    <3>3. QED
      BY <1>3, <1>4, <2>2, <2>3, <2>4, <3>1, <3>2, EmptyType, Grown DEF IInv
  <2>6. Typed'
    BY <1>3, <1>6, <2>3, <2>4, EmptyType DEF IInv, Typed, Close
  <2>7. StreamAt' /\ RotationAt' /\ GapAt'
    BY <1>3, <1>6, <2>3, <2>4 DEF IInv, StreamAt, RotationAt, GapAt
  <2>8. QED
    BY <2>5, <2>6, <2>7 DEF IInv
<1>7. QED
  BY <1>5, <1>6 DEF Close

(* open creates path if it has to, or fails and leaves everything as it    *)
(* is.                                                                     *)
LEMMA OpenStep == ASSUME IInv, Open PROVE IInv'
<1>1. PICK s \in Seq(Events) : s = <<>>
  BY EmptyType
<1>2. Content(file) \in Seq(Events)
  BY DEF IInv, Typed, Files, Content
<1>3. CASE OpenStream /\ pc' = "append" /\ UNCHANGED outcome
  <2>1. file' = Content(file) \o s
    BY <1>1, <1>2, <1>3 DEF OpenStream
  <2>2. file' \in Files /\ file' # NoFile
    BY <2>1, FileGrows DEF IInv
  <2>3. Part(0)' = Part(0)
    BY <1>3, <2>2 DEF OpenStream, Part, Content
  <2>4. InOrder' /\ KeepsTheNewest' /\ PastOnly'
    BY <1>3, <2>3, SameLog DEF IInv, Open
  <2>5. Typed' /\ StreamAt' /\ GapAt'
    BY <1>3, <2>2 DEF IInv, Open, OpenStream, Typed, StreamAt, GapAt
  <2>6. RotationAt'
    <3>1. Content(file) = <<>> => size' = 0
      BY <1>3, Zenon DEF OpenStream, Bytes
    <3>2. pc' = "append" /\ UNCHANGED backup /\ file' = Content(file)
      BY <1>3 DEF Open, OpenStream
    <3>3. QED
      BY <3>1, <3>2 DEF IInv, RotationAt
  <2>7. QED
    BY <2>4, <2>5, <2>6 DEF IInv
<1>4. CASE Fails /\ UNCHANGED <<file, size, stream>>
  <2>1. Part(0)' = Part(0) /\ outcome' = Append(outcome, "failed") /\ pc' = "idle"
    BY <1>4 DEF Part, Content, Fails, End
  <2>2. InOrder' /\ KeepsTheNewest' /\ PastOnly'
    BY <2>1, SameLog DEF IInv, Open
  <2>3. Typed'
    BY <1>4, <2>1 DEF IInv, Open, Typed
  <2>4. StreamAt' /\ RotationAt' /\ GapAt'
    BY <1>4, <2>1 DEF IInv, Open, StreamAt, RotationAt, GapAt
  <2>5. QED
    BY <2>2, <2>3, <2>4 DEF IInv
<1>5. QED
  BY <1>3, <1>4 DEF Open

(* The line goes out, or stays in the buffer with what was there.          *)
LEMMA FlushStep == ASSUME IInv, Flush PROVE IInv'
<1>1. PICK q \in Seq(Events) : q = pending
  BY DEF IInv, Typed
<1>2. PICK e \in Events : e = Len(lines) /\ e = Len(outcome) + 1
  BY MaxEventsAssumption DEF IInv, Typed, Flush, Events
<1>3. Range(q) \subseteq 1..e - 1 /\ Ascending(q) /\ Len(q) \in Nat
  BY <1>1, <1>2 DEF IInv, Typed, PastOnly, InOrder
<1>4. PICK b \in Seq(Events) : /\ b = Append(q, e) /\ Ascending(b) /\ b # <<>>
                               /\ Range(b) = Range(q) \cup {e} /\ Len(b) = Len(q) + 1
  BY <1>3, BufferFacts
<1>5. Append(pending, event) = b /\ UNCHANGED <<backup, stream, slot, lines>> /\ pc = "append"
  BY <1>1, <1>2, <1>4 DEF Flush, event
<1>6. \A s : Before(s, <<>>)
  BY EmptyType DEF Before
<1>7. CASE stream = "open" /\ End("logged") /\ file' = file \o b /\ pending' = <<>>
  <2>1. /\ Part(0)' = Part(0) \o b /\ file' \in Files /\ file' # NoFile /\ file' # <<>>
    <3>1. file # NoFile /\ file' = Content(file) \o b
      BY <1>7 DEF IInv, StreamAt, Content
    <3>2. QED
      BY <1>4, <3>1, FileGrows DEF IInv
  <2>2. outcome' = Append(outcome, "logged") /\ pc' = "idle"
    BY <1>7 DEF End
  <2>3. InOrder' /\ KeepsTheNewest' /\ PastOnly'
    <3>1. Range(b) \cup Range(<<>>) \subseteq Range(pending) \cup {Len(outcome) + 1}
      BY <1>1, <1>2, <1>4, EmptyType
    <3>2. "logged" = "logged" => Len(outcome) + 1 \in Range(b)
      BY <1>2, <1>4
    <3>3. QED
      BY <1>4, <1>5, <1>6, <1>7, <2>1, <2>2, <3>1, <3>2, EmptyType, Grown DEF IInv
  <2>4. Typed'
    BY <1>5, <1>7, <2>1, <2>2, EmptyType DEF IInv, Typed
  <2>5. StreamAt' /\ RotationAt' /\ GapAt'
    BY <1>5, <1>7, <2>1, <2>2 DEF IInv, StreamAt, RotationAt, GapAt
  <2>6. QED
    BY <2>3, <2>4, <2>5 DEF IInv
<1>8. CASE /\ stream = "open" /\ Fails /\ UNCHANGED size
           /\ \E n \in 0..Len(pending) :
                /\ file' = file \o SubSeq(b, 1, n) /\ pending' = SubSeq(b, n + 1, Len(b))
  <2>1. PICK n \in 0..Len(q) :
          file' = file \o SubSeq(b, 1, n) /\ pending' = SubSeq(b, n + 1, Len(b))
    BY <1>1, <1>8
  <2>2. n \in 0..Len(b)
    BY <1>3, <1>4
  <2>3. PICK s \in Seq(Events), r \in Seq(Events) :
          /\ s = SubSeq(b, 1, n) /\ r = SubSeq(b, n + 1, Len(b))
          /\ Ascending(s) /\ Ascending(r) /\ Before(s, r)
          /\ Range(s) \subseteq Range(b) /\ Range(r) \subseteq Range(b)
    <3>1. LET s == SubSeq(b, 1, n)
              r == SubSeq(b, n + 1, Len(b))
          IN  /\ s \in Seq(Events) /\ r \in Seq(Events)
              /\ Ascending(s) /\ Ascending(r) /\ Before(s, r)
              /\ Range(s) \subseteq Range(b) /\ Range(r) \subseteq Range(b)
      BY <1>4, <2>2, SplitFacts
    <3>2. QED
      BY <3>1, Zenon
  <2>4. /\ Part(0)' = Part(0) \o s /\ file' \in Files /\ file' # NoFile
        /\ file # <<>> => file' # <<>>
    <3>1. file # NoFile /\ file' = Content(file) \o s
      BY <1>8, <2>1, <2>3 DEF IInv, StreamAt, Content
    <3>2. QED
      BY <3>1, FileGrows DEF IInv, Content
  <2>5. outcome' = Append(outcome, "failed") /\ pc' = "idle" /\ pending' = r
    BY <1>8, <2>1, <2>3 DEF Fails, End
  <2>6. InOrder' /\ KeepsTheNewest' /\ PastOnly'
    <3>1. Range(s) \cup Range(r) \subseteq Range(pending) \cup {Len(outcome) + 1}
      BY <1>1, <1>2, <1>4, <2>3
    <3>2. "failed" = "logged" => Len(outcome) + 1 \in Range(s)
      OBVIOUS
    <3>3. QED
      BY <1>5, <2>3, <2>4, <2>5, <3>1, <3>2, Grown DEF IInv
  <2>7. Typed'
    BY <1>5, <1>8, <2>4, <2>5 DEF IInv, Typed
  <2>8. StreamAt' /\ RotationAt' /\ GapAt'
    BY <1>5, <1>8, <2>4, <2>5 DEF IInv, StreamAt, RotationAt, GapAt
  <2>9. QED
    BY <2>6, <2>7, <2>8 DEF IInv
<1>9. CASE stream # "open" /\ End("raised") /\ UNCHANGED <<file, pending, size>>
  <2>1. Part(0)' = Part(0) /\ outcome' = Append(outcome, "raised") /\ pc' = "idle"
    BY <1>9 DEF Part, Content, End
  <2>2. InOrder' /\ KeepsTheNewest' /\ PastOnly'
    BY <1>5, <1>9, <2>1, SameLog DEF IInv
  <2>3. Typed'
    BY <1>5, <1>9, <2>1 DEF IInv, Typed
  <2>4. StreamAt' /\ RotationAt' /\ GapAt'
    BY <1>5, <1>9, <2>1 DEF IInv, StreamAt, RotationAt, GapAt
  <2>5. QED
    BY <2>2, <2>3, <2>4 DEF IInv
<1>10. QED
  BY <1>5, <1>7, <1>8, <1>9 DEF Flush

(* The service is stopped at any step, with or without its buffer, and     *)
(* opens the log again.                                                    *)
LEMMA RestartStep == ASSUME IInv, Restart PROVE IInv'
<1>1. PICK s \in {<<>>, pending} : /\ file' = Content(file) \o s
                                   /\ size' = Bytes(Content(file) \o s)
  BY DEF Restart
<1>2. s \in Seq(Events) /\ Ascending(s) /\ Range(s) \subseteq Range(pending)
  BY <1>1, EmptyType DEF IInv, Typed, InOrder
<1>3. Part(0)' = Part(0) \o s /\ file' \in Files /\ file' # NoFile
  BY <1>1, <1>2, FileGrows DEF IInv
<1>4. /\ pc' = "idle" /\ stream' = "open" /\ pending' = <<>> /\ UNCHANGED <<backup, slot, lines>>
      /\ outcome' = IF pc = "idle" THEN outcome ELSE Append(outcome, "failed")
  BY DEF Restart
<1>5. InOrder' /\ KeepsTheNewest' /\ PastOnly'
  <2>1. /\ Range(s) \cup Range(<<>>) \subseteq Range(pending)
        /\ Range(s) \cup Range(<<>>) \subseteq Range(pending) \cup {Len(outcome) + 1}
    BY <1>2, EmptyType
  <2>2. "failed" = "logged" => Len(outcome) + 1 \in Range(s)
    OBVIOUS
  <2>3. outcome' = outcome \/ outcome' = Append(outcome, "failed")
    BY <1>4
  <2>4. Before(s, <<>>)
    BY EmptyType DEF Before
  <2>5. QED
    BY <1>2, <1>3, <1>4, <2>1, <2>2, <2>3, <2>4, EmptyType, Grown DEF IInv
<1>6. Typed'
  BY <1>3, <1>4, EmptyType DEF IInv, Typed
<1>7. StreamAt' /\ GapAt'
  BY <1>3, <1>4 DEF StreamAt, GapAt
<1>8. RotationAt'
  <2>1. file' = <<>> => size' = 0
    BY <1>1, Zenon DEF Bytes
  <2>2. QED
    BY <1>4, <2>1 DEF IInv, RotationAt
<1>9. QED
  BY <1>5, <1>6, <1>7, <1>8 DEF IInv

(* A file takes the next number.  What it overwrites is the oldest backup, *)
(* or nothing.                                                             *)
LEMMA Moved ==
    ASSUME Typed, PastOnly, InOrder, KeepsTheNewest, NEW k \in 1..Backups,
           k < Backups => Part(k) = <<>>, Part(k - 1) # <<>>,
           \A n \in 0..Backups : Part(n)' = IF n = k THEN Part(k - 1)
                                            ELSE IF n = k - 1 THEN <<>> ELSE Part(n),
           UNCHANGED <<pending, outcome>>
    PROVE  InOrder' /\ KeepsTheNewest' /\ PastOnly'
<1>1. k \in 0..Backups /\ k - 1 \in 0..Backups /\ k - 1 < k /\ Backups \in Nat
  BY BackupsAssumption
<1>2. Range(<<>>) = {} /\ Ascending(<<>>)
  BY EmptyType
<1>3. \A n \in 0..Backups : Ascending(Part(n)') /\ Before(Part(n)', pending)
  <2>1. TAKE n \in 0..Backups
  <2>2. Part(n)' = <<>> \/ Part(n)' = Part(k - 1) \/ Part(n)' = Part(n)
    OBVIOUS
  <2>3. Before(<<>>, pending)
    BY <1>2 DEF Before
  <2>4. QED
    BY <1>1, <1>2, <2>2, <2>3 DEF InOrder
<1>4. \A m, n \in 0..Backups : m < n => Before(Part(n)', Part(m)')
  <2>1. SUFFICES ASSUME NEW m \in 0..Backups, NEW n \in 0..Backups, m < n
                 PROVE  Before(Part(n)', Part(m)')
    OBVIOUS
  <2>2. CASE n = k - 1 \/ m = k - 1
    <3>1. Part(n)' = <<>> \/ Part(m)' = <<>>
      BY <1>1, <2>2
    <3>2. QED
      BY <1>2, <3>1 DEF Before
  <2>3. CASE n = k /\ m # k - 1
    <3>1. m < k - 1 /\ Part(n)' = Part(k - 1) /\ Part(m)' = Part(m)
      BY <1>1, <2>1, <2>3
    <3>2. QED
      BY <1>1, <3>1 DEF InOrder
  <2>4. CASE n # k /\ n # k - 1 /\ m = k
    <3>1. k - 1 < n /\ Part(n)' = Part(n) /\ Part(m)' = Part(k - 1)
      BY <1>1, <2>1, <2>4
    <3>2. QED
      BY <1>1, <3>1 DEF InOrder
  <2>5. CASE n # k /\ n # k - 1 /\ m # k /\ m # k - 1
    BY <2>1, <2>5 DEF InOrder
  <2>6. QED
    BY <2>2, <2>3, <2>4, <2>5
<1>5. InOrder'
  BY <1>3, <1>4 DEF InOrder, Ascending, Before, Range
<1>6. \A n \in 0..Backups : Range(Part(n))' = Range(Part(n)')
  BY DEF Range
<1>7. PastOnly'
  <2>1. \A n \in 0..Backups : Range(Part(n)') \subseteq 1..Len(outcome)
    <3>1. TAKE n \in 0..Backups
    <3>2. Part(n)' = <<>> \/ Part(n)' = Part(k - 1) \/ Part(n)' = Part(n)
      OBVIOUS
    <3>3. QED
      BY <1>1, <1>2, <3>2 DEF PastOnly
  <2>2. QED
    BY <1>6, <2>1 DEF PastOnly
<1>8. Logged' = UNION {Range(Part(n)') : n \in 0..Backups}
  BY DEF Logged, Range
<1>9. \A y \in Logged' :
        \E n \in 0..Backups : y \in Range(Part(n)) /\ (n # Backups \/ k < Backups)
  <2>1. TAKE y \in Logged'
  <2>2. PICK n \in 0..Backups : y \in Range(Part(n)')
    BY <1>8
  <2>3. CASE n = k
    <3>1. y \in Range(Part(k - 1)) /\ k - 1 # Backups
      BY <1>1, <2>2, <2>3
    <3>2. QED
      BY <1>1, <3>1
  <2>4. CASE n # k
    <3>1. n # k - 1 /\ y \in Range(Part(n))
      BY <1>2, <2>2, <2>4
    <3>2. n # Backups \/ k < Backups
      BY <1>1, <2>4
    <3>3. QED
      BY <3>1, <3>2
  <2>5. QED
    BY <2>3, <2>4
<1>10. Logged' \subseteq Logged
  BY <1>9 DEF Logged
<1>11. Logged' # {}
  <2>1. PICK x : x \in Range(Part(k - 1))
    <3>1. Part(k - 1) \in Seq(Events)
      BY <1>1, PartType
    <3>2. 1 \in DOMAIN Part(k - 1)
      BY <3>1
    <3>3. QED
      BY <3>2 DEF Range
  <2>2. x \in Range(Part(k)')
    BY <1>1, <2>1
  <2>3. QED
    BY <1>1, <1>8, <2>2
<1>12. \A x \in Logged : x \in Logged' \/ \A y \in Logged' : x < y
  <2>1. TAKE x \in Logged
  <2>2. PICK n \in 0..Backups : x \in Range(Part(n))
    BY DEF Logged
  <2>3. CASE n = k /\ k = Backups
    <3>1. ASSUME NEW y \in Logged' PROVE x < y
      <4>1. PICK m \in 0..Backups : y \in Range(Part(m)) /\ m # Backups
        BY <1>1, <1>9, <2>3
      <4>2. m < n
        BY <1>1, <2>3, <4>1
      <4>3. QED
        BY <2>2, <4>1, <4>2 DEF InOrder, Before
    <3>2. QED
      BY <3>1
  <2>4. CASE n = k /\ k # Backups
    BY <1>1, <1>2, <2>2, <2>4
  <2>5. CASE n = k - 1
    <3>1. x \in Range(Part(k)')
      BY <1>1, <2>2, <2>5
    <3>2. QED
      BY <1>1, <1>8, <3>1
  <2>6. CASE n # k /\ n # k - 1
    <3>1. x \in Range(Part(n)')
      BY <2>2, <2>6
    <3>2. QED
      BY <1>8, <3>1
  <2>7. QED
    BY <2>3, <2>4, <2>5, <2>6
<1>13. KeepsTheNewest'
  <2>1. SUFFICES ASSUME NEW e \in 1..Len(outcome), outcome[e] = "logged"
                 PROVE  e \in Logged' \/ \A x \in Logged' : e < x
    BY <1>11 DEF KeepsTheNewest
  <2>2. e \in Logged \/ \A x \in Logged : e < x
    BY <2>1 DEF KeepsTheNewest
  <2>3. QED
    BY <1>10, <1>12, <2>2
<1>14. QED
  BY <1>5, <1>7, <1>13

(* One number of the loop of _rotate: there is no file to move, the file   *)
(* is moved or cannot be, or the loop is over.                             *)
LEMMA ShiftStep == ASSUME IInv, Shift PROVE IInv'
<1> DEFINE source == IF slot = 1 THEN file ELSE backup[slot - 1]
<1>1. /\ pc = "shift" /\ stream = "none" /\ size > 0 /\ slot \in 0..Backups /\ Backups \in Nat
      /\ file # <<>> /\ UNCHANGED <<stream, pending, size, lines>>
  BY BackupsAssumption DEF IInv, Typed, StreamAt, RotationAt, Shift
<1>2. CASE slot > 0 /\ source = NoFile /\ slot' = slot - 1 /\ UNCHANGED <<pc, outcome, backup, file>>
  <2>1. InOrder' /\ KeepsTheNewest' /\ PastOnly'
    BY <1>1, <1>2, SameLog DEF IInv, Part, Content
  <2>2. slot' \in 0..Backups /\ (slot # 1 => backup[slot - 1] = NoFile)
    BY <1>1, <1>2
  <2>3. Typed' /\ StreamAt' /\ RotationAt'
    BY <1>1, <1>2, <2>2 DEF IInv, Typed, StreamAt, RotationAt
  <2>4. GapAt'
    BY <1>1, <1>2, <2>2 DEF GapAt
  <2>5. QED
    BY <2>1, <2>3, <2>4 DEF IInv
<1>3. CASE /\ slot > 0 /\ source # NoFile /\ slot' = slot - 1 /\ UNCHANGED <<pc, outcome>>
           /\ IF slot = 1
              THEN backup' = [backup EXCEPT ![1] = file] /\ file' = NoFile
              ELSE /\ backup' = [backup EXCEPT ![slot] = source, ![slot - 1] = NoFile]
                   /\ UNCHANGED file
  <2>1. PICK k \in 1..Backups : k = slot
    BY <1>1, <1>3
  <2>2. source \in Files /\ source # <<>> /\ NoFile \in Files
    BY <1>1, <2>1 DEF IInv, Typed, RotationAt, Files
  <2>3. Part(k - 1) = source
    <3>1. k = 1 => Part(k - 1) = Content(file)
      BY DEF Part
    <3>2. k # 1 => Part(k - 1) = Content(backup[k - 1])
      BY <1>1 DEF Part
    <3>3. QED
      BY <1>3, <2>1, <3>1, <3>2 DEF Content
  <2>4. \A n \in 1..Backups : backup'[n] = IF n = k THEN source
                                          ELSE IF n = k - 1 THEN NoFile ELSE backup[n]
    BY <1>1, <1>3, <2>1 DEF IInv, Typed
  <2>5. file' = IF k = 1 THEN NoFile ELSE file
    BY <1>3, <2>1
  <2>6. \A n \in 0..Backups : Part(n)' = IF n = k THEN Part(k - 1)
                                         ELSE IF n = k - 1 THEN <<>> ELSE Part(n)
    <3>1. TAKE n \in 0..Backups
    <3>2. CASE n = 0
      <4>1. Part(n)' = Content(file') /\ Part(n) = Content(file)
        BY <3>2 DEF Part, Content
      <4>2. k # 1 => n # k - 1
        BY <1>1, <3>2
      <4>3. k = 1 => n = k - 1
        BY <3>2
      <4>4. QED
        BY <2>5, <3>2, <4>1, <4>2, <4>3 DEF Content
    <3>3. CASE n # 0
      <4>1. n \in 1..Backups /\ Part(n)' = Content(backup'[n]) /\ Part(n) = Content(backup[n])
        BY <1>1, <3>3 DEF Part, Content
      <4>2. Content(NoFile) = <<>> /\ Content(source) = source
        BY <1>3 DEF Content
      <4>3. QED
        BY <2>3, <2>4, <4>1, <4>2
    <3>4. QED
      BY <3>2, <3>3
  <2>7. k < Backups => Part(k) = <<>>
    BY <1>1, <2>1 DEF IInv, GapAt, Part, Content
  <2>8. InOrder' /\ KeepsTheNewest' /\ PastOnly'
    BY <1>1, <1>3, <2>2, <2>3, <2>6, <2>7, Moved DEF IInv
  <2>9. backup' \in [1..Backups -> Files] /\ file' \in Files /\ slot' \in 0..Backups
    BY <1>1, <1>3, <2>1, <2>2 DEF IInv, Typed
  <2>10. Typed'
    BY <1>1, <1>3, <2>9 DEF IInv, Typed
  <2>11. NoFile # <<>>
    BY NoFileAssumption, EmptyType
  <2>12. StreamAt' /\ RotationAt'
    BY <1>1, <1>3, <2>2, <2>4, <2>5, <2>11 DEF IInv, StreamAt, RotationAt
  <2>13. GapAt'
    BY <1>1, <1>3, <2>1, <2>4 DEF GapAt
  <2>14. QED
    BY <2>8, <2>10, <2>12, <2>13 DEF IInv
<1>4. CASE Fails /\ UNCHANGED <<slot, backup, file>>
  <2>1. outcome' = Append(outcome, "failed") /\ pc' = "idle" /\ Part(0)' = Part(0)
    BY <1>4 DEF Fails, End, Part, Content
  <2>2. InOrder' /\ KeepsTheNewest' /\ PastOnly'
    BY <1>1, <1>4, <2>1, SameLog DEF IInv
  <2>3. Typed'
    BY <1>1, <1>4, <2>1 DEF IInv, Typed
  <2>4. StreamAt' /\ RotationAt' /\ GapAt'
    BY <1>1, <1>4, <2>1 DEF IInv, StreamAt, RotationAt, GapAt
  <2>5. QED
    BY <2>2, <2>3, <2>4 DEF IInv
<1>5. CASE slot = 0 /\ pc' = "open" /\ UNCHANGED <<slot, backup, file, outcome>>
  <2>1. InOrder' /\ KeepsTheNewest' /\ PastOnly'
    BY <1>1, <1>5, SameLog DEF IInv, Part, Content
  <2>2. Typed' /\ StreamAt' /\ RotationAt' /\ GapAt'
    BY <1>1, <1>5 DEF IInv, Typed, StreamAt, RotationAt, GapAt
  <2>3. QED
    BY <2>1, <2>2 DEF IInv
<1>6. QED
  BY <1>2, <1>3, <1>4, <1>5 DEF Shift

(* The inductive invariant holds in every reachable state, whichever call  *)
(* of a rotation fails and wherever the service is restarted.              *)
THEOREM Invariance == Spec => []IInv
<1>1. ASSUME IInv, UNCHANGED vars PROVE IInv'
  <2>1. InOrder' /\ KeepsTheNewest' /\ PastOnly'
    BY <1>1, SameLog DEF vars, IInv, Part, Content
  <2>2. Typed' /\ StreamAt' /\ RotationAt' /\ GapAt'
    BY <1>1 DEF vars, IInv, Typed, StreamAt, RotationAt, GapAt
  <2>3. QED
    BY <2>1, <2>2 DEF IInv
<1>2. IInv /\ [Next]_vars => IInv'
  BY <1>1, WriteStep, CloseStep, ShiftStep, OpenStep, FlushStep, RestartStep DEF Next
<1>3. QED
  BY <1>2, InitIInv, PTL DEF Spec

(* RequestLog.write and _rotate: the backups, path and the buffer together *)
(* hold the events in the order of their requests, and none of them twice. *)
THEOREM LogInOrder == Spec => []InOrder
<1>1. IInv => InOrder
  BY DEF IInv
<1>2. QED
  BY <1>1, Invariance, PTL

(* RequestLog._rotate: an event that was logged disappears only with the   *)
(* oldest backup, so that everything newer than the log's oldest event is  *)
(* still there.                                                            *)
THEOREM NewestKept == Spec => []KeepsTheNewest
<1>1. IInv => KeepsTheNewest
  BY DEF IInv
<1>2. QED
  BY <1>1, Invariance, PTL

(* RequestLog._rotate: a backup that is not the last one stays or takes    *)
(* the next number, also in a rotation after one which failed half-way:    *)
(* os.replace overwrites nothing but the last backup.                      *)
THEOREM OverwritesOldestOnly ==
    Spec => [][\A n \in 1..Backups - 1 :
                  backup[n] # NoFile => backup[n] \in {backup'[n], backup'[n + 1]}]_vars
<1> DEFINE A == \A n \in 1..Backups - 1 :
                  backup[n] # NoFile => backup[n] \in {backup'[n], backup'[n + 1]}
<1>1. IInv /\ [Next]_vars => [A]_vars
  <2>1. SUFFICES ASSUME IInv, Next PROVE A
    OBVIOUS
  <2>2. CASE UNCHANGED backup
    BY <2>2
  <2>3. CASE Shift
    BY <2>1, <2>3, BackupsAssumption DEF Shift, IInv, Typed, GapAt
  <2>4. QED
    BY <2>1, <2>2, <2>3 DEF Next, Write, Close, Open, Flush, Restart
<1>2. QED
  BY <1>1, Invariance, PTL DEF Spec

=============================================================================

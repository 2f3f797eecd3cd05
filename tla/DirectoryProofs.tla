--------------------------- MODULE DirectoryProofs ---------------------------
(***************************************************************************)
(* The safety of Directory for every cap, window and size of page.         *)
(*                                                                         *)
(* The proof has three inductive invariants.  TypeInv: the LSTAT requests  *)
(* outstanding are the bare entries of the batch.  ListingInv: as long as  *)
(* the loop of bounded_listing runs, every file among the entries that it  *)
(* got is listed, and those entries, the batch and the page are all that   *)
(* the directory has delivered.  ProbeInv: what check_access knows of its  *)
(* probe at each step, and that a request outlives its session only.       *)
(***************************************************************************)
EXTENDS Directory, FiniteSetTheorems, TLAPS

Loop == {"open", "scan", "readdir", "batch", "yield"}

(* A request for the mode of each bare entry of the batch, and no other;   *)
(* only a lost session leaves any behind.                                  *)
LookupsAt ==
    /\ pc = "yield" => lookups = Bare(batch) /\ Len(batch) <= Window
    /\ pc \in {"open", "scan", "readdir", "batch"} => lookups = 0
    /\ pc # "yield" /\ lookups > 0 => link = "down"

TypeInv == TypeOK /\ LookupsAt

(* The caps are not exceeded, and every file is listed.                    *)
Within == files = Listable /\ Len(seen) <= MaxScan /\ Cardinality(Listable) <= MaxResults

(* The entries delivered are the ones got, those of the batch and of the   *)
(* page.                                                                   *)
Scanning ==
    pc \in Loop => Within /\ result = "none" /\ served = Len(seen) + Len(batch) + Len(page)

Positions ==
    /\ pc \in {"open", "scan", "readdir"} => page = <<>> /\ batch = <<>>
    /\ pc = "batch" => batch = <<>>

(* The files that a listing may hold.                                      *)
FilesUpTo(i) == {j \in Listable : j <= i}
FirstFiles == {i \in Listable : i <= MaxScan /\ Cardinality(FilesUpTo(i)) <= MaxResults}

Ended == result = "listed" => Within /\ ended /\ Len(seen) = served
Cut == result = "truncated" =>
    /\ Len(seen) > MaxScan \/ Cardinality(Listable) > MaxResults
    /\ files = FirstFiles

ListingInv == Scanning /\ Positions /\ Ended /\ Cut

(* Where the probe may be.                                                 *)
ProbeAt ==
    /\ late # "none" => link = "down"
    /\ pc \in Loop \cup {"close", "probe"} => probe = FALSE /\ late = "none"
    /\ pc = "remove" => late = "none"
    /\ pc = "cleanup" => \/ result = "readonly" /\ probe = FALSE /\ late # "create"
                         \/ result = "error"

ProbeInv == ProbeAt /\ CheckLeavesNothing

----------------------------------------------------------------------------
(* The probe.                                                              *)

(* There is no probe initially.                                            *)
LEMMA InitProbe == Init => ProbeInv
BY DEF Init, ProbeInv, ProbeAt, CheckLeavesNothing, Loop

(* Nothing is known of the probe but what its own steps did.               *)
LEMMA NextProbe == ProbeInv /\ [Next]_vars => ProbeInv'
<1> SUFFICES ASSUME ProbeInv, [Next]_vars PROVE ProbeInv'
  OBVIOUS
<1> USE DEF ProbeInv, ProbeAt, CheckLeavesNothing, Loop
<1>1. CASE UNCHANGED vars
  BY <1>1 DEF vars
<1>2. CASE OpenDirectory
  BY <1>2 DEF OpenDirectory, Raises, probing
<1>3. CASE Scan \/ Readdir \/ Batch \/ Yield
  <2>1. pc \in Loop /\ pc' \in Loop \cup {"close"} /\ UNCHANGED probing
    BY <1>3 DEF Scan, Readdir, Batch, Yield, Consume, Return
  <2>2. QED
    BY <2>1 DEF probing
<1>4. CASE CloseDirectory
  BY <1>4 DEF CloseDirectory, probing
<1>5. CASE CreateProbe
  <2>1. pc = "probe" /\ probe = FALSE /\ late = "none"
    BY <1>5 DEF CreateProbe
  <2>2. CASE link = "up" /\ probe' = TRUE /\ pc' = "remove" /\ UNCHANGED <<link, late, stuck, result>>
    BY <2>1, <2>2
  <2>3. CASE /\ Answered("readonly", IF backend = "local" THEN "done" ELSE "cleanup")
             /\ UNCHANGED <<link, probing>>
    BY <2>1, <2>3 DEF Answered, probing
  <2>4. CASE /\ ProbeFails /\ probe' \in {FALSE, backend = "sftp"} /\ UNCHANGED <<link, late, stuck>>
    <3>1. CASE backend = "local"
      <4>1. probe' = FALSE
        BY <2>4, <3>1
      <4>2. QED
        BY <2>1, <2>4, <3>1, <4>1 DEF ProbeFails, Answered
    <3>2. CASE backend # "local"
      BY <2>1, <2>4, <3>2 DEF ProbeFails, Answered
    <3>3. QED
      BY <3>1, <3>2
  <2>5. CASE Lose("create") /\ ProbeFails
    BY <2>1, <2>5 DEF ProbeFails, Answered, Lose
  <2>6. QED
    BY <1>5, <2>2, <2>3, <2>4, <2>5 DEF CreateProbe
<1>6. CASE RemoveProbe
  BY <1>6 DEF RemoveProbe, Removed, NotRemoved, Answered, ProbeFails, Lose
<1>7. CASE CleanUp
  BY <1>7 DEF CleanUp, Removed, NotRemoved, Lose
<1>8. CASE ServeLate
  BY <1>8 DEF ServeLate
<1>9. QED
  BY <1>1, <1>2, <1>3, <1>4, <1>5, <1>6, <1>7, <1>8 DEF Next, Client

(* A healthcheck that says writable or read-only leaves no probe; one that *)
(* fails leaves one only behind a lost session or a refused removal.       *)
THEOREM ProbeRemoved == Spec => []CheckLeavesNothing
<1>1. ProbeInv => CheckLeavesNothing
  BY DEF ProbeInv
<1>2. QED
  BY InitProbe, NextProbe, <1>1, PTL DEF Spec

----------------------------------------------------------------------------
(* The types, and the lookups in flight.                                   *)

(* Where the bare entries of a sequence are.                               *)
BareAt(s) == {i \in DOMAIN s : s[i] = "bare"}

(* Its bare entries can be counted, and are no more than its entries.      *)
LEMMA BareFacts ==
    ASSUME NEW s \in Seq(Kinds)
    PROVE  /\ IsFiniteSet(BareAt(s)) /\ Bare(s) = Cardinality(BareAt(s))
           /\ Bare(s) \in Nat /\ Bare(s) <= Len(s) /\ (s = <<>> => Bare(s) = 0)
<1>1. Len(s) \in Nat /\ DOMAIN s = 1..Len(s)
  OBVIOUS
<1>2. IsFiniteSet(1..Len(s)) /\ Cardinality(1..Len(s)) = Len(s)
  BY <1>1, FS_Interval
<1>3. BareAt(s) \in SUBSET (1..Len(s))
  BY <1>1 DEF BareAt
<1>4. IsFiniteSet(BareAt(s)) /\ Cardinality(BareAt(s)) <= Cardinality(1..Len(s))
  BY <1>2, <1>3, FS_Subset
<1>5. Bare(s) = Cardinality(BareAt(s))
  BY DEF Bare, BareAt
<1>6. Cardinality(BareAt(s)) \in Nat
  BY <1>4, FS_CardinalityType
<1>7. ASSUME s = <<>> PROVE Bare(s) = 0
  BY <1>2, <1>4, <1>5, <1>6, <1>7
<1>8. QED
  BY <1>2, <1>4, <1>5, <1>6, <1>7

(* The entry that leaves the batch takes its own lookup with it.           *)
LEMMA BareTail ==
    ASSUME NEW s \in Seq(Kinds), s # <<>>
    PROVE  Bare(s) = IF Head(s) = "bare" THEN Bare(Tail(s)) + 1 ELSE Bare(Tail(s))
<1> DEFINE T == BareAt(Tail(s))
           U == BareAt(s) \ {1}
           f == [i \in T |-> i + 1]
<1>1. /\ Len(s) \in Nat \ {0} /\ Head(s) = s[1] /\ DOMAIN s = 1..Len(s)
      /\ Tail(s) \in Seq(Kinds) /\ Len(Tail(s)) = Len(s) - 1
  OBVIOUS
<1>2. DOMAIN Tail(s) = 1..Len(s) - 1 /\ \A i \in 1..Len(s) - 1 : Tail(s)[i] = s[i + 1]
  BY <1>1
<1>3. f \in [T -> U]
  BY <1>1, <1>2 DEF BareAt
<1>4. \A i, j \in T : f[i] = f[j] => i = j
  BY <1>1, <1>2 DEF BareAt
<1>5. \A j \in U : \E i \in T : f[i] = j
  <2> SUFFICES ASSUME NEW j \in U PROVE \E i \in T : f[i] = j
    OBVIOUS
  <2>1. j \in 2..Len(s) /\ s[j] = "bare" /\ j - 1 \in 1..Len(s) - 1 /\ j - 1 + 1 = j
    BY <1>1 DEF BareAt
  <2>2. j - 1 \in T
    BY <1>2, <2>1 DEF BareAt
  <2>3. QED
    BY <2>1, <2>2
<1>6. f \in Bijection(T, U)
  BY <1>3, <1>4, <1>5 DEF Bijection, Injection, Surjection, IsInjective
<1>7. IsFiniteSet(T) /\ Bare(Tail(s)) = Cardinality(T)
  BY <1>1, BareFacts
<1>8. IsFiniteSet(U) /\ Cardinality(U) = Cardinality(T)
  BY <1>6, <1>7, FS_Bijection DEF ExistsBijection
<1>9. CASE Head(s) = "bare"
  <2>1. BareAt(s) = U \cup {1} /\ 1 \notin U
    BY <1>1, <1>9 DEF BareAt
  <2>2. Cardinality(BareAt(s)) = Cardinality(U) + 1
    <3> HIDE DEF U
    <3>1. QED
      BY <1>8, <2>1, FS_AddElement
  <2>3. QED
    BY <1>7, <1>8, <1>9, <2>2, BareFacts
<1>10. CASE Head(s) # "bare"
  <2>1. BareAt(s) = U
    BY <1>1, <1>10 DEF BareAt
  <2>2. QED
    BY <1>7, <1>8, <1>10, <2>1, BareFacts
<1>11. QED
  BY <1>9, <1>10

(* The files listed are entries.                                           *)
LEMMA ConsumeTypes ==
    ASSUME TypeOK, NEW isFile \in BOOLEAN, NEW n \in 0..Window, Consume(isFile, n)
    PROVE  /\ seen' \in Seq(BOOLEAN) /\ files' \subseteq DOMAIN seen'
           /\ \/ pc' = "close" /\ result' = "truncated" /\ lookups' = 0
              \/ pc' = pc /\ result' = result /\ lookups' = n
<1>1. seen' \in Seq(BOOLEAN) /\ Len(seen') = Len(seen) + 1 /\ Len(seen) \in Nat
  BY DEF TypeOK, Consume
<1>2. files \subseteq 1..Len(seen) /\ DOMAIN seen' = 1..Len(seen')
  BY <1>1 DEF TypeOK
<1>3. files' = files \/ files' = files \cup {Len(seen')}
  BY DEF Consume
<1>4. files' \subseteq DOMAIN seen'
  <2>1. Len(seen') \in DOMAIN seen' /\ 1..Len(seen) \subseteq DOMAIN seen'
    BY <1>1, <1>2
  <2>2. QED
    BY <1>2, <1>3, <2>1
<1>5. QED
  BY <1>1, <1>4 DEF Consume, Return

(* Pages are sequences of entries.                                         *)
LEMMA PageTypes == ASSUME NEW p \in Pages PROVE p \in Seq(Kinds) /\ Len(p) \in Nat \ {0}
<1>1. PICK m \in 0..MaxPage : p \in [1..m -> Kinds]
  BY DEF Pages, BoundedSeq, SeqOf
<1>2. m \in Nat
  BY <1>1, PagesAssumption
<1>3. p \in Seq(Kinds) /\ Len(p) = m /\ p # <<>>
  BY <1>1, <1>2 DEF Pages
<1>4. QED
  BY <1>2, <1>3

(* The first entries of a page are the next batch.                         *)
LEMMA BatchTypes ==
    ASSUME NEW s \in Seq(Kinds), NEW n, n = IF Len(s) < Window THEN Len(s) ELSE Window
    PROVE  /\ n \in 0..Window /\ SubSeq(s, 1, n) \in Seq(Kinds) /\ Len(SubSeq(s, 1, n)) = n
           /\ SubSeq(s, n + 1, Len(s)) \in Seq(Kinds)
           /\ Len(SubSeq(s, n + 1, Len(s))) = Len(s) - n
<1>1. Len(s) \in Nat /\ n \in 0..Window /\ n \in 0..Len(s) /\ n \in Nat /\ n <= Len(s)
  BY PagesAssumption
<1>2. QED
  BY <1>1

(* The initial state has its types.                                        *)
LEMMA InitTypes == Init => TypeInv
<1> SUFFICES ASSUME Init PROVE TypeInv
  OBVIOUS
<1>1. handle \in BOOLEAN /\ ended \in BOOLEAN /\ probe \in BOOLEAN /\ stuck \in BOOLEAN
  BY Zenon DEF Init
<1>2. lookups \in 0..Window /\ served \in Nat /\ seen \in Seq(BOOLEAN) /\ files \subseteq DOMAIN seen
      /\ page \in Seq(Kinds) /\ batch \in Seq(Kinds)
  BY PagesAssumption DEF Init
<1>3. TypeOK
  BY <1>1, <1>2 DEF Init, TypeOK
<1>4. QED
  BY <1>3 DEF Init, TypeInv, LookupsAt

(* Steps outside of the loop of the listing.                               *)
LEMMA OutsideTypes ==
    ASSUME TypeInv, OpenDirectory \/ CloseDirectory \/ CreateProbe \/ RemoveProbe \/ CleanUp
                    \/ ServeLate \/ UNCHANGED vars
    PROVE  TypeInv'
<1>1. TypeOK /\ lookups \in 0..Window
  BY DEF TypeInv, TypeOK
<1>2. UNCHANGED <<request, backend, page, batch, lookups, seen, files, ended, served>>
  BY DEF OpenDirectory, CloseDirectory, CreateProbe, RemoveProbe, CleanUp, ServeLate, entries,
     listing, vars
<1>3. link' \in {"up", "down"}
  BY <1>1 DEF TypeOK, OpenDirectory, Raises, CloseDirectory, CreateProbe, RemoveProbe, Removed,
     NotRemoved, Lose, CleanUp, ServeLate, vars
<1>4. handle' \in BOOLEAN
  <2>1. handle' = handle \/ handle' = TRUE \/ handle' = FALSE
    BY DEF OpenDirectory, CloseDirectory, CreateProbe, RemoveProbe, CleanUp, ServeLate, entries,
       vars
  <2>2. QED
    BY <1>1, <2>1, Zenon DEF TypeOK
<1>5. probe' \in BOOLEAN
  <2>1. CASE CreateProbe
    <3>1. probe' \in {probe, TRUE, FALSE, backend = "sftp"}
      BY <2>1 DEF CreateProbe, Lose, probing
    <3>2. QED
      BY <1>1, <3>1 DEF TypeOK
  <2>2. CASE ServeLate
    BY <2>2 DEF ServeLate
  <2>3. CASE OpenDirectory \/ CloseDirectory \/ RemoveProbe \/ CleanUp \/ UNCHANGED vars
    <3>1. probe' = probe \/ probe' = FALSE
      BY <2>3 DEF OpenDirectory, CloseDirectory, RemoveProbe, CleanUp, Removed, NotRemoved, Lose,
         probing, vars
    <3>2. QED
      BY <1>1, <3>1, Zenon DEF TypeOK
  <2>4. QED
    BY <2>1, <2>2, <2>3
<1>6. stuck' \in BOOLEAN
  <2>1. stuck' = stuck \/ stuck' = TRUE
    BY DEF OpenDirectory, CloseDirectory, CreateProbe, RemoveProbe, CleanUp, Removed, NotRemoved,
       Lose, probing, ServeLate, vars
  <2>2. QED
    BY <1>1, <2>1, Zenon DEF TypeOK
<1>7. late' \in {"none", "create", "remove"}
  BY <1>1 DEF TypeOK, OpenDirectory, CloseDirectory, CreateProbe, RemoveProbe, CleanUp, Removed,
     NotRemoved, Lose, probing, ServeLate, vars
<1>8. result' \in {"none", "listed", "truncated", "writable", "readonly", "error"}
  BY <1>1 DEF TypeOK, OpenDirectory, CloseDirectory, CreateProbe, RemoveProbe, CleanUp, ProbeFails,
     Answered, ServeLate, vars
<1>9. \/ pc' = pc
      \/ pc # "yield" /\ pc' \in {"scan", "readdir", "close", "probe", "remove", "cleanup", "done"}
  BY DEF OpenDirectory, CloseDirectory, CreateProbe, RemoveProbe, CleanUp, ProbeFails, Answered,
     ServeLate, vars
<1>10. TypeOK'
  BY <1>1, <1>2, <1>3, <1>4, <1>5, <1>6, <1>7, <1>8, <1>9 DEF TypeOK
<1>11. LookupsAt'
  <2>1. pc # "open" => (link = "down" => link' = "down")
    BY DEF OpenDirectory, CloseDirectory, CreateProbe, RemoveProbe, CleanUp, Removed, NotRemoved,
       Lose, ServeLate, vars
  <2>2. pc = "open" => lookups = 0
    BY DEF TypeInv, LookupsAt
  <2>3. pc' # pc => lookups = 0 \/ pc' \notin {"scan", "readdir"}
    BY <2>2 DEF OpenDirectory, CloseDirectory, CreateProbe, RemoveProbe, CleanUp, ProbeFails,
       Answered, ServeLate, vars
  <2>4. QED
    BY <1>1, <1>2, <1>9, <2>1, <2>2, <2>3 DEF TypeInv, LookupsAt
<1>12. QED
  BY <1>10, <1>11 DEF TypeInv

(* Steps of the loop that yield no entry.                                  *)
LEMMA ReadTypes == ASSUME TypeInv, Readdir \/ Batch PROVE TypeInv'
<1>1. TypeOK /\ lookups = 0 /\ page \in Seq(Kinds) /\ served \in Nat
      /\ UNCHANGED <<request, backend, handle, seen, files, probe, late, stuck>>
  BY DEF TypeInv, TypeOK, LookupsAt, Readdir, Batch, listing, probing
<1>2. CASE Readdir
  <2>1. page' \in Seq(Kinds) /\ served' \in Nat
    BY <1>1, <1>2, PageTypes DEF Readdir
  <2>2. pc' \in {"batch", "close"} /\ result' \in {result, "listed", "error"} /\ lookups' = 0
        /\ UNCHANGED batch /\ link' \in {"up", "down"}
    BY <1>1, <1>2 DEF Readdir, Return, Raises, TypeOK
  <2>3. ended' = ended \/ ended' = TRUE
    BY <1>2 DEF Readdir
  <2>4. ended' \in BOOLEAN
    BY <1>1, <2>3, Zenon DEF TypeOK
  <2>5. QED
    BY <1>1, <2>1, <2>2, <2>4, PagesAssumption DEF TypeInv, TypeOK, LookupsAt
<1>3. CASE Batch
  <2>1. PICK n : n = IF Len(page) < Window THEN Len(page) ELSE Window
    OBVIOUS
  <2>2. /\ n \in 0..Window /\ SubSeq(page, 1, n) \in Seq(Kinds) /\ Len(SubSeq(page, 1, n)) = n
        /\ SubSeq(page, n + 1, Len(page)) \in Seq(Kinds)
    BY <1>1, <2>1, BatchTypes
  <2>3. UNCHANGED <<served, ended>> /\ link' \in {"up", "down"} /\ result' \in {result, "error"}
    BY <1>1, <1>3 DEF Batch, Return, TypeOK
  <2>4. CASE pc' = "yield"
    <3>1. batch' = SubSeq(page, 1, n) /\ page' = SubSeq(page, n + 1, Len(page))
          /\ lookups' = Bare(SubSeq(page, 1, n))
      BY <1>3, <2>1, <2>4 DEF Batch, Return
    <3>2. lookups' \in 0..Window
      <4>1. Bare(SubSeq(page, 1, n)) \in Nat /\ Bare(SubSeq(page, 1, n)) <= n
        BY <2>2, BareFacts
      <4>2. QED
        BY <2>2, <3>1, <4>1, PagesAssumption
    <3>3. TypeOK'
      BY <1>1, <2>2, <2>3, <2>4, <3>1, <3>2 DEF TypeOK
    <3>4. LookupsAt'
      BY <2>2, <2>4, <3>1 DEF LookupsAt
    <3>5. QED
      BY <3>3, <3>4 DEF TypeInv
  <2>5. CASE pc' # "yield"
    <3>1. /\ UNCHANGED <<page, batch>>
          /\ \/ pc' = "readdir" /\ lookups' = 0
             \/ pc' = "close" /\ link' = "down" /\ lookups' \in 1..Bare(SubSeq(page, 1, n))
      BY <1>1, <1>3, <2>1, <2>5 DEF Batch
    <3>2. lookups' \in 0..Window
      <4>1. Bare(SubSeq(page, 1, n)) \in Nat /\ Bare(SubSeq(page, 1, n)) <= n
        BY <2>2, BareFacts
      <4>2. QED
        BY <2>2, <3>1, <4>1, PagesAssumption
    <3>3. QED
      BY <1>1, <2>3, <3>1, <3>2, PagesAssumption DEF TypeInv, TypeOK, LookupsAt
  <2>6. QED
    BY <2>4, <2>5
<1>4. QED
  BY <1>2, <1>3

(* Steps of the loop that yield an entry.                                  *)
LEMMA EntryTypes == ASSUME TypeInv, Scan \/ Yield PROVE TypeInv'
<1>1. TypeOK /\ page \in Seq(Kinds) /\ batch \in Seq(Kinds) /\ served \in Nat /\ lookups \in 0..Window
      /\ UNCHANGED <<request, backend, handle, page, probe, late, stuck>>
  BY DEF TypeInv, TypeOK, Scan, Yield, probing
<1>2. CASE Scan
  <2>1. pc = "scan" /\ lookups = 0 /\ UNCHANGED <<link, batch>> /\ served' \in Nat
    BY <1>1, <1>2 DEF Scan, TypeInv, LookupsAt
  <2>2. ended' \in BOOLEAN
    <3>1. ended' = ended \/ ended' = TRUE
      BY <1>2 DEF Scan
    <3>2. QED
      BY <1>1, <3>1, Zenon DEF TypeOK
  <2>3. /\ seen' \in Seq(BOOLEAN) /\ files' \subseteq DOMAIN seen'
        /\ pc' \in {"scan", "close"} /\ lookups' = 0
        /\ result' \in {result, "truncated", "listed", "error"}
    <3>1. ASSUME NEW isFile \in BOOLEAN, Consume(isFile, lookups)
          PROVE  /\ seen' \in Seq(BOOLEAN) /\ files' \subseteq DOMAIN seen'
                 /\ pc' \in {"scan", "close"} /\ lookups' = 0 /\ result' \in {result, "truncated"}
      BY <1>1, <2>1, <3>1, ConsumeTypes
    <3>2. CASE (Return("listed") \/ Return("error")) /\ UNCHANGED listing
      BY <1>1, <3>2 DEF Return, listing, TypeOK
    <3>3. QED
      BY <1>2, <3>1, <3>2 DEF Scan
  <2>4. QED
    BY <1>1, <2>1, <2>2, <2>3, PagesAssumption DEF TypeInv, TypeOK, LookupsAt
<1>3. CASE Yield
  <2>1. pc = "yield" /\ lookups = Bare(batch) /\ Len(batch) <= Window /\ UNCHANGED <<served, ended>>
        /\ link' \in {"up", "down"}
    BY <1>1, <1>3 DEF Yield, TypeInv, TypeOK, LookupsAt, Raises
  <2>2. CASE batch = <<>>
    <3>1. Bare(batch) = 0
      BY <1>1, <2>2, BareFacts
    <3>2. pc' = "batch" /\ UNCHANGED <<batch, lookups, seen, files, result>>
      BY <1>3, <2>2 DEF Yield, listing
    <3>3. QED
      BY <1>1, <2>1, <3>1, <3>2 DEF TypeInv, TypeOK, LookupsAt
  <2>3. CASE batch # <<>>
    <3>1. batch' = Tail(batch) /\ Tail(batch) \in Seq(Kinds) /\ Len(Tail(batch)) = Len(batch) - 1
          /\ Len(batch) \in Nat
      BY <1>1, <1>3, <2>3 DEF Yield
    <3>2. Bare(Tail(batch)) \in Nat /\ Bare(Tail(batch)) <= Len(batch) - 1
      BY <3>1, BareFacts
    <3>3. Bare(Tail(batch)) \in 0..Window /\ Len(Tail(batch)) <= Window
      BY <2>1, <3>1, <3>2, PagesAssumption
    <3>4. PICK left : left = IF Head(batch) = "bare" THEN lookups - 1 ELSE lookups
      OBVIOUS
    <3>5. left = Bare(Tail(batch))
      <4>1. Bare(batch) = IF Head(batch) = "bare" THEN Bare(Tail(batch)) + 1 ELSE Bare(Tail(batch))
        BY <1>1, <2>3, BareTail
      <4>2. QED
        BY <2>1, <3>2, <3>4, <4>1
    <3>6. \/ \E isFile \in BOOLEAN : Consume(isFile, left)
          \/ Return("error") /\ UNCHANGED listing
      BY <1>3, <2>3, <3>4 DEF Yield
    <3>7. /\ seen' \in Seq(BOOLEAN) /\ files' \subseteq DOMAIN seen'
          /\ result' \in {result, "truncated", "error"}
          /\ (pc' = "close" /\ lookups' = 0) \/ (pc' = "yield" /\ lookups' = left)
      <4>1. ASSUME NEW isFile \in BOOLEAN, Consume(isFile, left)
            PROVE  /\ seen' \in Seq(BOOLEAN) /\ files' \subseteq DOMAIN seen'
                   /\ result' \in {result, "truncated", "error"}
                   /\ (pc' = "close" /\ lookups' = 0) \/ (pc' = "yield" /\ lookups' = left)
        BY <1>1, <2>1, <3>3, <3>5, <4>1, ConsumeTypes
      <4>2. CASE Return("error") /\ UNCHANGED listing
        BY <1>1, <4>2 DEF Return, listing, TypeOK
      <4>3. QED
        BY <3>6, <4>1, <4>2
    <3>8. QED
      BY <1>1, <2>1, <3>1, <3>3, <3>5, <3>7, PagesAssumption DEF TypeInv, TypeOK, LookupsAt
  <2>4. QED
    BY <2>2, <2>3
<1>4. QED
  BY <1>2, <1>3

(* Every step keeps the types.                                             *)
LEMMA NextTypes == TypeInv /\ [Next]_vars => TypeInv'
BY OutsideTypes, ReadTypes, EntryTypes DEF Next, Client

(* The state stays within its types: no more than Window lookups are in    *)
(* flight.                                                                 *)
THEOREM TypeCorrect == Spec => []TypeOK
<1>1. TypeInv => TypeOK
  BY DEF TypeInv
<1>2. QED
  BY InitTypes, NextTypes, <1>1, PTL DEF Spec

----------------------------------------------------------------------------
(* The listing.                                                            *)

(* The files among the entries can be counted, up to any of them.          *)
LEMMA ListableFacts ==
    ASSUME seen \in Seq(BOOLEAN)
    PROVE  /\ Len(seen) \in Nat /\ Listable \subseteq 1..Len(seen)
           /\ IsFiniteSet(Listable) /\ Cardinality(Listable) \in Nat
           /\ \A i : /\ Cardinality(FilesUpTo(i)) \in Nat
                     /\ Cardinality(FilesUpTo(i)) <= Cardinality(Listable)
<1>1. Len(seen) \in Nat /\ Listable \in SUBSET (1..Len(seen))
  BY DEF Listable
<1>2. IsFiniteSet(Listable) /\ Cardinality(Listable) \in Nat
  <2>1. IsFiniteSet(1..Len(seen))
    BY <1>1, FS_Interval
  <2>2. QED
    BY <1>1, <2>1, FS_Subset, FS_CardinalityType
<1>3. ASSUME NEW i PROVE /\ Cardinality(FilesUpTo(i)) \in Nat
                         /\ Cardinality(FilesUpTo(i)) <= Cardinality(Listable)
  <2>1. FilesUpTo(i) \in SUBSET Listable
    BY DEF FilesUpTo
  <2>2. QED
    BY <1>2, <2>1, FS_Subset, FS_CardinalityType
<1>4. QED
  BY <1>1, <1>2, <1>3

(* A listing within the caps holds the first files, which are all.         *)
LEMMA WithinIsFirst == ASSUME seen \in Seq(BOOLEAN), Within PROVE files = FirstFiles
<1>1. ASSUME NEW i \in Listable
      PROVE  i <= MaxScan /\ Cardinality(FilesUpTo(i)) <= MaxResults
  BY ListableFacts, CapsAssumption DEF Within
<1>2. QED
  BY <1>1 DEF Within, FirstFiles

(* One more entry.                                                         *)
LEMMA Appended ==
    ASSUME seen \in Seq(BOOLEAN), NEW isFile \in BOOLEAN, seen' = Append(seen, isFile)
    PROVE  /\ seen' \in Seq(BOOLEAN) /\ Len(seen') = Len(seen) + 1
           /\ Len(seen) + 1 \notin Listable
           /\ Listable' = IF isFile THEN Listable \cup {Len(seen) + 1} ELSE Listable
<1>1. Len(seen) \in Nat /\ DOMAIN seen = 1..Len(seen)
  OBVIOUS
<1>2. seen' \in Seq(BOOLEAN) /\ Len(seen') = Len(seen) + 1 /\ DOMAIN seen' = 1..Len(seen) + 1
      /\ (\A i \in 1..Len(seen) : seen'[i] = seen[i]) /\ seen'[Len(seen) + 1] = isFile
  OBVIOUS
<1>3. \A i : i \in 1..Len(seen) + 1 <=> i \in 1..Len(seen) \/ i = Len(seen) + 1
  BY <1>1
<1>4. Len(seen) + 1 \notin 1..Len(seen)
  BY <1>1
<1>5. QED
  BY <1>1, <1>2, <1>3, <1>4 DEF Listable

(* One turn of the loop stays within the caps, or stops with the first     *)
(* files.                                                                  *)
LEMMA ConsumeListing ==
    ASSUME seen \in Seq(BOOLEAN), Within, NEW isFile \in BOOLEAN, NEW n, Consume(isFile, n)
    PROVE  /\ Len(seen') = Len(seen) + 1
           /\ \/ /\ pc' = "close" /\ result' = "truncated"
                 /\ (Len(seen) > MaxScan \/ Cardinality(Listable) > MaxResults)'
                 /\ files' = FirstFiles'
              \/ pc' = pc /\ result' = result /\ Within'
<1>0. PICK last : last = Len(seen) + 1
  OBVIOUS
<1>1. /\ seen' = Append(seen, isFile) /\ seen' \in Seq(BOOLEAN) /\ Len(seen') = last
      /\ last \notin Listable
      /\ Listable' = IF isFile THEN Listable \cup {last} ELSE Listable
  BY <1>0, Appended DEF Consume
<1>2. /\ Len(seen) \in Nat /\ Listable \subseteq 1..Len(seen) /\ IsFiniteSet(Listable)
      /\ Cardinality(Listable) \in Nat /\ files = Listable
      /\ Len(seen) <= MaxScan /\ Cardinality(Listable) <= MaxResults
  BY ListableFacts DEF Within
<1>3. Cardinality(Listable') = IF isFile THEN Cardinality(Listable) + 1 ELSE Cardinality(Listable)
  BY <1>1, <1>2, FS_AddElement
<1>4. CASE last > MaxScan \/ (isFile /\ Cardinality(files) >= MaxResults)
  <2>1. pc' = "close" /\ result' = "truncated" /\ files' = files
    BY <1>0, <1>1, <1>4 DEF Consume, Return
  <2>2. Len(seen') > MaxScan \/ Cardinality(Listable') > MaxResults
    BY <1>0, <1>1, <1>2, <1>3, <1>4, CapsAssumption
  <2>3. ASSUME NEW i \in Listable
        PROVE  /\ i \in Listable' /\ i <= MaxScan
               /\ Cardinality(FilesUpTo(i)') <= MaxResults
    <3>1. i \in 1..Len(seen) /\ i <= MaxScan
      BY <1>2, CapsAssumption
    <3>2. FilesUpTo(i)' = FilesUpTo(i)
      BY <1>0, <1>1, <1>2, <3>1 DEF FilesUpTo
    <3>3. Cardinality(FilesUpTo(i)) \in Nat
          /\ Cardinality(FilesUpTo(i)) <= Cardinality(Listable)
      BY ListableFacts
    <3>4. QED
      BY <1>1, <1>2, <3>1, <3>2, <3>3, CapsAssumption
  <2>4. ASSUME last \in Listable', last <= MaxScan
        PROVE  ~(Cardinality(FilesUpTo(last)') <= MaxResults)
    <3>1. isFile /\ Cardinality(Listable) >= MaxResults
      BY <1>0, <1>1, <1>2, <1>4, <2>4, CapsAssumption
    <3>2. FilesUpTo(last)' = Listable'
      <4>1. \A j \in Listable' : j <= last
        BY <1>0, <1>1, <1>2
      <4>2. QED
        BY <4>1 DEF FilesUpTo
    <3>3. QED
      BY <1>2, <1>3, <3>1, <3>2, CapsAssumption
  <2>5. FirstFiles' = Listable
    <3>1. \A i \in Listable' : i \in Listable \/ i = last
      BY <1>1
    <3>2. QED
      BY <2>3, <2>4, <3>1 DEF FirstFiles
  <2>6. QED
    BY <1>0, <1>1, <1>2, <2>1, <2>2, <2>5
<1>5. CASE ~(last > MaxScan \/ (isFile /\ Cardinality(files) >= MaxResults))
  <2>1. pc' = pc /\ result' = result /\ files' = Listable'
    BY <1>0, <1>1, <1>2, <1>5 DEF Consume
  <2>2. last <= MaxScan /\ Cardinality(Listable') <= MaxResults
    BY <1>0, <1>2, <1>3, <1>5, CapsAssumption
  <2>3. QED
    BY <1>0, <1>1, <2>1, <2>2 DEF Within
<1>6. QED
  BY <1>4, <1>5

(* Nothing is listed initially.                                            *)
LEMMA InitListing == Init => ListingInv
<1> SUFFICES ASSUME Init PROVE ListingInv
  OBVIOUS
<1>1. Listable = {} /\ Cardinality(Listable) = 0
  BY FS_EmptySet DEF Init, Listable
<1>2. Within
  BY <1>1, CapsAssumption DEF Init, Within
<1>3. QED
  BY <1>2 DEF Init, ListingInv, Scanning, Positions, Ended, Cut

(* A step that gets no entry leaves what is listed alone.                  *)
LEMMA ListingKept ==
    ASSUME UNCHANGED listing
    PROVE  /\ Listable' = Listable /\ FirstFiles' = FirstFiles /\ Len(seen') = Len(seen)
           /\ Within' <=> Within
BY DEF listing, Listable, FirstFiles, FilesUpTo, Within

(* Steps outside of the loop.                                              *)
LEMMA OutsideListing ==
    ASSUME ListingInv, OpenDirectory \/ CloseDirectory \/ CreateProbe \/ RemoveProbe \/ CleanUp
                       \/ ServeLate \/ UNCHANGED vars
    PROVE  ListingInv'
<1>1. UNCHANGED listing /\ UNCHANGED <<page, batch, served, ended>>
  BY DEF OpenDirectory, CloseDirectory, CreateProbe, RemoveProbe, CleanUp, ServeLate, entries,
     listing, vars
<1>2. UNCHANGED files
  BY <1>1 DEF listing
<1>3. \/ pc' = pc /\ result' = result
      \/ pc = "open" /\ pc' \in {"scan", "readdir", "close"} /\ result' = result
      \/ pc' \notin Loop /\ result' \in {result, "none", "writable", "readonly", "error"}
  BY DEF OpenDirectory, CloseDirectory, CreateProbe, RemoveProbe, CleanUp, ProbeFails, Answered,
     ServeLate, vars, Loop
<1>4. QED
  BY <1>1, <1>2, <1>3, ListingKept DEF ListingInv, Scanning, Positions, Ended, Cut, Loop

(* Steps of the loop that get no entry: the directory has delivered a page *)
(* or its end, or a batch is taken from the page.                          *)
LEMMA ReadListing == ASSUME TypeOK, ListingInv, Readdir \/ Batch PROVE ListingInv'
<1>1. /\ UNCHANGED listing /\ UNCHANGED files /\ batch = <<>> /\ Len(seen) \in Nat /\ served \in Nat
      /\ page \in Seq(Kinds) /\ Within /\ result = "none" /\ served = Len(seen) + Len(page)
  <2>1. UNCHANGED listing /\ UNCHANGED files /\ pc \in {"readdir", "batch"}
    BY DEF Readdir, Batch, listing
  <2>2. QED
    BY <2>1 DEF ListingInv, Scanning, Positions, Loop, TypeOK
<1>2. CASE Readdir
  <2>1. page = <<>> /\ UNCHANGED batch
    BY <1>2 DEF Readdir, ListingInv, Positions
  <2>2. ASSUME NEW p \in Pages, page' = p, served' = served + Len(p), pc' = "batch", UNCHANGED result
        PROVE  ListingInv'
    BY <1>1, <2>1, <2>2, PageTypes, ListingKept DEF ListingInv, Scanning, Positions, Ended, Cut
  <2>3. CASE ended' = TRUE /\ Return("listed") /\ UNCHANGED <<page, served>>
    BY <1>1, <2>1, <2>3, ListingKept
       DEF Return, ListingInv, Scanning, Positions, Ended, Cut, Loop
  <2>4. CASE Return("error")
    BY <2>4 DEF Return, ListingInv, Scanning, Positions, Ended, Cut, Loop
  <2>5. QED
    BY <1>2, <2>2, <2>3, <2>4 DEF Readdir
<1>3. CASE Batch
  <2>1. PICK n : n = IF Len(page) < Window THEN Len(page) ELSE Window
    OBVIOUS
  <2>2. /\ n \in 0..Window /\ Len(SubSeq(page, 1, n)) = n
        /\ Len(SubSeq(page, n + 1, Len(page))) = Len(page) - n
    BY <1>1, <2>1, BatchTypes
  <2>3. UNCHANGED served
    BY <1>3 DEF Batch
  <2>4. CASE page = <<>> /\ pc' = "readdir" /\ UNCHANGED <<page, batch, result>>
    BY <1>1, <2>3, <2>4, ListingKept DEF ListingInv, Scanning, Positions, Ended, Cut, Loop
  <2>5. CASE /\ batch' = SubSeq(page, 1, n) /\ page' = SubSeq(page, n + 1, Len(page))
             /\ pc' = "yield" /\ UNCHANGED result
    <3>1. served' = Len(seen') + Len(batch') + Len(page')
      <4>1. Len(batch') = n /\ Len(page') = Len(page) - n /\ Len(seen') = Len(seen)
        BY <1>1, <2>2, <2>5, ListingKept
      <4>2. n \in Nat /\ Len(page) \in Nat
        BY <1>1, <2>2, PagesAssumption
      <4>3. QED
        BY <1>1, <2>3, <4>1, <4>2
    <3>2. QED
      BY <1>1, <2>5, <3>1, ListingKept DEF ListingInv, Scanning, Positions, Ended, Cut
  <2>6. CASE pc' = "close" /\ result' = "error"
    BY <2>6 DEF ListingInv, Scanning, Positions, Ended, Cut, Loop
  <2>7. QED
    BY <1>3, <2>1, <2>4, <2>5, <2>6 DEF Batch
<1>4. QED
  BY <1>2, <1>3

(* Steps of the loop that get an entry, the end or an error.               *)
LEMMA EntryListing == ASSUME TypeOK, ListingInv, Scan \/ Yield PROVE ListingInv'
<1>1. /\ Within /\ result = "none" /\ served = Len(seen) + Len(batch) + Len(page)
      /\ seen \in Seq(BOOLEAN) /\ Len(seen) \in Nat /\ served \in Nat
      /\ page \in Seq(Kinds) /\ batch \in Seq(Kinds) /\ UNCHANGED page
  BY DEF Scan, Yield, ListingInv, Scanning, Loop, TypeOK
<1>2. ASSUME NEW isFile \in BOOLEAN, NEW n, Consume(isFile, n), pc \in {"scan", "yield"}, Positions',
             served' = Len(seen) + 1 + Len(batch') + Len(page)
      PROVE  ListingInv'
  <2>1. Len(seen') = Len(seen) + 1
    BY <1>1, <1>2, ConsumeListing
  <2>2. CASE /\ pc' = "close" /\ result' = "truncated"
             /\ (Len(seen) > MaxScan \/ Cardinality(Listable) > MaxResults)'
             /\ files' = FirstFiles'
    BY <1>2, <2>2 DEF ListingInv, Scanning, Ended, Cut, Loop
  <2>3. CASE pc' = pc /\ result' = result /\ Within'
    BY <1>1, <1>2, <2>1, <2>3 DEF ListingInv, Scanning, Ended, Cut, Loop
  <2>4. QED
    BY <1>1, <1>2, <2>2, <2>3, ConsumeListing
<1>3. CASE Return("error")
  BY <1>3 DEF Return, ListingInv, Scanning, Positions, Ended, Cut, Loop
<1>4. CASE Scan
  <2>1. page = <<>> /\ batch = <<>> /\ UNCHANGED batch /\ pc = "scan"
    BY <1>4 DEF Scan, ListingInv, Positions
  <2>2. ASSUME NEW isFile \in BOOLEAN, Consume(isFile, lookups), served' = served + 1
        PROVE  ListingInv'
    <3>1. pc' \in {"scan", "close"}
      BY <2>1, <2>2 DEF Consume, Return
    <3>2. Positions'
      BY <1>1, <2>1, <3>1 DEF Positions
    <3>3. served' = Len(seen) + 1 + Len(batch') + Len(page)
      BY <1>1, <2>1, <2>2
    <3>4. QED
      BY <1>2, <2>1, <2>2, <3>2, <3>3
  <2>3. CASE ended' = TRUE /\ Return("listed") /\ UNCHANGED <<served, listing>>
    <3>1. UNCHANGED listing /\ UNCHANGED files
      BY <2>3 DEF listing
    <3>2. QED
      BY <1>1, <2>1, <2>3, <3>1, ListingKept
         DEF Return, ListingInv, Scanning, Positions, Ended, Cut, Loop
  <2>4. QED
    BY <1>3, <1>4, <2>2, <2>3 DEF Scan
<1>5. CASE Yield
  <2>1. pc = "yield" /\ UNCHANGED served
    BY <1>5 DEF Yield
  <2>2. CASE batch = <<>>
    <3>1. pc' = "batch" /\ UNCHANGED <<batch, result>> /\ UNCHANGED listing
      BY <1>5, <2>2 DEF Yield
    <3>2. UNCHANGED files
      BY <3>1 DEF listing
    <3>3. QED
      BY <1>1, <2>1, <2>2, <3>1, <3>2, ListingKept
         DEF ListingInv, Scanning, Positions, Ended, Cut, Loop
  <2>3. CASE batch # <<>>
    <3>1. batch' = Tail(batch) /\ Len(Tail(batch)) = Len(batch) - 1 /\ Len(batch) \in Nat
          /\ Len(page) \in Nat
      BY <1>1, <1>5, <2>3 DEF Yield
    <3>2. served' = Len(seen) + 1 + Len(batch') + Len(page)
      <4>1. Len(batch') = Len(batch) - 1
        BY <3>1
      <4>2. served' = Len(seen) + Len(batch) + Len(page)
        BY <1>1, <2>1
      <4>3. Len(seen) \in Nat /\ Len(batch) \in Nat /\ Len(page) \in Nat
        BY <1>1, <3>1
      <4>4. QED
        BY <4>1, <4>2, <4>3
    <3>3. ASSUME NEW isFile \in BOOLEAN, NEW n, Consume(isFile, n) PROVE ListingInv'
      <4>1. pc' \in {"yield", "close"}
        BY <2>1, <3>3 DEF Consume, Return
      <4>2. Positions'
        BY <4>1 DEF Positions
      <4>3. QED
        BY <1>2, <2>1, <3>2, <3>3, <4>2
    <3>4. \/ \E isFile \in BOOLEAN : Consume(isFile, lookups) \/ Consume(isFile, lookups - 1)
          \/ Return("error")
      BY <1>5, <2>3 DEF Yield
    <3>5. QED
      BY <1>3, <3>3, <3>4
  <2>4. QED
    BY <2>2, <2>3
<1>6. QED
  BY <1>4, <1>5

(* Every step keeps what is known of the listing.                          *)
LEMMA NextListing == TypeOK /\ ListingInv /\ [Next]_vars => ListingInv'
BY OutsideListing, ReadListing, EntryListing DEF Next, Client

(* bounded_listing calls a listing truncated exactly when a cap was        *)
(* exceeded, and lists the first files and no others, for every directory. *)
THEOREM ListedExactly == Spec => []ListingExact
<1>1. ASSUME TypeOK, ListingInv PROVE ListingExact
  <2>1. seen \in Seq(BOOLEAN) /\ Len(seen) \in Nat /\ Cardinality(Listable) \in Nat
    BY <1>1, ListableFacts DEF TypeOK
  <2>2. CASE result = "listed"
    <3>1. Within /\ ended /\ Len(seen) = served
      BY <1>1, <2>2 DEF ListingInv, Ended
    <3>2. files = FirstFiles
      BY <2>1, <3>1, WithinIsFirst
    <3>3. ~(Len(seen) > MaxScan \/ Cardinality(Listable) > MaxResults)
      BY <2>1, <3>1, CapsAssumption DEF Within
    <3>4. QED
      BY <2>2, <3>1, <3>2, <3>3 DEF ListingExact, FirstFiles, FilesUpTo
  <2>3. CASE result = "truncated"
    BY <1>1, <2>3 DEF ListingInv, Cut, ListingExact, FirstFiles, FilesUpTo
  <2>4. QED
    BY <2>2, <2>3 DEF ListingExact
<1>2. QED
  BY TypeCorrect, InitListing, NextListing, <1>1, PTL DEF Spec

----------------------------------------------------------------------------
(* The directory is closed.                                                *)

(* Where a handle may be open, and where only a lost session leaves it so. *)
HandleInv ==
    /\ backend = "local" => link = "up" /\ pc \notin {"readdir", "batch", "yield"}
    /\ pc = "open" => ~handle
    /\ pc \in {"probe", "remove", "cleanup", "done"} => (handle => link = "down")

(* Every step keeps track of the handle.                                   *)
LEMMA NextHandle == HandleInv /\ [Next]_vars => HandleInv'
<1> SUFFICES ASSUME HandleInv, [Next]_vars PROVE HandleInv'
  OBVIOUS
<1> USE DEF HandleInv
<1>1. CASE OpenDirectory
  BY <1>1 DEF OpenDirectory, Raises
<1>2. CASE Scan
  BY <1>2 DEF Scan, Consume, Return
<1>3. CASE Readdir \/ Batch
  BY <1>3 DEF Readdir, Batch, Return, Raises
<1>4. CASE Yield
  BY <1>4 DEF Yield, Consume, Return, Raises
<1>5. CASE CloseDirectory
  BY <1>5 DEF CloseDirectory
<1>6. CASE CreateProbe
  BY <1>6 DEF CreateProbe, Answered, ProbeFails, Lose, entries
<1>7. CASE RemoveProbe \/ CleanUp
  BY <1>7 DEF RemoveProbe, CleanUp, Removed, NotRemoved, Answered, ProbeFails, Lose, entries
<1>8. CASE ServeLate
  BY <1>8 DEF ServeLate, entries
<1>9. CASE UNCHANGED vars
  BY <1>9 DEF vars
<1>10. QED
  BY <1>1, <1>2, <1>3, <1>4, <1>5, <1>6, <1>7, <1>8, <1>9 DEF Next, Client

(* list_files and check_access: a request that has returned has no lookup  *)
(* outstanding and has closed the directory, unless its session was lost.  *)
THEOREM NothingLeftOpen ==
    Spec => [](pc = "done" => (handle \/ lookups > 0 => link = "down"))
<1>1. Init => HandleInv
  BY DEF Init, HandleInv
<1>2. TypeInv /\ HandleInv => (pc = "done" => (handle \/ lookups > 0 => link = "down"))
  BY DEF TypeInv, LookupsAt, HandleInv
<1>3. QED
  BY InitTypes, NextTypes, NextHandle, <1>1, <1>2, PTL DEF Spec

=============================================================================

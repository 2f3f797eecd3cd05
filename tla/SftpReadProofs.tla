--------------------------- MODULE SftpReadProofs ----------------------------
(***************************************************************************)
(* The safety of SftpRead for every window, request size, file size and    *)
(* size of the caller's reads.                                             *)
(*                                                                         *)
(* InOrder is not inductive: a request is sent from nextOffset, so that    *)
(* the last request in flight, or what the caller has if there is none,    *)
(* must end there (Chained), and a reply replaces leftover, which must be  *)
(* empty then (Control).  EndsWhole is the same chain without requests.    *)
(***************************************************************************)
EXTENDS SftpRead, TLAPS

(* The caller has, and is about to get, the units from 0 on.               *)
Delivered ==
    /\ \A i \in 1..Len(received) : received[i] = i - 1
    /\ \A i \in 1..Len(leftover) : leftover[i] = Len(received) + i - 1
    /\ Len(received) + Len(leftover) <= target

(* Where the i-th request in flight ends; 0 stands for what was received.  *)
EndOf(i) == IF i = 0 THEN Len(received) + Len(leftover) ELSE pending[i].off + pending[i].len

(* The requests in flight follow each other up to nextOffset.              *)
Chained ==
    /\ \A i \in 1..Len(pending) : pending[i].off + pending[i].len <= target
    /\ pc # "error" => \A i \in 1..Len(pending) : pending[i].off = EndOf(i - 1)
    /\ pc \notin {"error", "left"} => EndOf(Len(pending)) = nextOffset
    /\ Len(pending) <= Window

(* What the client knows at each of its steps.                             *)
Control ==
    /\ pc = "open" => target = 0 /\ nextOffset = 0 /\ pending = <<>> /\ leftover = <<>>
    /\ pc = "fill" => leftover = <<>> /\ (pending # <<>> \/ unrequested)
    /\ pc = "receive" => leftover = <<>> /\ pending # <<>>
    /\ pc = "end" => Exhausted

IInv == TypeOK /\ Delivered /\ Chained /\ Control

(* The smaller of two numbers.                                             *)
LEMMA MinOfTwo ==
    ASSUME NEW a \in Int, NEW b \in Int
    PROVE  Min({a, b}) \in {a, b} /\ Min({a, b}) <= a /\ Min({a, b}) <= b
<1>1. \E x \in {a, b} : \A y \in {a, b} : x =< y
  <2>1. CASE a <= b
    BY <2>1
  <2>2. CASE ~(a <= b)
    BY <2>2
  <2>3. QED
    BY <2>1, <2>2
<1>2. Min({a, b}) \in {a, b} /\ \A y \in {a, b} : Min({a, b}) =< y
  BY <1>1 DEF Min
<1>3. QED
  BY <1>2

(* The units that a reply carries.                                         *)
LEMMA UnitsFacts ==
    ASSUME NEW off \in Nat, NEW n \in Nat, off + n <= MaxSize
    PROVE  /\ Units(off, n) \in Seq(0..MaxSize - 1) /\ Len(Units(off, n)) = n
           /\ \A i \in 1..n : Units(off, n)[i] = off + i - 1
<1>1. \A i \in 1..n : off + i - 1 \in 0..MaxSize - 1
  BY BoundsAssumption
<1>2. QED
  BY <1>1 DEF Units

(* What Tail leaves of a sequence.                                         *)
LEMMA TailFacts ==
    ASSUME NEW S, NEW s \in Seq(S), s # <<>>
    PROVE  /\ Len(s) \in Nat \ {0} /\ Head(s) = s[1] /\ s[1] \in S
           /\ Tail(s) \in Seq(S) /\ Len(Tail(s)) = Len(s) - 1
           /\ \A i \in 1..Len(s) - 1 : Tail(s)[i] = s[i + 1]
<1>1. Len(s) \in Nat /\ Len(s) # 0 /\ Head(s) = s[1]
  OBVIOUS
<1>2. Tail(s) \in Seq(S) /\ Len(Tail(s)) = Len(s) - 1
  OBVIOUS
<1>3. \A i \in 1..Len(s) - 1 : Tail(s)[i] = s[i + 1]
  BY <1>1, <1>2
<1>4. s[1] \in S
  BY <1>1
<1>5. QED
  BY <1>1, <1>2, <1>3, <1>4

(* What the caller takes of the leftover, and what stays of it.            *)
LEMMA SplitFacts ==
    ASSUME NEW S, NEW s \in Seq(S), NEW t \in Seq(S), NEW n \in 0..Len(t),
           NEW u, u = s \o SubSeq(t, 1, n), NEW v, v = SubSeq(t, n + 1, Len(t))
    PROVE  /\ u \in Seq(S) /\ v \in Seq(S)
           /\ Len(u) = Len(s) + n /\ Len(v) = Len(t) - n
           /\ \A i \in 1..Len(s) : u[i] = s[i]
           /\ \A i \in 1..n : u[Len(s) + i] = t[i]
           /\ \A i \in 1..Len(v) : v[i] = t[n + i]
<1> DEFINE p == SubSeq(t, 1, n)
<1>1. Len(s) \in Nat /\ Len(t) \in Nat /\ n \in Nat /\ n <= Len(t)
  OBVIOUS
<1>2. p \in Seq(S) /\ Len(p) = n /\ \A i \in 1..n : p[i] = t[i]
  BY <1>1
<1>3. v \in Seq(S) /\ Len(v) = Len(t) - n /\ \A i \in 1..Len(v) : v[i] = t[n + i]
  BY <1>1
<1> HIDE DEF p
<1>4. u \in Seq(S) /\ Len(u) = Len(s) + n
  BY <1>1, <1>2
<1>5. \A i \in 1..Len(s) : u[i] = s[i]
  BY <1>1, <1>2
<1>6. \A i \in 1..n : u[Len(s) + i] = t[i]
  BY <1>1, <1>2
<1>7. QED
  BY <1>3, <1>4, <1>5, <1>6 DEF p

(* Nothing is requested or received initially.                             *)
LEMMA InitIInv == Init => IInv
<1> SUFFICES ASSUME Init PROVE IInv
  OBVIOUS
<1>1. TypeOK
  BY BoundsAssumption, RequestSizeAssumption DEF Init, TypeOK
<1>2. Delivered
  BY DEF Init, Delivered
<1>3. Chained
  BY WindowAssumption DEF Init, Chained, EndOf
<1>4. Control
  BY DEF Init, Control
<1>5. QED
  BY <1>1, <1>2, <1>3, <1>4 DEF IInv

(* Steps that send nothing, receive nothing and hand out nothing.          *)
LEMMA QuietStep ==
    ASSUME IInv, length' \in 0..MaxSize, link' \in {"up", "down"}, wanted' \in 0..MaxRead,
           UNCHANGED <<limit, target, download, received>>,
           \/ pc' = pc
           \/ /\ pc \notin {"error", "left"}
              /\ pc' \in {"idle", "fill", "receive", "take", "release", "end", "error", "left"},
           Control'
    PROVE  IInv'
<1>1. TypeOK'
  BY DEF IInv, TypeOK, download
<1>2. Delivered'
  BY DEF IInv, Delivered, download
<1>3. Chained'
  BY DEF IInv, Chained, EndOf, download
<1>4. QED
  BY <1>1, <1>2, <1>3 DEF IInv

(* The size that is promised is that of the opened file, up to the limit.  *)
LEMMA OpenIInv == ASSUME IInv, OpenFile PROVE IInv'
<1>1. CASE pc' = "left" /\ UNCHANGED target
  <2>1. Control'
    BY <1>1 DEF Control
  <2>2. QED
    BY <1>1, <2>1, QuietStep DEF IInv, TypeOK, OpenFile, server
<1>2. CASE pc' = "idle" /\ target' = Min({length, limit})
  <2>1. /\ pc = "open" /\ length \in 0..MaxSize /\ limit \in 0..MaxSize
        /\ target = 0 /\ nextOffset = 0 /\ pending = <<>> /\ leftover = <<>>
        /\ Len(received) + Len(leftover) = 0
        /\ UNCHANGED <<length, link, limit, nextOffset, pending, leftover, wanted, received>>
    BY DEF IInv, TypeOK, Control, Chained, EndOf, OpenFile, server, download
  <2>2. target' \in 0..limit
    <3>1. length \in Int /\ limit \in Int
      BY <2>1
    <3>2. Min({length, limit}) \in {length, limit} /\ Min({length, limit}) <= limit
      BY <3>1, MinOfTwo
    <3>3. QED
      BY <1>2, <2>1, <3>2
  <2>3. TypeOK'
    BY <1>2, <2>1, <2>2 DEF IInv, TypeOK
  <2>4. Delivered' /\ Chained' /\ Control'
    BY <1>2, <2>1, <2>2 DEF IInv, Delivered, Chained, EndOf, Control
  <2>5. QED
    BY <2>3, <2>4 DEF IInv
<1>3. QED
  BY <1>1, <1>2 DEF OpenFile

(* The caller's steps.                                                     *)
LEMMA CallIInv ==
    ASSUME IInv, Leave \/ \E n \in 1..MaxRead : Call(n) PROVE IInv'
<1>1. CASE Leave
  <2>1. Control'
    BY <1>1 DEF Leave, Control
  <2>2. QED
    BY <1>1, <2>1, QuietStep DEF IInv, TypeOK, Leave, server
<1>2. ASSUME NEW n \in 1..MaxRead, Call(n) PROVE IInv'
  <2>1. Control'
    BY <1>2 DEF Call, Control, Exhausted, unrequested, download
  <2>2. wanted' \in 0..MaxRead
    BY <1>2, BoundsAssumption DEF Call
  <2>3. QED
    BY <1>2, <2>1, <2>2, QuietStep DEF IInv, TypeOK, Call, server
<1>3. QED
  BY <1>1, <1>2

(* What others do to the file and to the session.                          *)
LEMMA OthersIInv == ASSUME IInv, Resize \/ Drop PROVE IInv'
<1>1. UNCHANGED <<pc, limit, target, download, wanted, received>>
  BY DEF Resize, Drop
<1>2. length' \in 0..MaxSize /\ link' \in {"up", "down"}
  BY DEF Resize, Drop, IInv, TypeOK
<1>3. Control'
  BY <1>1 DEF IInv, Control, Exhausted, unrequested, download
<1>4. QED
  BY <1>1, <1>2, <1>3, QuietStep DEF IInv, TypeOK

(* The download is released.                                               *)
LEMMA ReleaseIInv == ASSUME IInv, Release PROVE IInv'
<1>1. pc' = "left" /\ pending' = <<>>
      /\ UNCHANGED <<length, link, limit, target, nextOffset, leftover, wanted, received>>
  BY DEF Release, server
<1>2. TypeOK'
  BY <1>1 DEF IInv, TypeOK
<1>3. Delivered' /\ Chained' /\ Control'
  BY <1>1, WindowAssumption DEF IInv, Delivered, Chained, Control
<1>4. QED
  BY <1>2, <1>3 DEF IInv

(* A request is sent where the last one ends.                              *)
LEMMA FillIInv == ASSUME IInv, Fill PROVE IInv'
<1> DEFINE more == Len(pending) < Window /\ unrequested
           len == Min({RequestSize, target - nextOffset})
           sent == [off |-> nextOffset, len |-> len, reply |-> Waiting]
<1>1. CASE more /\ link = "down" /\ pc' = "error" /\ UNCHANGED <<pending, nextOffset>>
  <2>1. Control'
    BY <1>1 DEF Control
  <2>2. QED
    BY <1>1, <2>1, QuietStep DEF IInv, TypeOK, Fill, server, download
<1>2. CASE ~more /\ pc' = "receive" /\ UNCHANGED <<pending, nextOffset>>
  <2>1. pending # <<>> /\ leftover = <<>>
    BY <1>2, WindowAssumption DEF IInv, Control, Fill
  <2>2. Control'
    BY <1>2, <2>1 DEF Control, Fill
  <2>3. QED
    BY <1>2, <2>2, QuietStep DEF IInv, TypeOK, Fill, server, download
<1>3. CASE /\ more /\ link = "up" /\ pending' = Append(pending, sent)
           /\ nextOffset' = nextOffset + len /\ UNCHANGED pc
  <2>1. /\ target \in 0..MaxSize /\ nextOffset \in 0..target /\ nextOffset < target
        /\ Len(pending) \in Nat /\ Len(pending) < Window
        /\ pc = "fill" /\ leftover = <<>>
        /\ UNCHANGED <<length, link, limit, target, leftover, wanted, received, pc>>
    BY <1>3, BoundsAssumption DEF IInv, TypeOK, Control, Fill, server, unrequested
  <2>2. len \in 1..RequestSize /\ nextOffset + len <= target
    <3>1. RequestSize \in Int /\ target - nextOffset \in Int
      BY <2>1, RequestSizeAssumption
    <3>2. len \in {RequestSize, target - nextOffset} /\ len <= RequestSize
          /\ len <= target - nextOffset
      BY <3>1, MinOfTwo
    <3> HIDE DEF len
    <3>3. QED
      BY <2>1, <3>2, RequestSizeAssumption
  <2> HIDE DEF len
  <2>3. sent \in Requests
    BY <2>1, <2>2, BoundsAssumption, RequestSizeAssumption DEF Requests, Waiting
  <2>4. sent.off = nextOffset /\ sent.len = len
    OBVIOUS
  <2> HIDE DEF sent
  <2>5. /\ pending' \in Seq(Requests) /\ Len(pending') = Len(pending) + 1
        /\ pending'[Len(pending) + 1] = sent
        /\ \A i \in 1..Len(pending) : pending'[i] = pending[i]
    BY <1>3, <2>3 DEF IInv, TypeOK
  <2>6. TypeOK'
    BY <1>3, <2>1, <2>2, <2>5 DEF IInv, TypeOK
  <2>7. Delivered'
    BY <2>1 DEF IInv, Delivered
  <2>8. Chained'
    <3>1. EndOf(Len(pending)) = nextOffset
      BY <2>1 DEF IInv, Chained
    <3>2. \A i \in 0..Len(pending) : EndOf(i)' = EndOf(i)
      BY <2>1, <2>5 DEF EndOf
    <3>3. \A i \in 1..Len(pending') : pending'[i].off = EndOf(i - 1)'
      BY <2>1, <2>4, <2>5, <3>1, <3>2 DEF IInv, Chained
    <3>4. \A i \in 1..Len(pending') : pending'[i].off + pending'[i].len <= target'
      BY <2>1, <2>2, <2>4, <2>5 DEF IInv, Chained
    <3>5. (EndOf(Len(pending)) = nextOffset)'
      BY <1>3, <2>1, <2>4, <2>5 DEF EndOf
    <3>6. QED
      BY <2>1, <2>5, <3>3, <3>4, <3>5, WindowAssumption DEF Chained
  <2>9. Control'
    BY <2>1, <2>5 DEF Control
  <2>10. QED
    BY <2>6, <2>7, <2>8, <2>9 DEF IInv
<1>4. QED
  BY <1>1, <1>2, <1>3 DEF Fill

(* The reply to the oldest request continues what the caller has, and the  *)
(* request for its remainder takes the place of the request.               *)
LEMMA ReceiveIInv == ASSUME IInv, Receive PROVE IInv'
<1>1. /\ pc = "receive" /\ leftover = <<>> /\ pending # <<>> /\ pending \in Seq(Requests)
      /\ target \in 0..MaxSize /\ nextOffset \in 0..target /\ Len(received) \in Nat
      /\ Len(leftover) = 0 /\ Len(pending) <= Window
      /\ UNCHANGED <<length, link, limit, target, nextOffset, wanted, received>>
  BY BoundsAssumption DEF IInv, TypeOK, Control, Chained, Receive, server
<1>2. PICK r \in Requests : r = pending[1] /\ r = head
  BY <1>1, TailFacts DEF head
<1>3. /\ Len(pending) \in Nat \ {0}
      /\ Tail(pending) \in Seq(Requests) /\ Len(Tail(pending)) = Len(pending) - 1
      /\ \A i \in 1..Len(pending) - 1 : Tail(pending)[i] = pending[i + 1]
  BY <1>1, TailFacts
<1>4. \A i \in 1..Len(pending) :
          pending[i].off = EndOf(i - 1) /\ pending[i].off + pending[i].len <= target
  BY <1>1 DEF IInv, Chained
<1>5. 1 \in 1..Len(pending) /\ 1 - 1 = 0
  BY <1>3
<1>6. /\ r.off \in Nat /\ r.len \in 1..RequestSize /\ r.reply \in -2..RequestSize + 1
      /\ r.off = Len(received) /\ r.off + r.len <= target
  <2>1. r.off \in 0..MaxSize /\ r.len \in 1..RequestSize /\ r.reply \in -2..RequestSize + 1
    BY <1>2 DEF Requests
  <2>2. r.off = EndOf(0) /\ r.off + r.len <= target
    BY <1>2, <1>4, <1>5
  <2>3. QED
    BY <1>1, <2>1, <2>2, BoundsAssumption DEF EndOf
<1>7. \A i \in 1..Len(pending) :
         /\ pending[i].off = IF i = 1 THEN r.off ELSE pending[i - 1].off + pending[i - 1].len
         /\ pending[i].off + pending[i].len <= target
  <2> SUFFICES ASSUME NEW i \in 1..Len(pending)
               PROVE  /\ pending[i].off = IF i = 1 THEN r.off
                                          ELSE pending[i - 1].off + pending[i - 1].len
                      /\ pending[i].off + pending[i].len <= target
    OBVIOUS
  <2>1. i # 1 => i - 1 # 0
    OBVIOUS
  <2>2. QED
    BY <1>2, <1>4, <2>1 DEF EndOf
<1>8. pending[Len(pending)].off + pending[Len(pending)].len = nextOffset
  BY <1>1, <1>3 DEF IInv, Chained, EndOf
<1>9. CASE /\ r.reply = r.len /\ pc' = "take"
           /\ leftover' = Units(r.off, r.reply) /\ pending' = Tail(pending)
  <2>1. /\ leftover' \in Seq(0..MaxSize - 1) /\ Len(leftover') = r.len
        /\ \A i \in 1..r.len : leftover'[i] = r.off + i - 1
    <3>1. r.len \in Nat /\ r.off + r.len <= MaxSize
      BY <1>1, <1>6, BoundsAssumption, RequestSizeAssumption
    <3>2. leftover' = Units(r.off, r.len)
      BY <1>9
    <3>3. QED
      BY <1>6, <3>1, <3>2, UnitsFacts
  <2>2. TypeOK'
    BY <1>1, <1>3, <1>6, <1>9, <2>1 DEF IInv, TypeOK
  <2>3. Delivered'
    BY <1>1, <1>6, <2>1 DEF IInv, Delivered
  <2>4. Chained'
    <3>1. \A i \in 1..Len(pending') : pending'[i] = pending[i + 1] /\ i + 1 \in 1..Len(pending)
      BY <1>3, <1>9
    <3>2. \A i \in 1..Len(pending') : pending'[i].off + pending'[i].len <= target'
      BY <1>1, <1>7, <3>1
    <3>3. \A i \in 1..Len(pending') : pending'[i].off = EndOf(i - 1)'
      <4> SUFFICES ASSUME NEW i \in 1..Len(pending') PROVE pending'[i].off = EndOf(i - 1)'
        OBVIOUS
      <4>1. pending'[i].off = pending[i].off + pending[i].len
        BY <1>3, <1>7, <1>9, <3>1
      <4>2. CASE i = 1
        <5>1. pending'[1].off = r.off + r.len
          BY <1>2, <4>1, <4>2
        <5>2. EndOf(0)' = r.off + r.len
          BY <1>1, <1>6, <2>1 DEF EndOf
        <5>3. QED
          BY <1>5, <4>2, <5>1, <5>2
      <4>3. CASE i # 1
        <5>1. i - 1 \in 1..Len(pending') /\ i - 1 + 1 = i /\ i - 1 # 0
          BY <1>3, <1>9, <4>3
        <5>2. pending'[i - 1] = pending[i]
          BY <3>1, <5>1
        <5>3. QED
          BY <4>1, <5>1, <5>2 DEF EndOf
      <4>4. QED
        BY <4>2, <4>3
    <3>4. (EndOf(Len(pending)) = nextOffset)'
      <4>1. CASE Len(pending) = 1
        <5>1. Len(pending') = 0
          BY <1>3, <1>9, <4>1
        <5>2. r.off + r.len = nextOffset
          BY <1>2, <1>8, <4>1
        <5>3. QED
          BY <1>1, <1>6, <2>1, <5>1, <5>2 DEF EndOf
      <4>2. CASE Len(pending) # 1
        <5>1. Len(pending') \in 1..Len(pending') /\ Len(pending') + 1 = Len(pending)
              /\ Len(pending') # 0
          BY <1>3, <1>9, <4>2
        <5>2. QED
          BY <1>1, <1>8, <3>1, <5>1 DEF EndOf
      <4>3. QED
        BY <4>1, <4>2
    <3>5. Len(pending') <= Window
      BY <1>1, <1>3, <1>9, WindowAssumption
    <3>6. QED
      BY <1>1, <3>2, <3>3, <3>4, <3>5 DEF Chained
  <2>5. Control'
    BY <1>9 DEF Control
  <2>6. QED
    BY <2>2, <2>3, <2>4, <2>5 DEF IInv
<1>10. CASE /\ r.reply \in 1..r.len - 1 /\ pc' = "take"
           /\ leftover' = Units(r.off, r.reply)
           /\ pending' = <<[off |-> r.off + r.reply, len |-> r.len - r.reply,
                            reply |-> Waiting]>> \o Tail(pending)
  <2> DEFINE rest == [off |-> r.off + r.reply, len |-> r.len - r.reply, reply |-> Waiting]
  <2>1. /\ leftover' \in Seq(0..MaxSize - 1) /\ Len(leftover') = r.reply
        /\ \A i \in 1..r.reply : leftover'[i] = r.off + i - 1
    <3>1. r.reply \in Nat /\ r.off + r.reply <= MaxSize
      BY <1>1, <1>6, <1>10, BoundsAssumption
    <3>2. QED
      BY <1>6, <1>10, <3>1, UnitsFacts
  <2>2. rest \in Requests
    <3>1. r.reply \in Int /\ r.off + r.reply \in 0..MaxSize
      BY <1>1, <1>6, <1>10, BoundsAssumption
    <3>2. r.len - r.reply \in 1..RequestSize
      BY <1>6, <1>10, RequestSizeAssumption
    <3>3. Waiting \in -2..RequestSize + 1
      BY RequestSizeAssumption DEF Waiting
    <3>4. QED
      BY <3>1, <3>2, <3>3 DEF Requests
  <2>3. rest.off = r.off + r.reply /\ rest.off + rest.len = r.off + r.len
    BY <1>6, <1>10, RequestSizeAssumption
  <2>4. pending' = <<rest>> \o Tail(pending)
    BY <1>10
  <2> HIDE DEF rest
  <2>5. /\ pending' \in Seq(Requests) /\ Len(pending') = Len(pending) /\ pending'[1] = rest
        /\ \A i \in 2..Len(pending) : pending'[i] = pending[i]
    <3>1. /\ <<rest>> \in Seq(Requests) /\ Len(<<rest>>) = 1 /\ <<rest>>[1] = rest
      BY <2>2
    <3>2. pending' \in Seq(Requests) /\ Len(pending') = Len(pending)
      BY <1>3, <2>4, <3>1
    <3>3. pending'[1] = rest
      BY <1>3, <2>4, <3>1
    <3>4. \A i \in 2..Len(pending) : pending'[i] = Tail(pending)[i - 1]
      BY <1>3, <2>4, <3>1
    <3>5. \A i \in 2..Len(pending) : i - 1 \in 1..Len(pending) - 1 /\ i - 1 + 1 = i
      BY <1>3
    <3>6. QED
      BY <1>3, <3>2, <3>3, <3>4, <3>5
  <2>6. TypeOK'
    <3>1. Len(leftover') <= RequestSize
      BY <1>6, <1>10, <2>1, RequestSizeAssumption
    <3>2. QED
      BY <1>1, <1>10, <2>1, <2>5, <3>1 DEF IInv, TypeOK
  <2>7. Delivered'
    BY <1>1, <1>6, <1>10, <2>1 DEF IInv, Delivered
  <2>8. Chained'
    <3>1. \A i \in 1..Len(pending) :
             pending'[i].off + pending'[i].len = pending[i].off + pending[i].len
      <4>1. \A i \in 1..Len(pending) : i = 1 \/ i \in 2..Len(pending)
        BY <1>3
      <4>2. QED
        BY <1>2, <2>3, <2>5, <4>1
    <3>2. \A i \in 1..Len(pending') : pending'[i].off = EndOf(i - 1)'
      <4> SUFFICES ASSUME NEW i \in 1..Len(pending) PROVE pending'[i].off = EndOf(i - 1)'
        BY <2>5
      <4>1. CASE i = 1
        BY <1>1, <1>6, <2>1, <2>3, <2>5, <4>1 DEF EndOf
      <4>2. CASE i # 1
        <5>1. i \in 2..Len(pending) /\ i - 1 \in 1..Len(pending) /\ i - 1 # 0
          BY <1>3, <4>2
        <5>2. QED
          BY <1>7, <2>5, <3>1, <4>2, <5>1 DEF EndOf
      <4>3. QED
        BY <4>1, <4>2
    <3>3. (EndOf(Len(pending)) = nextOffset)'
      <4>1. Len(pending') \in 1..Len(pending) /\ Len(pending') # 0
        BY <1>3, <2>5
      <4>2. QED
        BY <1>1, <1>8, <2>5, <3>1, <4>1 DEF EndOf
    <3>4. QED
      BY <1>1, <1>7, <2>5, <3>1, <3>2, <3>3 DEF Chained
  <2>9. Control'
    BY <1>10 DEF Control
  <2>10. QED
    BY <2>6, <2>7, <2>8, <2>9 DEF IInv
<1>11. CASE pc' = "error" /\ pending' = Tail(pending) /\ UNCHANGED leftover
  <2>1. TypeOK'
    BY <1>1, <1>3, <1>11 DEF IInv, TypeOK
  <2>2. Delivered'
    BY <1>1, <1>11 DEF IInv, Delivered
  <2>3. Chained'
    <3>1. \A i \in 1..Len(pending') : pending'[i] = pending[i + 1] /\ i + 1 \in 1..Len(pending)
      BY <1>3, <1>11
    <3>2. \A i \in 1..Len(pending') : pending'[i].off + pending'[i].len <= target'
      BY <1>1, <1>7, <3>1
    <3>3. Len(pending') <= Window
      BY <1>1, <1>3, <1>11, WindowAssumption
    <3>4. QED
      BY <1>11, <3>2, <3>3 DEF Chained
  <2>4. Control'
    BY <1>11 DEF Control
  <2>5. QED
    BY <2>1, <2>2, <2>3, <2>4 DEF IInv
<1>12. QED
  BY <1>2, <1>9, <1>10, <1>11 DEF Receive

(* The caller takes the first units of the leftover; the chain of requests *)
(* begins where the leftover ends, before and after.                       *)
LEMMA TakeIInv == ASSUME IInv, Take PROVE IInv'
<1>1. /\ wanted \in 0..MaxRead /\ Len(leftover) \in Nat /\ Len(received) \in Nat
      /\ leftover \in Seq(0..MaxSize - 1) /\ received \in Seq(0..MaxSize - 1) /\ pc = "take"
      /\ Len(leftover) <= RequestSize
      /\ UNCHANGED <<length, link, limit, target, nextOffset, pending>>
  BY DEF IInv, TypeOK, Take, server
<1>2. PICK n : n = Min({wanted, Len(leftover)})
  OBVIOUS
<1>3. n \in {wanted, Len(leftover)} /\ n <= wanted /\ n <= Len(leftover)
  <2>1. wanted \in Int /\ Len(leftover) \in Int
    BY <1>1, BoundsAssumption
  <2>2. QED
    BY <1>2, <2>1, MinOfTwo
<1>4. n \in 0..Len(leftover)
  BY <1>1, <1>3, BoundsAssumption
<1>5. /\ received' = received \o SubSeq(leftover, 1, n)
      /\ leftover' = SubSeq(leftover, n + 1, Len(leftover))
      /\ wanted' = wanted - n
      /\ pc' = IF wanted' > 0 /\ (pending # <<>> \/ unrequested) THEN "fill" ELSE "idle"
  BY <1>2 DEF Take
<1>6. /\ received' \in Seq(0..MaxSize - 1) /\ leftover' \in Seq(0..MaxSize - 1)
      /\ Len(received') = Len(received) + n /\ Len(leftover') = Len(leftover) - n
      /\ \A i \in 1..Len(received) : received'[i] = received[i]
      /\ \A i \in 1..n : received'[Len(received) + i] = leftover[i]
      /\ \A i \in 1..Len(leftover') : leftover'[i] = leftover[n + i]
  <2> DEFINE S == 0..MaxSize - 1
  <2>1. leftover \in Seq(S) /\ received \in Seq(S)
    BY <1>1
  <2>2. received' = received \o SubSeq(leftover, 1, n)
        /\ leftover' = SubSeq(leftover, n + 1, Len(leftover))
    BY <1>5
  <2> HIDE DEF S
  <2>3. /\ received' \in Seq(S) /\ leftover' \in Seq(S)
        /\ Len(received') = Len(received) + n /\ Len(leftover') = Len(leftover) - n
        /\ \A i \in 1..Len(received) : received'[i] = received[i]
        /\ \A i \in 1..n : received'[Len(received) + i] = leftover[i]
        /\ \A i \in 1..Len(leftover') : leftover'[i] = leftover[n + i]
    BY <1>4, <2>1, <2>2, SplitFacts
  <2>4. QED
    BY <2>3 DEF S
<1>7. TypeOK'
  <2>1. wanted' \in 0..MaxRead /\ Len(leftover') <= RequestSize
    <3>1. Len(leftover') = Len(leftover) - n
      BY <1>6
    <3>2. QED
      BY <1>1, <1>3, <1>4, <1>5, <3>1, BoundsAssumption, RequestSizeAssumption
  <2>2. QED
    BY <1>1, <1>5, <1>6, <2>1 DEF IInv, TypeOK
<1>8. Len(received') + Len(leftover') = Len(received) + Len(leftover)
  BY <1>1, <1>4, <1>6
<1>9. Delivered'
  <2>1. ASSUME NEW i \in 1..Len(received') PROVE received'[i] = i - 1
    <3>1. CASE i <= Len(received)
      <4>1. i \in 1..Len(received)
        BY <1>1, <1>4, <1>6, <3>1
      <4>2. QED
        BY <1>6, <4>1 DEF IInv, Delivered
    <3>2. CASE ~(i <= Len(received))
      <4>1. PICK j \in 1..n : i = Len(received) + j
        <5>1. i - Len(received) \in 1..n /\ i = Len(received) + (i - Len(received))
          BY <1>1, <1>4, <1>6, <3>2
        <5>2. QED
          BY <5>1
      <4>2. received'[i] = leftover[j] /\ j \in 1..Len(leftover)
        BY <1>1, <1>4, <1>6, <4>1
      <4>3. leftover[j] = Len(received) + j - 1
        BY <4>2 DEF IInv, Delivered
      <4>4. QED
        BY <4>1, <4>2, <4>3
    <3>3. QED
      BY <3>1, <3>2
  <2>2. ASSUME NEW i \in 1..Len(leftover') PROVE leftover'[i] = Len(received') + i - 1
    <3>1. n + i \in 1..Len(leftover) /\ leftover'[i] = leftover[n + i]
      BY <1>1, <1>4, <1>6
    <3>2. leftover[n + i] = Len(received) + (n + i) - 1
      BY <3>1 DEF IInv, Delivered
    <3>3. QED
      BY <1>1, <1>4, <1>6, <3>1, <3>2
  <2>3. QED
    BY <1>1, <1>8, <2>1, <2>2 DEF IInv, Delivered
<1>10. Chained'
  <2>1. \A i : EndOf(i)' = EndOf(i)
    BY <1>1, <1>8 DEF EndOf
  <2>2. (EndOf(Len(pending)) = nextOffset)'
    BY <1>1, <1>8 DEF IInv, Chained, EndOf
  <2>3. QED
    BY <1>1, <2>1, <2>2 DEF IInv, Chained
<1>11. Control'
  <2>1. pc' = "fill" => leftover' = <<>> /\ (pending # <<>> \/ unrequested)'
    <3>1. wanted' > 0 => Len(leftover') = 0
      BY <1>1, <1>3, <1>5, <1>6, BoundsAssumption
    <3>2. QED
      BY <1>1, <1>5, <1>6, <3>1 DEF unrequested
  <2>2. QED
    BY <1>5, <2>1 DEF Control
<1>12. QED
  BY <1>7, <1>9, <1>10, <1>11 DEF IInv

(* A reply changes nothing else of its request.                            *)
LEMMA ServeIInv == ASSUME IInv, Serve PROVE IInv'
<1>1. PICK i \in 1..Len(pending), n \in -2..RequestSize + 1 :
         pending' = [pending EXCEPT ![i].reply = n]
  BY DEF Serve
<1>2. pending \in Seq(Requests)
      /\ UNCHANGED <<length, link, pc, limit, target, nextOffset, leftover, wanted, received>>
  BY DEF IInv, TypeOK, Serve, server
<1>3. pending[i] \in Requests
  BY <1>2
<1>4. [pending[i] EXCEPT !.reply = n] \in Requests
  BY <1>3 DEF Requests
<1>5. pending' \in Seq(Requests) /\ Len(pending') = Len(pending)
  BY <1>1, <1>2, <1>4
<1>6. \A j \in 1..Len(pending) :
         pending'[j].off = pending[j].off /\ pending'[j].len = pending[j].len
  <2>1. pending'[i] = [pending[i] EXCEPT !.reply = n]
        /\ \A j \in 1..Len(pending) : j # i => pending'[j] = pending[j]
    BY <1>1, <1>2
  <2>2. pending'[i].off = pending[i].off /\ pending'[i].len = pending[i].len
    BY <1>3, <2>1 DEF Requests
  <2>3. QED
    BY <2>1, <2>2
<1>7. TypeOK'
  BY <1>2, <1>5 DEF IInv, TypeOK
<1>8. Delivered'
  BY <1>2 DEF IInv, Delivered
<1>9. Chained'
  <2>1. \A j \in 0..Len(pending) : EndOf(j)' = EndOf(j)
    BY <1>2, <1>6 DEF EndOf
  <2>2. Len(pending) \in Nat /\ \A j \in 1..Len(pending) : j - 1 \in 0..Len(pending)
    BY <1>2
  <2>3. (EndOf(Len(pending)) = nextOffset)' <=> EndOf(Len(pending)) = nextOffset
    BY <1>2, <1>5, <1>6, <2>2 DEF EndOf
  <2>4. QED
    BY <1>2, <1>5, <1>6, <2>1, <2>2, <2>3 DEF IInv, Chained
<1>10. Control'
  BY <1>2, <1>5 DEF IInv, Control, Exhausted, unrequested
<1>11. QED
  BY <1>7, <1>8, <1>9, <1>10 DEF IInv

(* Every step keeps the inductive invariant.                               *)
LEMMA NextIInv == IInv /\ [Next]_vars => IInv'
<1> SUFFICES ASSUME IInv, [Next]_vars PROVE IInv'
  OBVIOUS
<1>1. CASE Client
  BY <1>1, OpenIInv, FillIInv, ReceiveIInv, TakeIInv, ReleaseIInv DEF Client
<1>2. CASE Resize \/ Drop \/ Expire
  BY <1>2, OthersIInv DEF Expire
<1>3. CASE UNCHANGED vars
  <2>1. Control'
    BY <1>3 DEF vars, IInv, Control, Exhausted, unrequested
  <2>2. QED
    BY <1>3, <2>1, QuietStep DEF vars, download, IInv, TypeOK
<1>4. QED
  BY <1>1, <1>2, <1>3, CallIInv, ServeIInv DEF Next

(* The inductive invariant holds in every reachable state.                 *)
THEOREM Invariance == Spec => []IInv
BY InitIInv, NextIInv, PTL DEF Spec

(* The state stays within its types: no request reaches beyond the file,   *)
(* and no reply leaves more over than a request asks for.                  *)
THEOREM TypeCorrect == Spec => []TypeOK
<1>1. IInv => TypeOK
  BY DEF IInv
<1>2. QED
  BY <1>1, Invariance, PTL

(* The caller of read receives the units of the file in order, without a   *)
(* gap or a repetition, for every window and every order of the replies.   *)
THEOREM ReadsInOrder == Spec => []InOrder
<1>1. ASSUME IInv PROVE InOrder
  <2> DEFINE have == received \o leftover
  <2>1. Len(received) \in Nat /\ Len(leftover) \in Nat /\ Len(have) = Len(received) + Len(leftover)
    BY <1>1 DEF IInv, TypeOK
  <2>2. ASSUME NEW i \in 1..Len(have) PROVE have[i] = i - 1
    <3>1. CASE i <= Len(received)
      <4>1. i \in 1..Len(received) /\ have[i] = received[i]
        BY <1>1, <2>1, <3>1 DEF IInv, TypeOK
      <4>2. QED
        BY <1>1, <4>1 DEF IInv, Delivered
    <3>2. CASE ~(i <= Len(received))
      <4>1. i - Len(received) \in 1..Len(leftover) /\ have[i] = leftover[i - Len(received)]
        BY <1>1, <2>1, <3>2 DEF IInv, TypeOK
      <4>2. leftover[i - Len(received)] = Len(received) + (i - Len(received)) - 1
        BY <1>1, <4>1 DEF IInv, Delivered
      <4>3. QED
        BY <2>1, <4>1, <4>2
    <3>3. QED
      BY <3>1, <3>2
  <2>3. ASSUME pc # "error", NEW i \in 1..Len(pending)
        PROVE  pending[i].off = IF i = 1 THEN Len(have)
                                         ELSE pending[i - 1].off + pending[i - 1].len
    <3>1. pending[i].off = EndOf(i - 1)
      BY <1>1, <2>3 DEF IInv, Chained
    <3>2. i = 1 => i - 1 = 0
      OBVIOUS
    <3>3. i # 1 => i - 1 # 0
      OBVIOUS
    <3>4. QED
      BY <2>1, <3>1, <3>2, <3>3 DEF EndOf
  <2>4. Len(pending) <= Window
    BY <1>1 DEF IInv, Chained
  <2>5. QED
    BY <2>2, <2>3, <2>4 DEF InOrder
<1>2. QED
  BY <1>1, Invariance, PTL

(* read reports the end of the file only when the caller has all of what   *)
(* the opened file promised, for every file and every change of it.        *)
THEOREM EndIsWhole == Spec => []EndsWhole
<1>1. ASSUME IInv PROVE EndsWhole
  <2> SUFFICES ASSUME pc = "end" PROVE Len(received) = target
    BY DEF EndsWhole
  <2>1. leftover = <<>> /\ pending = <<>> /\ ~(nextOffset < target)
    BY <1>1 DEF IInv, Control, Exhausted, unrequested
  <2>2. nextOffset = target /\ Len(received) \in Nat
    BY <1>1, <2>1, BoundsAssumption DEF IInv, TypeOK
  <2>3. Len(received) + Len(leftover) = nextOffset
    BY <1>1, <2>1 DEF IInv, Chained, EndOf
  <2>4. QED
    BY <2>1, <2>2, <2>3
<1>2. QED
  BY <1>1, Invariance, PTL

=============================================================================

-------------------------- MODULE SftpSessionProofs --------------------------
(***************************************************************************)
(* The safety of SftpSession for any number of requests and stray replies. *)
(*                                                                         *)
(* The three invariants rest on different parts of the state, and each has *)
(* an inductive invariant of its own: the deadline exists only inside a    *)
(* step (ClockInv); a failure is reported only after the transport was     *)
(* closed, and the watchdog closes it after it set its flag (ReportInv);   *)
(* and a reply is matched to its request because paramiko expects each     *)
(* number once, so that only the first reply on the wire with that number  *)
(* is delivered (RequestInv).                                              *)
(***************************************************************************)
EXTENDS SftpSession, TLAPS

(* The deadline is armed only inside a step, and passes only there.        *)
ClockInv ==
    /\ deadline # "none" => pc \in InStep
    /\ deadline = "past" \/ expired => overran

(* A transport failure is reported only when the transport is closed, and  *)
(* the watchdog closes it with its flag set.                               *)
ReportInv ==
    /\ pc \in {"trust", "connect"} => reports = {}
    /\ reports # {} => transport = "closed"
    /\ watcher = "close" => expired
    /\ cause = "watchdog" => expired /\ "lost" \notin reports

(* The numbers that were sent, and the one that receive waits for.         *)
NumberedAt ==
    /\ \A n \in Numbers : use[n] = "none" <=> n > sent
    /\ pc = "send" => sent < MaxRequests
    /\ pc = "receive" => waiting \in 1..sent /\ use[waiting] = "sent"

(* One request: it is expected until its first reply was read, and what    *)
(* was read for it is what the server answered.                            *)
RequestAt(n) ==
    /\ use[n] = "none" => answer[n] = "none" /\ n \notin expecting
    /\ n \in expecting => replies[n] = "none" /\ outcome[n] = "none" /\ use[n] # "received"
    /\ replies[n] \in {"none", answer[n]}
    /\ outcome[n] \in {"none", answer[n]}
    /\ use[n] = "sent" => n \in expecting \/ replies[n] # "none"
    /\ n \in ignored => use[n] = "ignored" /\ n \in expecting
    /\ n \in expecting /\ use[n] = "ignored" => n \in ignored
    /\ replies[n] # "none" => use[n] \in {"sent", "lost"}

(* The wire: every reply follows an answer, the first one for an expected  *)
(* number is that answer, and an answer that is still expected is there.   *)
FirstOnWire(i) == \A j \in 1..i - 1 : wire[j].number # wire[i].number

WireAt ==
    /\ \A i \in 1..Len(wire) : answer[wire[i].number] # "none"
    /\ \A i \in 1..Len(wire) : wire[i].number \in expecting /\ FirstOnWire(i)
                                 => wire[i].reply = answer[wire[i].number]
    /\ \A n \in expecting : answer[n] # "none" => \E i \in 1..Len(wire) : wire[i].number = n

RequestInv == TypeOK /\ NumberedAt /\ (\A n \in Numbers : RequestAt(n)) /\ WireAt

USE DEF InStep

(* Every step keeps the deadline inside the steps of the operation.        *)
LEMMA NextClockInv == ClockInv /\ [Next]_vars => ClockInv'
<1> SUFFICES ASSUME ClockInv, [Next]_vars PROVE ClockInv'
  OBVIOUS
<1> USE DEF ClockInv, session, watchdog, notes
<1>1. CASE Trust \/ Connect \/ AskChannel \/ OpenChannel
  BY <1>1 DEF Trust, Connect, AskChannel, OpenChannel, Enter, LeaveStep
<1>2. CASE BeginSend \/ Send
  BY <1>2 DEF BeginSend, Send, Enter, LeaveStep
<1>3. CASE ReadResponse
  BY <1>3 DEF ReadResponse
<1>4. CASE FinishReceive \/ ReceiveFails
  BY <1>4 DEF FinishReceive, ReceiveFails, LeaveStep
<1>5. CASE LeaveSession \/ CloseChannel \/ Stop \/ Join \/ CloseClient
  BY <1>5 DEF LeaveSession, CloseChannel, Stop, Join, CloseClient
<1>6. ASSUME NEW n \in Numbers, BeginReceive(n) \/ Ignore(n) PROVE ClockInv'
  BY <1>6 DEF BeginReceive, Ignore, Enter
<1>7. CASE Watch
  BY <1>7 DEF Watch
<1>8. CASE CloseTransport
  BY <1>8 DEF CloseTransport
<1>9. CASE Pass
  BY <1>9 DEF Pass
<1>10. CASE ServeChannel \/ Stall \/ Drop
  BY <1>10 DEF ServeChannel, Stall, Drop
<1>11. ASSUME NEW n \in Numbers, NEW reply \in Replies, Answer(n, reply) PROVE ClockInv'
  BY <1>11 DEF Answer
<1>12. CASE UNCHANGED vars
  BY <1>12 DEF vars
<1>13. QED
  BY <1>1, <1>2, <1>3, <1>4, <1>5, <1>6, <1>7, <1>8, <1>9, <1>10, <1>11, <1>12
     DEF Next, Operation, Watchdog, Environment

(* Every step keeps the reports true to who closed the transport.          *)
LEMMA NextReportInv == ReportInv /\ [Next]_vars => ReportInv'
<1> SUFFICES ASSUME ReportInv, [Next]_vars PROVE ReportInv'
  OBVIOUS
<1> USE DEF ReportInv, session, watchdog, requests, notes
<1>1. CASE Operation
  BY <1>1 DEF Operation, Trust, Connect, AskChannel, OpenChannel, BeginSend, Send, ReadResponse,
     FinishReceive, ReceiveFails, LeaveSession, CloseChannel, Stop, Join, CloseClient, BeginReceive, Ignore, Enter,
     LeaveStep, Report, Closed
<1>2. CASE Watchdog \/ Pass
  BY <1>2 DEF Watchdog, Watch, CloseTransport, Pass, Closed
<1>3. CASE Environment
  BY <1>3 DEF Environment, ServeChannel, Stall, Drop, Answer, Closed
<1>4. CASE UNCHANGED vars
  BY <1>4 DEF vars
<1>5. QED
  BY <1>1, <1>2, <1>3, <1>4 DEF Next

(* The types of the requests, and those of everything else.                *)
RequestTypes ==
    /\ waiting \in 0..sent /\ sent \in 0..MaxRequests
    /\ use \in [Numbers -> {"none", "sent", "received", "ignored", "lost"}]
    /\ expecting \subseteq 1..sent /\ ignored \subseteq 1..sent
    /\ wire \in Seq([number : 1..sent, reply : Replies]) /\ stray \in 0..MaxStray
    /\ replies \in [Numbers -> Replies \cup {"none"}]
    /\ answer \in [Numbers -> Replies \cup {"none"}]
    /\ outcome \in [Numbers -> Replies \cup {"none"}]

SessionTypes ==
    /\ pc \in InStep \cup {"trust", "connect", "ask", "idle", "close", "stop", "join", "shut", "done"}
    /\ transport \in {"none", "open", "closed"} /\ channel \in {"asked", "given", "refused"}
    /\ deadline \in {"none", "ahead", "past"} /\ watcher \in {"none", "watch", "close", "ended"}
    /\ reports \subseteq {"timeout", "lost"} /\ cause \in {"none", "network", "watchdog", "client"}

flags == <<reading, stopped, expired, overran>>
FlagTypes ==
    reading \in BOOLEAN /\ stopped \in BOOLEAN /\ expired \in BOOLEAN /\ overran \in BOOLEAN

(* The type invariant is made of these three.                              *)
LEMMA TypeParts == TypeOK <=> RequestTypes /\ SessionTypes /\ FlagTypes
BY Zenon DEF TypeOK, RequestTypes, SessionTypes, FlagTypes

(* Every step keeps the flags Boolean.                                     *)
LEMMA NextFlagTypes == ASSUME FlagTypes, [Next]_vars PROVE FlagTypes'
<1> USE DEF flags, session, watchdog, notes
<1>1. CASE UNCHANGED flags
  BY <1>1, Zenon DEF FlagTypes
<1>2. CASE Trust \/ Connect \/ AskChannel \/ OpenChannel
  BY <1>1, <1>2 DEF Trust, Connect, AskChannel, OpenChannel, Enter, LeaveStep
<1>3. CASE BeginSend \/ Send
  BY <1>1, <1>3 DEF BeginSend, Send, Enter, LeaveStep
<1>4. CASE ReadResponse
  BY <1>1, <1>4 DEF ReadResponse
<1>5. CASE FinishReceive \/ ReceiveFails
  BY <1>1, <1>5 DEF FinishReceive, ReceiveFails, LeaveStep
<1>6. CASE LeaveSession \/ CloseChannel \/ Join \/ CloseClient
  BY <1>1, <1>6 DEF LeaveSession, CloseChannel, Join, CloseClient
<1>7. CASE Stop
  BY <1>7, Zenon DEF Stop, FlagTypes
<1>8. ASSUME NEW n \in Numbers, BeginReceive(n) \/ Ignore(n) PROVE FlagTypes'
  BY <1>1, <1>8 DEF BeginReceive, Ignore, Enter
<1>9. CASE Watch
  BY <1>9, Zenon DEF Watch, FlagTypes
<1>10. CASE CloseTransport
  BY <1>1, <1>10 DEF CloseTransport
<1>11. CASE Pass
  BY <1>11, Zenon DEF Pass, FlagTypes
<1>12. CASE ServeChannel \/ Drop
  BY <1>1, <1>12 DEF ServeChannel, Drop
<1>13. CASE Stall
  BY <1>13, Zenon DEF Stall, FlagTypes
<1>14. ASSUME NEW n \in Numbers, NEW reply \in Replies, Answer(n, reply) PROVE FlagTypes'
  BY <1>1, <1>14 DEF Answer
<1>15. CASE UNCHANGED vars
  BY <1>1, <1>15 DEF vars
<1>16. QED
  BY <1>2, <1>3, <1>4, <1>5, <1>6, <1>7, <1>8, <1>9, <1>10, <1>11, <1>12, <1>13, <1>14, <1>15
     DEF Next, Operation, Watchdog, Environment

(* Every step keeps the types of the session.                              *)
LEMMA NextSessionTypes == ASSUME SessionTypes, [Next]_vars PROVE SessionTypes'
<1> USE DEF SessionTypes, session, watchdog, notes
<1>1. CASE Trust \/ Connect \/ AskChannel \/ OpenChannel
  BY <1>1 DEF Trust, Connect, AskChannel, OpenChannel, Enter, LeaveStep
<1>2. CASE BeginSend \/ Send
  BY <1>2 DEF BeginSend, Send, Enter, LeaveStep, Report
<1>3. CASE ReadResponse
  BY <1>3 DEF ReadResponse
<1>4. CASE FinishReceive \/ ReceiveFails
  BY <1>4 DEF FinishReceive, ReceiveFails, LeaveStep, Report
<1>5. CASE LeaveSession \/ CloseChannel \/ Stop \/ Join \/ CloseClient
  BY <1>5 DEF LeaveSession, CloseChannel, Stop, Join, CloseClient, Closed
<1>6. ASSUME NEW n \in Numbers, BeginReceive(n) \/ Ignore(n) PROVE SessionTypes'
  BY <1>6 DEF BeginReceive, Ignore, Enter
<1>7. CASE Watch
  BY <1>7 DEF Watch
<1>8. CASE CloseTransport
  BY <1>8 DEF CloseTransport, Closed
<1>9. CASE Pass
  BY <1>9 DEF Pass
<1>10. CASE ServeChannel \/ Stall \/ Drop
  BY <1>10 DEF ServeChannel, Stall, Drop, Closed
<1>11. ASSUME NEW n \in Numbers, NEW reply \in Replies, Answer(n, reply) PROVE SessionTypes'
  BY <1>11 DEF Answer
<1>12. CASE UNCHANGED vars
  BY <1>12 DEF vars
<1>13. QED
  BY <1>1, <1>2, <1>3, <1>4, <1>5, <1>6, <1>7, <1>8, <1>9, <1>10, <1>11, <1>12
     DEF Next, Operation, Watchdog, Environment

RequestParts == RequestTypes /\ NumberedAt /\ (\A n \in Numbers : RequestAt(n)) /\ WireAt

(* A sequence over a set is one over every larger set.                     *)
LEMMA Widen ==
    ASSUME NEW S, NEW T, S \subseteq T, NEW s \in Seq(S) PROVE s \in Seq(T)
OBVIOUS

(* An element of a sequence over a set is in the set.                      *)
LEMMA ElementOf ==
    ASSUME NEW S, NEW s \in Seq(S), NEW i \in 1..Len(s) PROVE s[i] \in S
OBVIOUS

(* A step that neither sends nor receives leaves the requests alone.       *)
LEMMA QuietStep ==
    ASSUME RequestParts, UNCHANGED <<waiting, requests, answer, outcome>>,
           pc' = pc \/ pc' \notin {"send", "receive"}
    PROVE  RequestParts'
<1>1. RequestTypes'
  BY DEF RequestParts, RequestTypes, requests
<1>2. NumberedAt'
  BY DEF RequestParts, NumberedAt, requests
<1>3. (\A n \in Numbers : RequestAt(n)) /\ UNCHANGED <<use, answer, expecting, replies, outcome, ignored>>
  BY DEF RequestParts, requests
<1>4. \A n \in Numbers : RequestAt(n)'
  BY <1>3 DEF RequestAt
<1>5. WireAt'
  BY DEF RequestParts, WireAt, FirstOnWire, requests
<1>6. QED
  BY <1>1, <1>2, <1>4, <1>5 DEF RequestParts

(* Steps that begin, and steps that end, without touching a reply.         *)
LEMMA BeginParts ==
    ASSUME RequestParts, NEW n \in Numbers, BeginSend \/ BeginReceive(n) PROVE RequestParts'
<1> USE BoundsAssumption DEF RequestParts, RequestTypes, Numbers, requests, notes
<1>1. RequestTypes'
  <2>1. UNCHANGED requests /\ UNCHANGED <<answer, outcome>>
    BY DEF BeginSend, BeginReceive
  <2>2. waiting' \in 0..sent
    BY DEF BeginSend, BeginReceive, NumberedAt
  <2>3. QED
    BY <2>1, <2>2
<1>2. NumberedAt'
  BY DEF BeginSend, BeginReceive, NumberedAt, Enter
<1>3. UNCHANGED <<use, answer, expecting, replies, outcome, ignored, wire>>
  BY DEF BeginSend, BeginReceive
<1>4. \A m \in Numbers : RequestAt(m)'
  BY <1>3 DEF RequestAt
<1>5. WireAt'
  BY <1>3 DEF WireAt, FirstOnWire
<1>6. QED
  BY <1>1, <1>2, <1>4, <1>5

(* send registers a number that nothing is known of yet.                   *)
LEMMA SendParts == ASSUME RequestParts, Send PROVE RequestParts'
<1> DEFINE m == sent + 1
<1>0. RequestTypes /\ NumberedAt /\ (\A n \in Numbers : RequestAt(n)) /\ WireAt
  BY DEF RequestParts
<1>1. /\ m \in Numbers /\ m \in 1..m /\ m \in 0..MaxRequests /\ 1..sent \subseteq 1..m
      /\ waiting \in 0..m /\ sent' = m
      /\ use[m] = "none"
  BY <1>0, BoundsAssumption DEF Send, RequestTypes, NumberedAt, Numbers
<1>2. /\ expecting' = expecting \cup {m} /\ UNCHANGED <<waiting, wire, replies, ignored, stray, answer, outcome>>
      /\ use' \in {[use EXCEPT ![m] = "sent"], [use EXCEPT ![m] = "lost"]} /\ pc' = "idle"
  BY DEF Send, LeaveStep
<1>3. RequestTypes'
  <2>1. [number : 1..sent, reply : Replies] \subseteq [number : 1..m, reply : Replies]
    BY <1>1
  <2>2. wire' \in Seq([number : 1..sent', reply : Replies])
    <3>1. wire \in Seq([number : 1..sent, reply : Replies])
      BY <1>0 DEF RequestTypes
    <3>2. wire \in Seq([number : 1..m, reply : Replies])
      BY <2>1, <3>1, Widen
    <3>3. QED
      BY <1>1, <1>2, <3>2
  <2>3. use' \in [Numbers -> {"none", "sent", "received", "ignored", "lost"}]
    BY <1>0, <1>1, <1>2 DEF RequestTypes
  <2>4. expecting' \subseteq 1..sent' /\ ignored' \subseteq 1..sent'
    BY <1>0, <1>1, <1>2 DEF RequestTypes
  <2>5. waiting' \in 0..sent' /\ sent' \in 0..MaxRequests
    BY <1>1, <1>2
  <2>6. QED
    BY <1>0, <1>2, <2>2, <2>3, <2>4, <2>5 DEF RequestTypes
<1>4. NumberedAt'
  <2>1. sent \in Nat /\ sent' = sent + 1 /\ Numbers \subseteq Nat
    BY <1>0, <1>1 DEF RequestTypes, Numbers
  <2>2. ASSUME NEW n \in Numbers PROVE use'[n] = "none" <=> n > sent'
    <3>1. CASE n = m
      BY <1>0, <1>1, <1>2, <2>1, <3>1 DEF RequestTypes
    <3>2. CASE n # m
      <4>1. use'[n] = use[n]
        BY <1>0, <1>2, <3>2 DEF RequestTypes
      <4>2. n > sent <=> n > sent'
        BY <2>1, <3>2
      <4>3. QED
        BY <1>0, <4>1, <4>2 DEF NumberedAt
    <3>3. QED
      BY <3>1, <3>2
  <2>3. QED
    BY <1>2, <2>2 DEF NumberedAt
<1>5. answer[m] = "none" /\ replies[m] = "none" /\ outcome[m] = "none" /\ m \notin ignored
  BY <1>0, <1>1 DEF RequestAt
<1>6. ASSUME NEW n \in Numbers PROVE RequestAt(n)'
  <2>1. CASE n = m
    BY <1>0, <1>1, <1>2, <1>5, <2>1 DEF RequestAt, RequestTypes
  <2>2. CASE n # m
    BY <1>0, <1>2, <2>2 DEF RequestAt, RequestTypes
  <2>3. QED
    BY <2>1, <2>2
<1>7. WireAt'
  BY <1>0, <1>2, <1>5 DEF WireAt, FirstOnWire
<1>8. QED
  BY <1>3, <1>4, <1>6, <1>7 DEF RequestParts

(* What is left of a sequence when its first element is taken.             *)
LEMMA TailFacts ==
    ASSUME NEW S, NEW s \in Seq(S), s # <<>>
    PROVE  /\ Len(s) \in Nat /\ 1 \in 1..Len(s) /\ Head(s) = s[1]
           /\ Tail(s) \in Seq(S) /\ Len(Tail(s)) = Len(s) - 1
           /\ \A i \in 1..Len(s) - 1 : Tail(s)[i] = s[i + 1] /\ i + 1 \in 1..Len(s)
           /\ \A i \in 2..Len(s) : i - 1 \in 1..Len(s) - 1 /\ Tail(s)[i - 1] = s[i]
<1>1. Len(s) \in Nat /\ Len(s) # 0 /\ Head(s) = s[1]
  OBVIOUS
<1>2. Tail(s) \in Seq(S) /\ Len(Tail(s)) = Len(s) - 1
  OBVIOUS
<1>3. ASSUME NEW i \in 1..Len(s) - 1 PROVE Tail(s)[i] = s[i + 1] /\ i + 1 \in 1..Len(s)
  BY <1>1
<1>4. ASSUME NEW i \in 2..Len(s) PROVE i - 1 \in 1..Len(s) - 1 /\ Tail(s)[i - 1] = s[i]
  <2>1. i - 1 \in 1..Len(s) - 1 /\ (i - 1) + 1 = i
    BY <1>1
  <2>2. QED
    BY <1>3, <2>1
<1>5. QED
  BY <1>1, <1>2, <1>3, <1>4

(* A reply that is read is the first on the wire: for a number that is     *)
(* still expected it is the server's answer.                               *)
LEMMA ReadParts == ASSUME RequestParts, ReadResponse PROVE RequestParts'
<1> DEFINE n == Head(wire).number
           r == Head(wire).reply
<1>0. RequestTypes /\ NumberedAt /\ (\A m \in Numbers : RequestAt(m)) /\ WireAt
  BY DEF RequestParts
<1>1. /\ wire # <<>> /\ wire' = Tail(wire) /\ expecting' = expecting \ {n}
      /\ UNCHANGED <<pc, waiting, sent, use, stray, answer, outcome>>
      /\ IF n \in expecting THEN Deliver(n, r) ELSE UNCHANGED <<replies, ignored>>
  BY DEF ReadResponse, notes
<1>2. /\ wire \in Seq([number : 1..sent, reply : Replies]) /\ Len(wire) \in Nat /\ 1 \in 1..Len(wire)
      /\ Head(wire) = wire[1] /\ Len(wire') = Len(wire) - 1
      /\ \A i \in 1..Len(wire') : wire'[i] = wire[i + 1] /\ i + 1 \in 1..Len(wire)
      /\ \A i \in 2..Len(wire) : i - 1 \in 1..Len(wire') /\ wire'[i - 1] = wire[i]
  <2>1. wire \in Seq([number : 1..sent, reply : Replies])
    BY <1>0 DEF RequestTypes
  <2>2. QED
    BY <1>1, <2>1, TailFacts
<1>3. n \in 1..sent /\ n \in Numbers /\ r \in Replies
  <2>1. wire[1] \in [number : 1..sent, reply : Replies]
    <3>1. wire \in Seq([number : 1..sent, reply : Replies]) /\ 1 \in 1..Len(wire)
      BY <1>2
    <3>2. QED
      BY <3>1, ElementOf
  <2>2. n \in 1..sent /\ r \in Replies
    BY <1>2, <2>1
  <2>3. QED
    BY <1>0, <2>2, BoundsAssumption DEF RequestTypes, Numbers
<1>4. n \in expecting => r = answer[n]
  BY <1>0, <1>2 DEF WireAt, FirstOnWire
<1>5. RequestTypes'
  <2>1. wire' \in Seq([number : 1..sent, reply : Replies])
    BY <1>1, <1>2
  <2>2. replies' \in [Numbers -> Replies \cup {"none"}]
    BY <1>0, <1>1, <1>3 DEF Deliver, RequestTypes
  <2>3. expecting' \subseteq 1..sent /\ ignored' \subseteq 1..sent
    BY <1>0, <1>1 DEF Deliver, RequestTypes
  <2>4. QED
    BY <1>0, <1>1, <2>1, <2>2, <2>3 DEF RequestTypes
<1>6. NumberedAt'
  BY <1>0, <1>1 DEF NumberedAt
<1>7. ASSUME NEW m \in Numbers PROVE RequestAt(m)'
  <2>1. CASE m # n \/ n \notin expecting
    BY <1>0, <1>1, <1>3, <2>1 DEF RequestAt, RequestTypes, Deliver
  <2>2. CASE m = n /\ n \in expecting
    BY <1>0, <1>1, <1>3, <1>4, <2>2 DEF RequestAt, RequestTypes, Deliver, Replies
  <2>3. QED
    BY <2>1, <2>2
<1>8. WireAt'
  <2>1. \A i \in 1..Len(wire') : answer'[wire'[i].number] # "none"
    BY <1>0, <1>1, <1>2 DEF WireAt
  <2>2. ASSUME NEW i \in 1..Len(wire'), wire'[i].number \in expecting', FirstOnWire(i)'
        PROVE  wire'[i].reply = answer'[wire'[i].number]
    <3>1. wire'[i] = wire[i + 1] /\ i + 1 \in 1..Len(wire) /\ wire[i + 1].number \in expecting
      BY <1>1, <1>2, <2>2
    <3>2. ASSUME NEW j \in 1..i PROVE wire[j].number # wire[i + 1].number
      <4>1. CASE j = 1
        BY <1>1, <1>2, <2>2, <3>1, <4>1
      <4>2. CASE j # 1
        <5>1. j - 1 \in 1..i - 1 /\ j \in 2..Len(wire)
          BY <1>2, <2>2, <4>2
        <5>2. wire'[j - 1] = wire[j]
          BY <1>2, <5>1
        <5>3. QED
          BY <2>2, <3>1, <5>1, <5>2 DEF FirstOnWire
      <4>3. QED
        BY <4>1, <4>2
    <3>3. FirstOnWire(i + 1)
      BY <1>2, <3>2 DEF FirstOnWire
    <3>4. QED
      BY <1>0, <1>1, <3>1, <3>3 DEF WireAt
  <2>3. ASSUME NEW m \in expecting', answer'[m] # "none"
        PROVE  \E i \in 1..Len(wire') : wire'[i].number = m
    <3>1. PICK i \in 1..Len(wire) : wire[i].number = m
      BY <1>0, <1>1, <2>3 DEF WireAt
    <3>2. i \in 2..Len(wire)
      BY <1>1, <1>2, <2>3, <3>1
    <3>3. QED
      BY <1>2, <3>1, <3>2
  <2>4. QED
    BY <2>1, <2>2, <2>3 DEF WireAt
<1>9. QED
  BY <1>5, <1>6, <1>7, <1>8 DEF RequestParts

(* receive returns what was kept for its own request, or fails.            *)
LEMMA ReturnParts == ASSUME RequestParts, FinishReceive \/ ReceiveFails PROVE RequestParts'
<1>0. RequestTypes /\ NumberedAt /\ (\A m \in Numbers : RequestAt(m)) /\ WireAt
  BY DEF RequestParts
<1>1. waiting \in 1..sent /\ waiting \in Numbers /\ use[waiting] = "sent" /\ pc' = "idle" /\ waiting' = 0
  BY <1>0, BoundsAssumption DEF FinishReceive, ReceiveFails, LeaveStep, NumberedAt, RequestTypes, Numbers
<1>2. UNCHANGED <<sent, expecting, wire, ignored, stray, answer>>
  BY DEF FinishReceive, ReceiveFails
<1>3. \/ /\ replies[waiting] # "none" /\ replies' = [replies EXCEPT ![waiting] = "none"]
         /\ outcome' = [outcome EXCEPT ![waiting] = replies[waiting]]
         /\ use' = [use EXCEPT ![waiting] = "received"]
      \/ /\ replies[waiting] = "none" /\ UNCHANGED <<replies, outcome>>
         /\ use' = [use EXCEPT ![waiting] = "lost"]
  BY DEF FinishReceive, ReceiveFails
<1>4. RequestTypes'
  <2>1. /\ use' \in [Numbers -> {"none", "sent", "received", "ignored", "lost"}]
        /\ replies' \in [Numbers -> Replies \cup {"none"}]
        /\ outcome' \in [Numbers -> Replies \cup {"none"}]
    BY <1>0, <1>1, <1>3 DEF RequestTypes
  <2>2. waiting' \in 0..sent
    BY <1>0, <1>1 DEF RequestTypes
  <2>3. QED
    BY <1>0, <1>2, <2>1, <2>2 DEF RequestTypes
<1>5. NumberedAt'
  BY <1>0, <1>1, <1>2, <1>3 DEF RequestTypes, NumberedAt, Numbers
<1>6. ASSUME NEW m \in Numbers PROVE RequestAt(m)'
  <2>1. CASE m = waiting
    BY <1>0, <1>1, <1>2, <1>3, <2>1 DEF RequestAt, RequestTypes
  <2>2. CASE m # waiting
    BY <1>0, <1>2, <1>3, <2>2 DEF RequestAt, RequestTypes
  <2>3. QED
    BY <2>1, <2>2
<1>7. WireAt'
  BY <1>0, <1>2 DEF WireAt, FirstOnWire
<1>8. QED
  BY <1>4, <1>5, <1>6, <1>7 DEF RequestParts

(* ignore gives a reply up, whether it has come or not.                    *)
LEMMA IgnoreParts == ASSUME RequestParts, NEW n \in Numbers, Ignore(n) PROVE RequestParts'
<1>0. RequestTypes /\ NumberedAt /\ (\A m \in Numbers : RequestAt(m)) /\ WireAt
  BY DEF RequestParts
<1>1. /\ use[n] = "sent" /\ use' = [use EXCEPT ![n] = "ignored"] /\ pc' = "idle"
      /\ UNCHANGED <<waiting, sent, expecting, wire, stray, answer, outcome>>
      /\ \/ replies[n] # "none" /\ replies' = [replies EXCEPT ![n] = "none"] /\ UNCHANGED ignored
         \/ replies[n] = "none" /\ ignored' = ignored \cup {n} /\ UNCHANGED replies
  BY DEF Ignore, notes
<1>2. n \in 1..sent
  BY <1>0, <1>1, BoundsAssumption DEF NumberedAt, RequestTypes, Numbers
<1>3. RequestTypes'
  BY <1>0, <1>1, <1>2 DEF RequestTypes
<1>4. NumberedAt'
  BY <1>0, <1>1 DEF RequestTypes, NumberedAt
<1>5. ASSUME NEW m \in Numbers PROVE RequestAt(m)'
  <2>1. CASE m = n
    BY <1>0, <1>1, <2>1 DEF RequestAt, RequestTypes
  <2>2. CASE m # n
    BY <1>0, <1>1, <2>2 DEF RequestAt, RequestTypes
  <2>3. QED
    BY <2>1, <2>2
<1>6. WireAt'
  BY <1>0, <1>1 DEF WireAt, FirstOnWire
<1>7. QED
  BY <1>3, <1>4, <1>5, <1>6 DEF RequestParts

(* A reply joins the wire behind the others; only the first one for its    *)
(* request is the server's answer.                                         *)
LEMMA AnswerParts ==
    ASSUME RequestParts, NEW n \in Numbers, NEW reply \in Replies, Answer(n, reply)
    PROVE  RequestParts'
<1> DEFINE e == [number |-> n, reply |-> reply]
           last == Len(wire) + 1
<1>0. RequestTypes /\ NumberedAt /\ (\A m \in Numbers : RequestAt(m)) /\ WireAt
  BY DEF RequestParts
<1>1. /\ use[n] # "none" /\ wire' = Append(wire, e)
      /\ UNCHANGED <<pc, waiting, sent, use, expecting, replies, ignored, outcome>>
      /\ \/ answer[n] = "none" /\ answer' = [answer EXCEPT ![n] = reply] /\ UNCHANGED stray
         \/ answer[n] # "none" /\ stray < MaxStray /\ stray' = stray + 1 /\ UNCHANGED answer
  BY DEF Answer
<1>2. n \in 1..sent
  BY <1>0, <1>1, BoundsAssumption DEF NumberedAt, RequestTypes, Numbers
<1>3. /\ Len(wire) \in Nat /\ wire' \in Seq([number : 1..sent, reply : Replies]) /\ Len(wire') = last
      /\ wire'[last] = e /\ \A i \in 1..Len(wire) : wire'[i] = wire[i]
  <2>1. wire \in Seq([number : 1..sent, reply : Replies]) /\ e \in [number : 1..sent, reply : Replies]
    BY <1>0, <1>2 DEF RequestTypes
  <2>2. QED
    BY <1>1, <2>1
<1>4. RequestTypes'
  BY <1>0, <1>1, <1>3, BoundsAssumption DEF RequestTypes
<1>5. NumberedAt'
  BY <1>0, <1>1 DEF NumberedAt
<1>6. ASSUME NEW m \in Numbers PROVE RequestAt(m)'
  BY <1>0, <1>1 DEF RequestAt, RequestTypes
<1>7. \A m \in Numbers : answer[m] # "none" => answer'[m] = answer[m]
  BY <1>0, <1>1 DEF RequestTypes
<1>8. WireAt'
  <2>0. \A i \in 1..Len(wire) : wire[i].number \in Numbers
    <3>1. \A i \in 1..Len(wire) : wire[i] \in [number : 1..sent, reply : Replies]
      BY <1>0, ElementOf DEF RequestTypes
    <3>2. 1..sent \subseteq Numbers
      BY <1>0, BoundsAssumption DEF RequestTypes, Numbers
    <3>3. QED
      BY <3>1, <3>2
  <2>1. answer'[n] # "none"
    BY <1>0, <1>1 DEF RequestTypes, Replies
  <2>2. ASSUME NEW i \in 1..Len(wire'), i # last
        PROVE  i \in 1..Len(wire) /\ wire'[i] = wire[i]
    BY <1>3, <2>2
  <2>3. ASSUME NEW i \in 1..Len(wire') PROVE answer'[wire'[i].number] # "none"
    <3>1. CASE i = last
      BY <1>3, <2>1, <3>1
    <3>2. CASE i # last
      BY <1>0, <1>7, <2>0, <2>2, <3>2 DEF WireAt
    <3>3. QED
      BY <3>1, <3>2
  <2>4. ASSUME NEW i \in 1..Len(wire'), wire'[i].number \in expecting', FirstOnWire(i)'
        PROVE  wire'[i].reply = answer'[wire'[i].number]
    <3>1. CASE i # last
      <4>1. \A j \in 1..i - 1 : wire'[j] = wire[j]
        BY <1>3, <2>2, <3>1
      <4>2. FirstOnWire(i)
        BY <2>2, <2>4, <3>1, <4>1 DEF FirstOnWire
      <4>3. QED
        BY <1>0, <1>1, <1>7, <2>0, <2>2, <2>4, <3>1, <4>2 DEF WireAt
    <3>2. CASE i = last /\ answer[n] = "none"
      BY <1>0, <1>1, <1>3, <3>2 DEF RequestTypes
    <3>3. CASE i = last /\ answer[n] # "none"
      <4>1. n \in expecting
        BY <1>1, <1>3, <2>4, <3>3
      <4>2. PICK j \in 1..Len(wire) : wire[j].number = n
        BY <1>0, <3>3, <4>1 DEF WireAt
      <4>3. j \in 1..i - 1 /\ wire'[j].number = wire'[i].number
        BY <1>3, <3>3, <4>2
      <4>4. QED
        BY <2>4, <4>3 DEF FirstOnWire
    <3>4. QED
      BY <3>1, <3>2, <3>3
  <2>5. ASSUME NEW m \in expecting', answer'[m] # "none"
        PROVE  \E i \in 1..Len(wire') : wire'[i].number = m
    <3>1. CASE m = n
      <4>1. last \in 1..Len(wire')
        BY <1>3
      <4>2. QED
        BY <1>3, <3>1, <4>1
    <3>2. CASE m # n
      <4>0. m \in Numbers
        BY <1>0, <1>1, <2>5, BoundsAssumption DEF RequestTypes, Numbers
      <4>1. answer[m] # "none"
        BY <1>0, <1>1, <2>5, <3>2, <4>0 DEF RequestTypes
      <4>2. PICK i \in 1..Len(wire) : wire[i].number = m
        BY <1>0, <1>1, <2>5, <4>1 DEF WireAt
      <4>3. i \in 1..Len(wire')
        BY <1>3
      <4>4. QED
        BY <1>3, <4>2, <4>3
    <3>3. QED
      BY <3>1, <3>2
  <2>6. QED
    BY <2>3, <2>4, <2>5 DEF WireAt
<1>9. QED
  BY <1>4, <1>5, <1>6, <1>8 DEF RequestParts

(* Every step keeps every reply with its request.                          *)
LEMMA NextRequestInv == RequestInv /\ [Next]_vars => RequestInv'
<1> SUFFICES ASSUME RequestInv, [Next]_vars PROVE RequestInv'
  OBVIOUS
<1>0. RequestParts
  BY TypeParts DEF RequestInv, RequestParts
<1>1. SUFFICES RequestParts'
  <2>1. (SessionTypes /\ FlagTypes)'
    BY TypeParts, NextSessionTypes, NextFlagTypes DEF RequestInv
  <2>2. RequestTypes' => TypeOK'
    BY <2>1, Zenon DEF TypeOK, RequestTypes, SessionTypes, FlagTypes
  <2>3. QED
    BY <2>2 DEF RequestInv, RequestParts
<1>2. CASE Trust \/ Connect \/ AskChannel \/ OpenChannel
  BY <1>0, <1>2, QuietStep
     DEF Trust, Connect, AskChannel, OpenChannel, Enter, LeaveStep, notes
<1>3. CASE LeaveSession \/ CloseChannel \/ Stop \/ Join \/ CloseClient
  BY <1>0, <1>3, QuietStep DEF LeaveSession, CloseChannel, Stop, Join, CloseClient, notes
<1>4. CASE BeginSend
  <2>1. 1 \in Numbers
    BY <1>0, <1>4, BoundsAssumption DEF BeginSend, Numbers, RequestParts, RequestTypes
  <2>2. QED
    BY <1>0, <1>4, <2>1, BeginParts
<1>5. ASSUME NEW n \in Numbers, BeginReceive(n) \/ Ignore(n) PROVE RequestParts'
  BY <1>0, <1>5, BeginParts, IgnoreParts
<1>6. CASE Send \/ ReadResponse \/ FinishReceive \/ ReceiveFails
  BY <1>0, <1>6, SendParts, ReadParts, ReturnParts
<1>7. CASE Watch \/ CloseTransport \/ Pass
  BY <1>0, <1>7, QuietStep DEF Watch, CloseTransport, Pass, notes
<1>8. CASE ServeChannel \/ Stall \/ Drop
  BY <1>0, <1>8, QuietStep DEF ServeChannel, Stall, Drop, notes
<1>9. ASSUME NEW n \in Numbers, NEW reply \in Replies, Answer(n, reply) PROVE RequestParts'
  BY <1>0, <1>9, AnswerParts
<1>10. CASE UNCHANGED vars
  BY <1>0, <1>10, QuietStep DEF vars, requests
<1>11. QED
  BY <1>2, <1>3, <1>4, <1>5, <1>6, <1>7, <1>8, <1>9, <1>10
     DEF Next, Operation, Watchdog, Environment

(* Nothing is sent, expected or answered initially.                        *)
LEMMA InitRequestInv == Init => RequestInv
<1> SUFFICES ASSUME Init PROVE RequestInv
  OBVIOUS
<1>1. RequestTypes
  BY BoundsAssumption DEF Init, RequestTypes
<1>2. SessionTypes
  BY DEF Init, SessionTypes
<1>3. FlagTypes
  BY Zenon DEF Init, FlagTypes
<1>4. NumberedAt
  BY BoundsAssumption DEF Init, NumberedAt, Numbers
<1>5. \A n \in Numbers : RequestAt(n)
  BY DEF Init, RequestAt
<1>6. WireAt
  BY DEF Init, WireAt
<1>7. QED
  BY <1>1, <1>2, <1>3, <1>4, <1>5, <1>6, TypeParts DEF RequestInv

(* The inductive invariant of the requests holds in every reachable state. *)
THEOREM RequestInvariance == Spec => []RequestInv
BY InitRequestInv, NextRequestInv, PTL DEF Spec

(* The state stays within its types: no reply is delivered to a number     *)
(* that was not sent.                                                      *)
THEOREM TypeCorrect == Spec => []TypeOK
<1>1. RequestInv => TypeOK
  BY DEF RequestInv
<1>2. QED
  BY <1>1, RequestInvariance, PTL

(* _Requests.receive returns the server's answer to its own request, and   *)
(* _replies and _ignored keep nothing of requests that are over.           *)
THEOREM RepliesReachTheirRequest == Spec => []RepliesMatched
<1>1. RequestInv => RepliesMatched
  <2> SUFFICES ASSUME RequestInv, NEW n \in Numbers
               PROVE  /\ outcome[n] \in {"none", answer[n]}
                      /\ replies[n] # "none" => use[n] \notin {"received", "ignored"}
                      /\ n \in ignored => n \in expecting
    BY DEF RepliesMatched
  <2>1. QED
    BY DEF RequestInv, RequestAt
<1>2. QED
  BY <1>1, RequestInvariance, PTL

(* A session that the watchdog closed is reported as a timeout, whichever  *)
(* of the two threads comes first.                                         *)
THEOREM OverdueReported == Spec => []OverdueIsTimeout
<1>1. Init => ReportInv
  BY DEF Init, ReportInv
<1>2. ReportInv => OverdueIsTimeout
  BY DEF ReportInv, OverdueIsTimeout
<1>3. QED
  BY <1>1, <1>2, NextReportInv, PTL DEF Spec

(* _watch closes no session between the steps of its operation.            *)
THEOREM IdleKept == Spec => []IdleNeverExpires
<1>1. Init => ClockInv
  BY DEF Init, ClockInv
<1>2. ClockInv => IdleNeverExpires
  BY DEF ClockInv, IdleNeverExpires
<1>3. QED
  BY <1>1, <1>2, NextClockInv, PTL DEF Spec

----------------------------------------------------------------------------
(* The life of the watchdog.                                               *)

(* Where the operation is between the start of the watchdog and its stop.  *)
Guarded == InStep \cup {"ask", "idle", "close", "stop"}

(* The watchdog's thread lives while the operation may enter a step, or    *)
(* has closed the transport; and it has ended before the client is shut.   *)
WatchInv ==
    /\ transport \in {"none", "open", "closed"}
    /\ pc \in {"trust", "connect"} => watcher = "none" /\ transport = "none"
    /\ watcher # "none" => transport # "none"
    /\ stopped => pc \in {"join", "shut", "done"}
    /\ pc \in Guarded => watcher \in {"watch", "close"} \/ transport = "closed"
    /\ pc \in {"shut", "done"} => watcher \in {"none", "ended"}
    /\ pc = "done" => transport # "open"

(* Every step of the operation, the watchdog, the clock and the server.    *)
LEMMA NextWatchInv == WatchInv /\ [Next]_vars => WatchInv'
<1> SUFFICES ASSUME WatchInv, [Next]_vars PROVE WatchInv'
  OBVIOUS
<1> USE DEF WatchInv, Guarded, InStep, session, watchdog, notes
<1>1. CASE Trust \/ Connect \/ AskChannel \/ OpenChannel
  BY <1>1 DEF Trust, Connect, AskChannel, OpenChannel, Enter, LeaveStep
<1>2. CASE BeginSend \/ Send
  BY <1>2 DEF BeginSend, Send, Enter, LeaveStep
<1>3. CASE ReadResponse
  BY <1>3 DEF ReadResponse
<1>4. CASE FinishReceive \/ ReceiveFails
  BY <1>4 DEF FinishReceive, ReceiveFails, LeaveStep
<1>5. CASE LeaveSession \/ CloseChannel \/ Stop \/ Join \/ CloseClient
  BY <1>5 DEF LeaveSession, CloseChannel, Stop, Join, CloseClient, Closed
<1>6. ASSUME NEW n \in Numbers, BeginReceive(n) \/ Ignore(n) PROVE WatchInv'
  BY <1>6 DEF BeginReceive, Ignore, Enter
<1>7. CASE Watch
  BY <1>7 DEF Watch
<1>8. CASE CloseTransport
  BY <1>8 DEF CloseTransport, Closed
<1>9. CASE Pass
  BY <1>9 DEF Pass
<1>10. CASE ServeChannel \/ Stall \/ Drop
  BY <1>10 DEF ServeChannel, Stall, Drop, Closed
<1>11. ASSUME NEW n \in Numbers, NEW reply \in Replies, Answer(n, reply) PROVE WatchInv'
  BY <1>11 DEF Answer
<1>12. CASE UNCHANGED vars
  BY <1>12 DEF vars
<1>13. QED
  BY <1>1, <1>2, <1>3, <1>4, <1>5, <1>6, <1>7, <1>8, <1>9, <1>10, <1>11, <1>12
     DEF Next, Operation, Watchdog, Environment

(* The life of the watchdog is as described in every reachable state.      *)
THEOREM WatchInvariance == Spec => []WatchInv
<1>1. Init => WatchInv
  BY DEF Init, WatchInv, Guarded, InStep
<1>2. QED
  BY <1>1, NextWatchInv, PTL DEF Spec

(* _Watchdog: no step of the operation waits for the server unguarded.     *)
(* The thread still watches, is about to close the transport, or the       *)
(* transport is closed already, so that the wait ends.                     *)
THEOREM StepsAreWatched ==
    Spec => [](pc \in InStep => watcher \in {"watch", "close"} \/ transport = "closed")
<1>1. WatchInv => (pc \in InStep => watcher \in {"watch", "close"} \/ transport = "closed")
  BY DEF WatchInv, Guarded
<1>2. QED
  BY <1>1, WatchInvariance, PTL

(* _session: an operation that has returned, in whatever way, has left     *)
(* neither an open transport nor a thread behind.                          *)
THEOREM NothingLeftOpen ==
    Spec => [](pc = "done" => transport # "open" /\ watcher \in {"none", "ended"})
<1>1. WatchInv => (pc = "done" => transport # "open" /\ watcher \in {"none", "ended"})
  BY DEF WatchInv
<1>2. QED
  BY <1>1, WatchInvariance, PTL

=============================================================================

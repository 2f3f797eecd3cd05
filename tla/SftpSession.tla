----------------------------- MODULE SftpSession ------------------------------
(***************************************************************************)
(* SFTPConnector._session with _Requests and _Watchdog                     *)
(* (databridge/connectors/sftp.py): one SSH session, its numbered requests *)
(* and the thread that closes the transport of an overdue step.            *)
(*                                                                         *)
(* The operation that uses the session is the most general one: it sends   *)
(* requests, and waits for or gives up the reply to each of them, in any   *)
(* order.  The server answers in any order, more than once or not at all,  *)
(* and may stop reading; the network may lose the session.  Nothing is     *)
(* assumed of either.  paramiko, which numbers the requests and drops a    *)
(* reply that it does not expect, is external.                             *)
(***************************************************************************)
EXTENDS Integers, Sequences

CONSTANTS
    MaxRequests,  \* bound: requests of one session
    MaxStray      \* bound: replies to requests that were already answered

ASSUME BoundsAssumption == MaxRequests \in Nat /\ MaxStray \in Nat

VARIABLES
    pc,         \* the next step of the operation's thread
    waiting,    \* the request that receive waits for
    transport,  \* "none", "open" or "closed"
    channel,    \* the server's answer to open_sftp: "asked", "given" or "refused"
    reading,    \* whether the server still reads what is sent
    deadline,   \* _deadline: "none", "ahead" or "past"
    stopped,    \* _stopped
    expired,    \* expired
    watcher,    \* the watchdog's thread: "none", "watch", "close" or "ended"
    sent,       \* requests are numbered 1..sent
    use,        \* what the operation has done about each request
    expecting,  \* paramiko's _expecting
    wire,       \* replies on their way to the client
    replies,    \* _replies: what came for each request, "none" for nothing
    ignored,    \* _ignored
    stray,      \* replies that answered nothing, up to MaxStray
    answer,     \* history: what the server answered to each request
    outcome,    \* history: what receive returned for each request
    reports,    \* history: the transport failures that calls raised
    cause,      \* history: who closed the transport
    overran     \* history: a step outlived its deadline

session == <<transport, channel, reading>>
watchdog == <<deadline, stopped, expired, watcher>>
requests == <<sent, use, expecting, wire, replies, ignored, stray>>
notes == <<answer, outcome, reports, cause, overran>>
vars == <<pc, waiting, transport, channel, reading, deadline, stopped, expired, watcher, sent, use,
          expecting, wire, replies, ignored, stray, answer, outcome, reports, cause, overran>>

Numbers == 1..MaxRequests
Replies == {"ok", "refused", "unusable"}  \* unusable: oversized, or of another type
InStep == {"open", "send", "receive"}

TypeOK ==
    /\ pc \in InStep \cup {"trust", "connect", "ask", "idle", "close", "stop", "join", "shut", "done"}
    /\ waiting \in 0..sent /\ sent \in 0..MaxRequests
    /\ transport \in {"none", "open", "closed"} /\ channel \in {"asked", "given", "refused"}
    /\ reading \in BOOLEAN /\ stopped \in BOOLEAN /\ expired \in BOOLEAN /\ overran \in BOOLEAN
    /\ deadline \in {"none", "ahead", "past"} /\ watcher \in {"none", "watch", "close", "ended"}
    /\ use \in [Numbers -> {"none", "sent", "received", "ignored", "lost"}]
    /\ expecting \subseteq 1..sent /\ ignored \subseteq 1..sent
    /\ wire \in Seq([number : 1..sent, reply : Replies]) /\ stray \in 0..MaxStray
    /\ replies \in [Numbers -> Replies \cup {"none"}]
    /\ answer \in [Numbers -> Replies \cup {"none"}]
    /\ outcome \in [Numbers -> Replies \cup {"none"}]
    /\ reports \subseteq {"timeout", "lost"} /\ cause \in {"none", "network", "watchdog", "client"}

Init ==
    /\ pc = "trust" /\ waiting = 0
    /\ transport = "none" /\ channel = "asked" /\ reading = TRUE
    /\ deadline = "none" /\ stopped = FALSE /\ expired = FALSE /\ watcher = "none"
    /\ sent = 0 /\ use = [n \in Numbers |-> "none"] /\ expecting = {} /\ wire = <<>>
    /\ replies = [n \in Numbers |-> "none"] /\ ignored = {} /\ stray = 0
    /\ answer = replies /\ outcome = replies
    /\ reports = {} /\ cause = "none" /\ overran = FALSE

----------------------------------------------------------------------------
(* _session: trust, connect, open the channel.                             *)

(* _trust: without a usable known_hosts file nothing is connected.         *)
Trust ==
    /\ pc = "trust" /\ pc' \in {"connect", "shut"}
    /\ UNCHANGED <<waiting, session, watchdog, requests, notes>>

(* _connect, within paramiko's own timeouts: an untrusted key, a refused   *)
(* password or a lost connection may leave a transport behind.  Success    *)
(* starts the watchdog.                                                    *)
Connect ==
    /\ pc = "connect"
    /\ \/ pc' = "shut" /\ transport' \in {"none", "open"} /\ UNCHANGED watcher
       \/ pc' = "ask" /\ transport' = "open" /\ watcher' = "watch"
    /\ UNCHANGED <<waiting, channel, reading, deadline, stopped, expired, requests, notes>>

(* _Watchdog.step around the block that next begins.                       *)
Enter(next) ==
    /\ pc' = next /\ deadline' = "ahead"
    /\ UNCHANGED <<stopped, expired, watcher>>

(* Mutant: only a step that fails resets the deadline.                     *)
LeaveStepArmed(next) ==
    /\ pc' = next
    /\ UNCHANGED <<deadline, stopped, expired, watcher>>

LeaveStep(next) ==
    /\ pc' = next /\ deadline' = "none"
    /\ UNCHANGED <<stopped, expired, watcher>>

AskChannel ==
    /\ pc = "ask" /\ Enter("open")
    /\ UNCHANGED <<waiting, session, requests, notes>>

OpenChannel ==
    /\ pc = "open"
    /\ \/ channel = "given" /\ transport = "open" /\ LeaveStep("idle")
       \/ (channel = "refused" \/ transport = "closed") /\ LeaveStep("stop")
    /\ UNCHANGED <<waiting, session, requests, notes>>

----------------------------------------------------------------------------
(* _Requests.                                                              *)

BeginSend ==
    /\ pc = "idle" /\ sent < MaxRequests /\ Enter("send")
    /\ UNCHANGED <<waiting, session, requests, notes>>

(* Mutant: the kind of failure is read off the exception, not the flag.    *)
ReportLost == reports' = reports \cup {"lost"}

(* _watched: a transport failure is a timeout when the watchdog expired.   *)
Report == reports' = reports \cup {IF expired THEN "timeout" ELSE "lost"}

(* send: paramiko registers the number before it writes the packet, and    *)
(* blocks while the server does not read.                                  *)
Send ==
    /\ pc = "send"
    /\ sent' = sent + 1 /\ expecting' = expecting \cup {sent + 1}
    /\ \/ transport = "open" /\ reading
          /\ use' = [use EXCEPT ![sent + 1] = "sent"] /\ UNCHANGED reports
       \/ transport = "closed" /\ use' = [use EXCEPT ![sent + 1] = "lost"] /\ Report
    /\ LeaveStep("idle")
    /\ UNCHANGED <<waiting, session, wire, replies, ignored, stray, answer, outcome, cause, overran>>

BeginReceive(n) ==
    /\ pc = "idle" /\ use[n] = "sent" /\ waiting' = n /\ Enter("receive")
    /\ UNCHANGED <<session, requests, notes>>

(* _async_response: a reply that is awaited is kept for its request, one   *)
(* that was given up is dropped.                                           *)
Deliver(n, reply) ==
    IF n \in ignored
    THEN ignored' = ignored \ {n} /\ UNCHANGED replies
    ELSE replies' = [replies EXCEPT ![n] = reply] /\ UNCHANGED ignored

(* receive: replies are read until the awaited one is there.               *)
ReadResponse ==
    /\ pc = "receive" /\ replies[waiting] = "none" /\ wire # <<>>
    /\ LET n == Head(wire).number
       IN  /\ expecting' = expecting \ {n}
           /\ IF n \in expecting THEN Deliver(n, Head(wire).reply) ELSE UNCHANGED <<replies, ignored>>
    /\ wire' = Tail(wire)
    /\ UNCHANGED <<pc, waiting, session, watchdog, sent, use, stray, notes>>

(* Mutant: the first reply at hand is taken for the awaited one.           *)
FinishReceiveAny ==
    /\ pc = "receive"
    /\ \E n \in Numbers : /\ replies[n] # "none"
                          /\ replies' = [replies EXCEPT ![n] = "none"]
                          /\ outcome' = [outcome EXCEPT ![waiting] = replies[n]]
    /\ use' = [use EXCEPT ![waiting] = "received"]
    /\ LeaveStep("idle") /\ waiting' = 0
    /\ UNCHANGED <<session, sent, expecting, wire, ignored, stray, answer, reports, cause, overran>>

FinishReceive ==
    /\ pc = "receive" /\ replies[waiting] # "none"
    /\ replies' = [replies EXCEPT ![waiting] = "none"]
    /\ outcome' = [outcome EXCEPT ![waiting] = replies[waiting]]
    /\ use' = [use EXCEPT ![waiting] = "received"]
    /\ LeaveStep("idle") /\ waiting' = 0
    /\ UNCHANGED <<session, sent, expecting, wire, ignored, stray, answer, reports, cause, overran>>

(* Replies that have arrived can be read after the transport was closed,   *)
(* or are lost with it.                                                    *)
ReceiveFails ==
    /\ pc = "receive" /\ replies[waiting] = "none" /\ transport = "closed"
    /\ use' = [use EXCEPT ![waiting] = "lost"] /\ Report
    /\ LeaveStep("idle") /\ waiting' = 0
    /\ UNCHANGED <<session, sent, expecting, wire, replies, ignored, stray, answer, outcome, cause,
                   overran>>

(* ignore: drop the reply now or when it comes.                            *)
Ignore(n) ==
    /\ pc = "idle" /\ use[n] = "sent" /\ use' = [use EXCEPT ![n] = "ignored"]
    /\ \/ replies[n] # "none" /\ replies' = [replies EXCEPT ![n] = "none"] /\ UNCHANGED ignored
       \/ replies[n] = "none" /\ ignored' = ignored \cup {n} /\ UNCHANGED replies
    /\ UNCHANGED <<pc, waiting, session, watchdog, sent, expecting, wire, stray, notes>>

----------------------------------------------------------------------------
(* The end of _session.                                                    *)

(* The operation leaves the context, in order or with an error.            *)
LeaveSession ==
    /\ pc = "idle" /\ pc' = "close"
    /\ UNCHANGED <<waiting, session, watchdog, requests, notes>>

(* sftp.close() sends the end of the channel on the same socket, outside   *)
(* any step of the watchdog: it blocks while the server does not read, and *)
(* its failure is suppressed.                                              *)
CloseChannel ==
    /\ pc = "close" /\ (reading \/ transport = "closed") /\ pc' = "stop"
    /\ UNCHANGED <<waiting, session, watchdog, requests, notes>>

(* _Watchdog.stop, and its join.                                           *)
Stop ==
    /\ pc = "stop" /\ stopped' = TRUE /\ pc' = "join"
    /\ UNCHANGED <<waiting, session, deadline, expired, watcher, requests, notes>>

Join ==
    /\ pc = "join" /\ watcher = "ended" /\ pc' = "shut"
    /\ UNCHANGED <<waiting, session, watchdog, requests, notes>>

Closed(who) ==
    /\ transport' = (IF transport = "open" THEN "closed" ELSE transport)
    /\ cause' = IF transport = "open" THEN who ELSE cause

CloseClient ==
    /\ pc = "shut" /\ Closed("client") /\ pc' = "done"
    /\ UNCHANGED <<waiting, channel, reading, watchdog, requests, answer, outcome, reports, overran>>

----------------------------------------------------------------------------
(* The watchdog's thread and the clock.                                    *)

(* Mutant: the thread sleeps until it is notified; step does not notify.   *)
WatchUnpolled ==
    /\ watcher = "watch" /\ stopped /\ watcher' = "ended"
    /\ UNCHANGED <<pc, waiting, session, deadline, stopped, expired, requests, notes>>

(* _watch polls; the flag is set under the condition's lock ...            *)
Watch ==
    /\ watcher = "watch"
    /\ \/ stopped /\ watcher' = "ended" /\ UNCHANGED expired
       \/ ~stopped /\ deadline = "past" /\ expired' = TRUE /\ watcher' = "close"
    /\ UNCHANGED <<pc, waiting, session, deadline, stopped, requests, notes>>

(* ... and the transport closed after it was released.                     *)
CloseTransport ==
    /\ watcher = "close" /\ Closed("watchdog") /\ watcher' = "ended"
    /\ UNCHANGED <<pc, waiting, channel, reading, deadline, stopped, expired, requests, answer,
                   outcome, reports, overran>>

Pass ==
    /\ deadline = "ahead" /\ deadline' = "past" /\ overran' = (overran \/ pc \in InStep)
    /\ UNCHANGED <<pc, waiting, session, stopped, expired, watcher, requests, answer, outcome,
                   reports, cause>>

----------------------------------------------------------------------------
(* The server and the network.                                             *)

ServeChannel ==
    /\ pc = "open" /\ reading /\ channel = "asked" /\ channel' \in {"given", "refused"}
    /\ UNCHANGED <<pc, waiting, transport, reading, watchdog, requests, notes>>

Answer(n, reply) ==
    /\ transport = "open" /\ use[n] # "none"
    /\ \/ answer[n] = "none" /\ answer' = [answer EXCEPT ![n] = reply] /\ UNCHANGED stray
       \/ answer[n] # "none" /\ stray < MaxStray /\ stray' = stray + 1 /\ UNCHANGED answer
    /\ wire' = Append(wire, [number |-> n, reply |-> reply])
    /\ UNCHANGED <<pc, waiting, session, watchdog, sent, use, expecting, replies, ignored, outcome,
                   reports, cause, overran>>

Stall ==
    /\ reading /\ transport = "open" /\ reading' = FALSE
    /\ UNCHANGED <<pc, waiting, transport, channel, watchdog, requests, notes>>

Drop ==
    /\ transport = "open" /\ Closed("network")
    /\ UNCHANGED <<pc, waiting, channel, reading, watchdog, requests, answer, outcome, reports,
                   overran>>

Operation ==
    \/ Trust \/ Connect \/ AskChannel \/ OpenChannel \/ BeginSend \/ Send \/ ReadResponse
    \/ FinishReceive \/ ReceiveFails \/ LeaveSession \/ CloseChannel \/ Stop \/ Join \/ CloseClient
    \/ \E n \in Numbers : BeginReceive(n) \/ Ignore(n)

Watchdog == Watch \/ CloseTransport

Environment ==
    \/ ServeChannel \/ Stall \/ Drop
    \/ \E n \in Numbers, reply \in Replies : Answer(n, reply)

Next == Operation \/ Watchdog \/ Pass \/ Environment

Spec == Init /\ [][Next]_vars

(* Both threads run, and time passes; nothing is assumed of the server.    *)
FairSpec == Spec /\ WF_vars(Operation) /\ WF_vars(Watchdog) /\ WF_vars(Pass)

----------------------------------------------------------------------------
(* Every receive returns what the server answered to that very request,    *)
(* although replies overtake each other, come twice or belong to requests  *)
(* that were given up; and _replies and _ignored hold nothing about a      *)
(* request that is settled and answered.                                   *)
RepliesMatched == \A n \in Numbers :
    /\ outcome[n] \in {"none", answer[n]}
    /\ replies[n] # "none" => use[n] \notin {"received", "ignored"}
    /\ n \in ignored => n \in expecting

(* When the watchdog closed the session, no call reports a lost connection *)
(* instead of a timeout, whichever thread is faster.                       *)
OverdueIsTimeout == cause = "watchdog" => "lost" \notin reports

(* The session of an operation that is busy elsewhere, as with its local   *)
(* file, is never closed: only a step that outlives its deadline expires.  *)
IdleNeverExpires == expired => overran

Ended == pc = "done" /\ transport # "open" /\ watcher \in {"none", "ended"}

(* sftp.close() blocks on a server that has stopped reading.               *)
Held == pc = "close" /\ transport = "open" /\ ~reading

(* However the server behaves, the operation ends, with the transport      *)
(* closed and the watchdog's thread joined; the one exception is a server  *)
(* that holds the closing of the channel, which no step of the watchdog    *)
(* covers, and it can hold nothing else.                                   *)
SessionEnds == <>Ended \/ <>[]Held

=============================================================================

------------------------------ MODULE SftpRead -------------------------------
(***************************************************************************)
(* SFTPConnector.read with _Download and _Requests                         *)
(* (databridge/connectors/sftp.py): one file is read in order while up to  *)
(* Window requests are in flight.                                          *)
(*                                                                         *)
(* The server answers the requests in any order, each with as much of its  *)
(* range as it likes, with the end of the file or with a failure; a reply  *)
(* that is not the next one waits in _replies.  Other programs shorten or  *)
(* extend the file meanwhile, and the session may be lost.  The server and *)
(* those programs are external.  A unit of data stands for its offset, so  *)
(* that what the caller receives shows where it came from.                 *)
(***************************************************************************)
EXTENDS Integers, Sequences, SequencesExt

CONSTANTS
    Window,       \* WINDOW: requests in flight
    RequestSize,  \* REQUEST_SIZE, in units
    MaxSize,      \* bound: the size of the file
    MaxRead       \* bound: what the caller asks for at once

ASSUME WindowAssumption == Window \in Nat \ {0}
ASSUME RequestSizeAssumption == RequestSize \in Nat \ {0}
ASSUME BoundsAssumption == MaxSize \in Nat /\ MaxRead \in Nat \ {0}

VARIABLES
    length,      \* the server's file, its current size
    link,        \* the session, "up" or "down"
    pc,          \* the next step of the client
    limit,       \* the limit that the caller of read gave; MaxSize for none
    target,      \* _Download._size
    nextOffset,  \* _next_offset
    pending,     \* _pending, with the reply to each request
    leftover,    \* _leftover
    wanted,      \* what the current call of read still lacks
    received     \* history: all units handed to the caller, in order

vars == <<length, link, pc, limit, target, nextOffset, pending, leftover, wanted, received>>

(* A reply is the number of units it carries, none at the end of the file. *)
Waiting == -1
Failed == -2
Requests == [off : 0..MaxSize, len : 1..RequestSize, reply : -2..RequestSize + 1]
Units(off, n) == [i \in 1..n |-> off + i - 1]

TypeOK ==
    /\ length \in 0..MaxSize /\ link \in {"up", "down"}
    /\ pc \in {"open", "idle", "fill", "receive", "take", "release", "end", "error", "left"}
    /\ limit \in 0..MaxSize /\ target \in 0..limit
    /\ nextOffset \in 0..target
    /\ pending \in Seq(Requests)
    /\ leftover \in Seq(0..MaxSize - 1) /\ Len(leftover) <= RequestSize
    /\ wanted \in 0..MaxRead
    /\ received \in Seq(0..MaxSize - 1)

Init ==
    /\ length \in 0..MaxSize /\ limit \in 0..MaxSize
    /\ link = "up" /\ pc = "open"
    /\ target = 0 /\ nextOffset = 0 /\ pending = <<>> /\ leftover = <<>>
    /\ wanted = 0 /\ received = <<>>

server == <<length, link>>
download == <<nextOffset, pending, leftover>>

----------------------------------------------------------------------------
(* The client.                                                             *)

unrequested == nextOffset < target
Exhausted == leftover = <<>> /\ pending = <<>> /\ ~unrequested

(* STAT, OPEN and FSTAT: the size is that of the opened file.  A failure   *)
(* leaves no download.                                                     *)
OpenFile ==
    /\ pc = "open"
    /\ \/ link = "up" /\ pc' = "idle" /\ target' = Min({length, limit})
       \/ pc' = "left" /\ UNCHANGED target
    /\ UNCHANGED <<server, limit, download, wanted, received>>

(* The caller asks for n units, or leaves the context.  A read begins with *)
(* what an earlier reply left over.                                        *)
Call(n) ==
    /\ pc = "idle" /\ wanted' = n
    /\ pc' = IF Exhausted THEN "end" ELSE IF leftover # <<>> THEN "take" ELSE "fill"
    /\ UNCHANGED <<server, limit, target, download, received>>

Leave ==
    /\ pc = "idle" /\ pc' = "release"
    /\ UNCHANGED <<server, limit, target, download, wanted, received>>

(* _next_reply: requests are sent until the window is full.                *)
Fill ==
    /\ pc = "fill"
    /\ LET len == Min({RequestSize, target - nextOffset})
           more == Len(pending) < Window /\ unrequested
       IN  \/ /\ more /\ link = "up"
              /\ pending' = Append(pending, [off |-> nextOffset, len |-> len, reply |-> Waiting])
              /\ nextOffset' = nextOffset + len /\ UNCHANGED pc
           \/ more /\ link = "down" /\ pc' = "error" /\ UNCHANGED <<pending, nextOffset>>
           \/ ~more /\ pc' = "receive" /\ UNCHANGED <<pending, nextOffset>>
    /\ UNCHANGED <<server, limit, target, leftover, wanted, received>>

head == Head(pending)

(* Mutant: the remainder of a short reply is requested last.               *)
ReceiveRemainderLast ==
    /\ pc = "receive" /\ head.reply \in 1..head.len
    /\ leftover' = Units(head.off, head.reply) /\ pc' = "take"
    /\ pending' = IF head.reply < head.len
                  THEN Append(Tail(pending), [off |-> head.off + head.reply,
                                              len |-> head.len - head.reply, reply |-> Waiting])
                  ELSE Tail(pending)
    /\ UNCHANGED <<server, limit, target, nextOffset, wanted, received>>

(* Mutant: the end of the file ends the download, whatever was promised.   *)
ReceiveEndOfFile ==
    /\ pc = "receive"
    /\ \/ head.reply = 0 /\ pc' = "end" /\ UNCHANGED <<leftover, pending>>
       \/ /\ head.reply = head.len /\ pc' = "take"
          /\ leftover' = Units(head.off, head.reply) /\ pending' = Tail(pending)
    /\ UNCHANGED <<server, limit, target, nextOffset, wanted, received>>

(* _next_reply: the oldest request is answered.  The remainder of a short  *)
(* reply is requested again, before all others; the end of the file means  *)
(* that the source changed, and too long a reply is refused.               *)
Receive ==
    /\ pc = "receive"
    /\ \/ /\ head.reply = head.len /\ pc' = "take"
          /\ leftover' = Units(head.off, head.reply) /\ pending' = Tail(pending)
       \/ /\ head.reply \in 1..head.len - 1 /\ link = "up" /\ pc' = "take"
          /\ leftover' = Units(head.off, head.reply)
          /\ pending' = <<[off |-> head.off + head.reply, len |-> head.len - head.reply,
                           reply |-> Waiting]>> \o Tail(pending)
       \/ /\ \/ head.reply \in {0, Failed, head.len + 1}
             \/ head.reply \in {Waiting} \cup 1..head.len - 1 /\ link = "down"
          /\ pc' = "error" /\ pending' = Tail(pending) /\ UNCHANGED leftover
    /\ UNCHANGED <<server, limit, target, nextOffset, wanted, received>>

(* read: the caller gets what it wanted of the reply, and the loop ends,   *)
(* or goes on with the next one.                                           *)
Take ==
    /\ pc = "take"
    /\ LET n == Min({wanted, Len(leftover)})
       IN  /\ received' = received \o SubSeq(leftover, 1, n)
           /\ leftover' = SubSeq(leftover, n + 1, Len(leftover))
           /\ wanted' = wanted - n
           /\ pc' = IF wanted' > 0 /\ (pending # <<>> \/ unrequested) THEN "fill" ELSE "idle"
    /\ UNCHANGED <<server, limit, target, nextOffset, pending>>

(* release, after an error, the end of the file or when the caller leaves: *)
(* the replies still expected are ignored, the handle is closed.           *)
Release ==
    /\ pc \in {"release", "end", "error"} /\ pc' = "left" /\ pending' = <<>>
    /\ UNCHANGED <<server, limit, target, nextOffset, leftover, wanted, received>>

----------------------------------------------------------------------------
(* The server and the network.                                             *)

(* What is left of the file from an offset.                                *)
Available(off) == IF off < length THEN length - off ELSE 0

Serve ==
    /\ \E i \in 1..Len(pending), n \in -2..RequestSize + 1 :
         /\ pending[i].reply = Waiting
         /\ \/ n \in 1..Min({pending[i].len, Available(pending[i].off)})
            \/ n = 0 /\ Available(pending[i].off) = 0
            \/ n \in {Failed, pending[i].len + 1}
         /\ pending' = [pending EXCEPT ![i].reply = n]
    /\ link = "up"
    /\ UNCHANGED <<server, pc, limit, target, nextOffset, leftover, wanted, received>>

(* Another program changes the file.                                       *)
Resize ==
    /\ length' \in 0..MaxSize \ {length}
    /\ UNCHANGED <<link, pc, limit, target, download, wanted, received>>

Drop ==
    /\ link = "up" /\ link' = "down"
    /\ UNCHANGED <<length, pc, limit, target, download, wanted, received>>

(* Mutant: nothing bounds the wait for a reply.                            *)
ExpireNever == FALSE /\ UNCHANGED vars

(* _Watchdog closes the transport when the reply is overdue.               *)
Expire == pc = "receive" /\ head.reply = Waiting /\ Drop

Client == OpenFile \/ Fill \/ Receive \/ Take \/ Release

Next ==
    \/ Client \/ (\E n \in 1..MaxRead : Call(n)) \/ Leave
    \/ Serve \/ Resize \/ Drop \/ Expire

Spec == Init /\ [][Next]_vars

(* The client's thread runs, and the watchdog's deadline passes.  Nothing  *)
(* is assumed of the server, nor of the caller.                            *)
FairSpec == Spec /\ WF_vars(Client) /\ WF_vars(Expire)

----------------------------------------------------------------------------
(* The caller receives the file's units in order, without a gap or a       *)
(* repetition, whatever the order and the length of the replies: what it   *)
(* has, what is left over, and the requests in flight follow each other.   *)
(* The requests that ask for a remainder stay within the window.           *)
InOrder ==
    LET have == received \o leftover
        start(i) == IF i = 1 THEN Len(have) ELSE pending[i - 1].off + pending[i - 1].len
    IN  /\ \A i \in 1..Len(have) : have[i] = i - 1
        /\ pc # "error" => \A i \in 1..Len(pending) : pending[i].off = start(i)
        /\ Len(pending) <= Window

(* The download ends without an error only when the caller has every unit  *)
(* that the opened file had, up to the limit: a file cut short while it is *)
(* read is not passed off as a whole one.                                  *)
EndsWhole == pc = "end" => Len(received) = target

(* Every call of read returns, however the server behaves.                 *)
ReadReturns == pc = "fill" ~> pc \in {"idle", "error"}

=============================================================================

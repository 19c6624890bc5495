--------------------------- MODULE IcmpTimestamp ----------------------------
(***************************************************************************)
(* network/icmp: clients ask a server for its time by ICMP timestamp       *)
(* messages, over raw sockets. The network loses, duplicates and reorders; *)
(* a raw socket sees every ICMP message that comes to its host, and the    *)
(* messages of the programs carry nothing to tell them apart by.           *)
(***************************************************************************)
EXTENDS IcmpPacket, FiniteSets, Functions

CONSTANTS
  Clients,         \* processes that run client.cpp's main, over and over
  Host,            \* the host each of them runs on
  Server,          \* the process of server.cpp
  ServerHost,      \* the address in client.cpp
  Strange,         \* the datagrams others may send
  Start,           \* the second of the day at which time begins
  MaxTime,         \* bounds: the clock,
  MaxRuns,         \*   runs of clients,
  MaxNoise,        \*   duplicated datagrams, and datagrams of others
  None

Processes == Clients \cup {Server}
Hosts == {Host[c] : c \in Clients}
Address(p) == IF p = Server THEN ServerHost ELSE Host[p]
Addresses == {Address(p) : p \in Processes} \cup UNION {{d.from, d.to} : d \in Strange}
Datagrams == [from : Addresses, to : Addresses, words : Seq(Word)]

ASSUME IcmpAssumption ==
  /\ Server \notin Clients
  /\ MaxTime \in Nat /\ MaxRuns \in Nat /\ MaxNoise \in Nat
  /\ Start \in Nat /\ Start < 86400

ASSUME StrangeAssumption == Strange \subseteq Datagrams

VARIABLES
  now,         \* seconds since Start
  running,     \* the processes whose socket is open
  inbox,       \* what each socket has received
  net,         \* the datagrams on their way -> how many of each
  job,         \* the request the server is about to answer, or None
  told,        \* what a client's last run printed
  requests,    \* host -> the time of each request sent from it, in order
  given,       \* host -> the times of the stamps in each reply sent to it
  replies,     \* how many replies the server has sent
  duplicated,  \* how many datagrams the network has duplicated
  strange,     \* what others have sent, in order
  lost         \* a datagram was lost

counts == <<requests, given, replies, duplicated, strange, lost>>
vars == <<now, running, inbox, net, job, told, counts>>

(* second_clock::universal_time().time_of_day() in milliseconds. *)
TimeOfDay(t) ==
  LET ms == 1000 * ((Start + t) % 86400) IN <<ms \div 65536, ms % 65536>>

Datagram(from, to, message) == [from |-> from, to |-> to, words |-> IpHeader(0) \o message]

Copies(d) == IF d \in DOMAIN net THEN net[d] ELSE 0
Send(d) ==
  [e \in DOMAIN net \cup {d} |-> IF e = d THEN Copies(d) + 1 ELSE net[e]]
Remove(d) ==
  [e \in {e \in DOMAIN net : e # d \/ net[d] > 1} |-> IF e = d THEN net[d] - 1 ELSE net[e]]

Init ==
  /\ now = 0
  /\ running = {Server}
  /\ inbox = [p \in Processes |-> <<>>]
  /\ net = <<>>
  /\ job = None
  /\ told = [c \in Clients |-> None]
  /\ requests = [h \in Hosts |-> <<>>]
  /\ given = [h \in Hosts |-> {}]
  /\ replies = 0 /\ duplicated = 0 /\ strange = <<>>
  /\ lost = FALSE

-----------------------------------------------------------------------------
(* client.cpp *)

RequestHeader == [type |-> timestamp_request, identifier |-> 0, sequence_number |-> 0]

(* main up to its loop: the socket is opened and the request sent, once. *)
send_request(c) ==
  /\ c \notin running
  /\ Len(requests[Host[c]]) < MaxRuns
  /\ running' = running \cup {c}
  /\ net' = Send(Datagram(Host[c], ServerHost, icmp_encode(RequestHeader, <<TimeOfDay(now)>>)))
  /\ requests' = [requests EXCEPT ![Host[c]] = Append(@, now)]
  /\ told' = [told EXCEPT ![c] = None]
  /\ UNCHANGED <<now, inbox, job, given, replies, duplicated, strange, lost>>

OwnNumber(d) == d.header.type = timestamp_reply /\ d.header.identifier = 1    \* mutant: another number than the request's
IsMyReply(d) ==
  /\ d.header.type = timestamp_reply
  /\ d.header.identifier = RequestHeader.identifier
  /\ d.header.sequence_number = RequestHeader.sequence_number

(* One round of the loop: receive_reply returns true and main ends, or false. *)
receive_reply(c) ==
  /\ c \in running /\ inbox[c] # <<>>
  /\ \E d \in {icmp_decode(Head(inbox[c]).words)} :
     \/ /\ IsMyReply(d)
        /\ \E ts1 \in Data(d, 2), ts2 \in Data(d, 3) :
             told' = [told EXCEPT ![c] = <<ts1, ts2>>]
        /\ running' = running \ {c}
        /\ inbox' = [inbox EXCEPT ![c] = <<>>]
     \/ /\ ~IsMyReply(d)
        /\ inbox' = [inbox EXCEPT ![c] = Tail(@)]
        /\ UNCHANGED <<running, told>>
  /\ UNCHANGED <<now, net, job, counts>>

(* A run ends without an answer: an exception, or its user's patience. *)
GiveUp(c) ==
  /\ c \in running
  /\ running' = running \ {c}
  /\ inbox' = [inbox EXCEPT ![c] = <<>>]
  /\ UNCHANGED <<now, net, job, told, counts>>

-----------------------------------------------------------------------------
(* server.cpp *)

AnyRequest(d) == d.header.identifier = 0    \* mutant: replies to whatever comes
IsRequest(d) == d.header.type = timestamp_request

receive_request ==
  /\ Server \in running /\ job = None /\ inbox[Server] # <<>>
  /\ \E packet \in {Head(inbox[Server])} : \E d \in {icmp_decode(packet.words)} :
     \/ /\ IsRequest(d)
        /\ \E data \in Data(d, 1) :
             job' = [ep |-> packet.from, identifier |-> d.header.identifier,
                     sequence_number |-> d.header.sequence_number, data |-> data]
     \/ ~IsRequest(d) /\ UNCHANGED job
  /\ inbox' = [inbox EXCEPT ![Server] = Tail(@)]
  /\ UNCHANGED <<now, running, net, told, counts>>

ReplyHeader ==
  [type |-> timestamp_reply, identifier |-> job.identifier,
   sequence_number |-> job.sequence_number]

StampsFirst(orig, received, sent) == <<received, sent, orig>>    \* mutant: the wrong order
ReplyData(orig, received, sent) == <<orig, received, sent>>

(* The clock is read twice, and may go on in between. *)
send_reply ==
  /\ Server \in running /\ job # None
  /\ now' \in {now, now + 1} /\ now' <= MaxTime
  /\ \E m \in {icmp_encode(ReplyHeader, ReplyData(job.data, TimeOfDay(now), TimeOfDay(now')))} :
       net' = Send(Datagram(ServerHost, job.ep, m))
  /\ given' = [h \in DOMAIN given |->
                 IF h = job.ep THEN given[h] \cup {<<now, now'>>} ELSE given[h]]
  /\ replies' = replies + 1
  /\ job' = None
  /\ UNCHANGED <<running, inbox, told, requests, duplicated, strange, lost>>

(* An exception, of send_to for one, ends the server for everybody. *)
ServerEnds ==
  /\ Server \in running
  /\ running' = running \ {Server}
  /\ job' = None
  /\ inbox' = [inbox EXCEPT ![Server] = <<>>]
  /\ UNCHANGED <<now, net, told, counts>>

-----------------------------------------------------------------------------
(* The network, and time. *)

(* A raw socket gets a copy of whatever comes to its host. *)
Deliver(d) ==
  /\ net' = Remove(d)
  /\ inbox' = [p \in Processes |->
                 IF p \in running /\ Address(p) = d.to THEN Append(inbox[p], d) ELSE inbox[p]]
  /\ UNCHANGED <<now, running, job, told, counts>>

Lose(d) ==
  /\ net' = Remove(d)
  /\ lost' = TRUE
  /\ UNCHANGED <<now, running, inbox, job, told, requests, given, replies, duplicated, strange>>

Duplicate(d) ==
  /\ duplicated + Len(strange) < MaxNoise
  /\ duplicated' = duplicated + 1
  /\ net' = Send(d)
  /\ UNCHANGED <<now, running, inbox, job, told, requests, given, replies, strange, lost>>

Intrude(d) ==
  /\ duplicated + Len(strange) < MaxNoise
  /\ strange' = Append(strange, d)
  /\ net' = Send(d)
  /\ UNCHANGED <<now, running, inbox, job, told, requests, given, replies, duplicated, lost>>

Tick ==
  /\ now < MaxTime
  /\ now' = now + 1
  /\ UNCHANGED <<running, inbox, net, job, told, counts>>

DeliverAny == \E d \in DOMAIN net : Deliver(d)

Next ==
  \/ \E c \in Clients : send_request(c) \/ receive_reply(c) \/ GiveUp(c)
  \/ receive_request \/ send_reply \/ ServerEnds
  \/ DeliverAny
  \/ \E d \in DOMAIN net : Lose(d) \/ Duplicate(d)
  \/ \E d \in Strange : Intrude(d)
  \/ Tick

(* What is in an inbox is read, what is read is answered, and what is not lost
   arrives. Nobody has to start, to give up, or to lose anything.          *)
Fairness ==
  /\ WF_vars(DeliverAny)
  /\ WF_vars(receive_request) /\ WF_vars(send_reply)
  /\ \A c \in Clients : WF_vars(receive_reply(c))

Spec == Init /\ [][Next]_vars /\ Fairness

-----------------------------------------------------------------------------
(* Properties. *)

Times == 0 .. MaxTime
Stamps ==
  {TimeOfDay(t) : t \in Times} \cup Junk
  \cup UNION {Data(icmp_decode(d.words), k) : d \in Strange, k \in 1 .. 3}

TypeOK ==
  /\ now \in Times
  /\ running \subseteq Processes
  /\ inbox \in [Processes -> Seq(Datagrams)]
  /\ \A p \in Processes : \A d \in Range(inbox[p]) : d.to = Address(p)
  /\ DOMAIN net \subseteq Datagrams /\ \A d \in DOMAIN net : net[d] \in Nat \ {0}
  /\ job \in {None} \cup [ep : Addresses, identifier : Word, sequence_number : Word, data : Stamps]
  /\ told \in [Clients -> {None} \cup (Stamps \X Stamps)]
  /\ requests \in [Hosts -> Seq(Times)]
  /\ given \in [Hosts -> SUBSET (Times \X Times)]
  /\ replies \in Nat /\ duplicated \in 0 .. MaxNoise /\ strange \in Seq(Strange)
  /\ lost \in BOOLEAN

(* The stamps of the requests sent from a host. *)
RequestStamps(h) == {TimeOfDay(requests[h][i]) : i \in DOMAIN requests[h]}

(* A reply on its way repeats a stamp that its addressee has put into a request,
   although encoding, decoding and a copy of the server's lie between; as long
   as nobody sends it incomplete requests.                                  *)
RepliesEcho ==
  strange = <<>> =>
    \A d \in DOMAIN net : d.from = ServerHost =>
      Data(icmp_decode(d.words), 1) \subseteq RequestStamps(d.to)

(* Whatever the programs send carries the checksum that RFC 1071 asks for:
   folding the sum twice is enough.                                        *)
ChecksumsVerify ==
  \A d \in DOMAIN net : d \in Strange \/ Verifies(AfterIpHeader(d.words))

(* One reply to each request, and none to anything else: what the two programs
   and their raw sockets hear of each other never makes messages breed.      *)
SentRequests == UNION {{h} \X DOMAIN requests[h] : h \in Hosts}
StrangeRequests ==
  {i \in DOMAIN strange : icmp_decode(strange[i].words).header.type = timestamp_request}
NoAmplification ==
  replies <= Cardinality(SentRequests) + duplicated + Cardinality(StrangeRequests)

(* The programs are a TimeService, as long as strangers are silent: a client
   prints two stamps that the server took, in this order, for a request that
   came from the client's host.                                            *)
Service == INSTANCE TimeService WITH
  Users <- Clients,
  HostOf <- Host,
  Nothing <- None,
  asking <- running \ {Server},
  asked <- {h \in DOMAIN requests : requests[h] # <<>>},
  strangers <- strange # <<>>
ImplementsService == Service!Spec

(* client.cpp sends once and waits without a limit: it waits for ever only if
   something was lost or the server is gone, whoever else is answered.      *)
WaitsOnlyForLosses ==
  \A c \in Clients : c \in running ~> c \notin running \/ lost \/ Server \notin running

=============================================================================

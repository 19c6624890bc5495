------------------------------- MODULE IcmpMC -------------------------------
(* IcmpTimestamp with two clients on one host, and what others may send. *)
EXTENDS IcmpTimestamp

CONSTANTS c1, c2

MCHost == [c \in Clients |-> "home"]

(* An incomplete reply; somebody's ping; a request without its data. *)
MCStrange ==
  {[from |-> "else", to |-> "home", words |-> IpHeader(0) \o <<timestamp_reply * 256>>],
   [from |-> "home", to |-> ServerHost, words |-> IpHeader(1) \o <<8 * 256, 0, 0, 0>>],
   [from |-> "home", to |-> ServerHost, words |-> IpHeader(1) \o <<timestamp_request * 256, 0, 0, 0>>]}

(* With this one, a reply's sum needs its second carry. *)
MCJunk == {<<65535, 14212>>}

=============================================================================

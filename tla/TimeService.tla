----------------------------- MODULE TimeService ----------------------------
(***************************************************************************)
(* What a user of the timestamp client may rely on, without packets: what  *)
(* is told are stamps the service took, after somebody on the user's host  *)
(* asked, and gave to that host. Not that they answer this very question:  *)
(* questions carry no name. And nothing at all once strangers speak.       *)
(***************************************************************************)
EXTENDS Integers

CONSTANTS
  Users,
  HostOf,       \* the host of each user
  TimeOfDay(_), \* the stamp of a time
  Nothing

VARIABLES
  now,
  asking,       \* the users who wait for an answer
  asked,        \* the hosts a user has asked from
  given,        \* host -> the pairs of times that were given to it
  told,         \* user -> the stamps they were told last
  strangers     \* strangers have spoken

serviceVars == <<now, asking, asked, given, told, strangers>>

Init ==
  /\ now = 0
  /\ asking = {} /\ asked = {}
  /\ given = [h \in {HostOf[u] : u \in Users} |-> {}]
  /\ told = [u \in Users |-> Nothing]
  /\ strangers = FALSE

Ask(u) ==
  /\ u \notin asking
  /\ asking' = asking \cup {u}
  /\ asked' = asked \cup {HostOf[u]}
  /\ told' = [told EXCEPT ![u] = Nothing]
  /\ UNCHANGED <<now, given, strangers>>

(* The two stamps of an answer are taken one after the other. *)
Give(h) ==
  /\ h \in asked \/ strangers
  /\ now' >= now
  /\ given' = [given EXCEPT ![h] = @ \cup {<<now, now'>>}]
  /\ UNCHANGED <<asking, asked, told, strangers>>

Tell(u) ==
  /\ u \in asking
  /\ asking' = asking \ {u}
  /\ \/ \E t \in given[HostOf[u]] :
          told' = [told EXCEPT ![u] = <<TimeOfDay(t[1]), TimeOfDay(t[2])>>]
     \/ strangers /\ \A v \in Users \ {u} : told'[v] = told[v]
  /\ UNCHANGED <<now, asked, given, strangers>>

GiveUp(u) ==
  /\ u \in asking
  /\ asking' = asking \ {u}
  /\ UNCHANGED <<now, asked, given, told, strangers>>

Speak == strangers' = TRUE /\ UNCHANGED <<now, asking, asked, given, told>>

Pass == now' > now /\ UNCHANGED <<asking, asked, given, told, strangers>>

Next ==
  \/ \E u \in Users : Ask(u) \/ Tell(u) \/ GiveUp(u)
  \/ \E h \in DOMAIN given : Give(h)
  \/ Speak \/ Pass

Spec == Init /\ [][Next]_serviceVars

=============================================================================

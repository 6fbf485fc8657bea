---------------------------- MODULE TicketQueue ----------------------------
(***************************************************************************)
(* What the queue of agent tasks promises, without workers, scans or rows. *)
(* Queueing a task issues a ticket.  A ticket is open until somebody takes *)
(* it or it is withdrawn, it is issued once, and only an open ticket is    *)
(* taken: so no queueing of a task is ever run twice, whatever the number  *)
(* of workers.                                                             *)
(***************************************************************************)
CONSTANTS Tickets, Takers

VARIABLES
  issued,  \* the tickets issued so far
  open,    \* those of them that are still to be had
  holders  \* who took each ticket

ticketVars == <<issued, open, holders>>

TicketInit ==
  /\ issued = {}
  /\ open = {}
  /\ holders = [k \in Tickets |-> {}]

Issue(k) ==
  /\ k \notin issued
  /\ issued' = issued \cup {k}
  /\ open' = open \cup {k}
  /\ UNCHANGED holders

Take(k, r) ==
  /\ k \in open
  /\ open' = open \ {k}
  /\ holders' = [holders EXCEPT ![k] = @ \cup {r}]
  /\ UNCHANGED issued

Withdraw(k) ==
  /\ k \in open
  /\ open' = open \ {k}
  /\ UNCHANGED <<issued, holders>>

TicketNext ==
  \E k \in Tickets : Issue(k) \/ Withdraw(k) \/ \E r \in Takers : Take(k, r)

TicketSpec == TicketInit /\ [][TicketNext]_ticketVars
=============================================================================

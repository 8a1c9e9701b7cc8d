----------------------------- MODULE LeasedWork -----------------------------
(***************************************************************************)
(* What a leased table promises, without leases, clocks, scans or crashes: *)
(* an item is attempted a bounded number of times, every attempt is one    *)
(* worker's, workers may give up or vanish at any time, and only the       *)
(* latest attempt gives a verdict: DELIVERED if what it did was accepted,  *)
(* FAILED if no attempt is left.                                           *)
(***************************************************************************)
EXTENDS Naturals

CONSTANTS
  Items,
  Workers,
  MaxAttempts

VARIABLES
  verdict,   \* of each item
  begun,     \* attempts of each item so far
  hand,      \* the attempts that a worker is at
  accepted   \* those among them whose effect was accepted

workVars == <<verdict, begun, hand, accepted>>

Init ==
  /\ verdict = [i \in Items |-> "ABSENT"]
  /\ begun = [i \in Items |-> 0]
  /\ hand = [w \in Workers |-> {}]
  /\ accepted = [w \in Workers |-> {}]

Offer(i) ==
  /\ verdict[i] = "ABSENT"
  /\ verdict' = [verdict EXCEPT ![i] = "PENDING"]
  /\ UNCHANGED <<begun, hand, accepted>>

\* The attempt that nobody began before.
Begin(w, i) ==
  /\ verdict[i] = "PENDING"
  /\ begun[i] < MaxAttempts
  /\ begun' = [begun EXCEPT ![i] = @ + 1]
  /\ hand' = [hand EXCEPT ![w] = @ \cup {<<i, begun[i] + 1>>}]
  /\ UNCHANGED <<verdict, accepted>>

Accept(w, i) ==
  /\ \E attempt \in hand[w] :
       attempt[1] = i /\ accepted' = [accepted EXCEPT ![w] = @ \cup {attempt}]
  /\ UNCHANGED <<verdict, begun, hand>>

\* Attempts are given up, and what was accepted of others is forgotten.
Lose(w) ==
  /\ hand'[w] \subseteq hand[w]
  /\ accepted'[w] \subseteq accepted[w]
  /\ hand' = [hand EXCEPT ![w] = hand'[w]]
  /\ accepted' = [accepted EXCEPT ![w] = accepted'[w]]
  /\ UNCHANGED <<verdict, begun>>

Latest(i) == <<i, begun[i]>>

\* The worker of the latest attempt closes the item.
Close(w, i, status) ==
  /\ verdict[i] = "PENDING"
  /\ verdict' = [verdict EXCEPT ![i] = status]
  /\ hand' = [hand EXCEPT ![w] = @ \ {Latest(i)}]
  /\ accepted' = [accepted EXCEPT ![w] = @ \ {Latest(i)}]
  /\ UNCHANGED begun

Deliver(w, i) == Latest(i) \in accepted[w] /\ Close(w, i, "DELIVERED")

GiveUp(w, i) ==
  /\ Latest(i) \in hand[w]
  /\ begun[i] = MaxAttempts
  /\ Close(w, i, "FAILED")

Next ==
  \/ \E i \in Items : Offer(i)
  \/ \E w \in Workers :
       \/ Lose(w)
       \/ \E i \in Items : Begin(w, i) \/ Accept(w, i) \/ Deliver(w, i) \/ GiveUp(w, i)

Spec == Init /\ [][Next]_workVars
=============================================================================

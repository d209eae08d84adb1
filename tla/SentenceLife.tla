---------------------------- MODULE SentenceLife ----------------------------
(***************************************************************************)
(* What the speech queue promises about each sentence of a session: it is  *)
(* accepted, taken from the front and spoken, each at most once, or it is  *)
(* dropped together with everything that waits with it and never spoken.   *)
(* Sentences are spoken in order until the first interruption; each one    *)
(* may leave one more hand at work that is overtaken.                      *)
(***************************************************************************)
EXTENDS Naturals, FiniteSets

CONSTANT MaxSentences

VARIABLES life, cuts

vars == <<life, cuts>>

Sentences == 1..MaxSentences

Queued == {s \in Sentences : life[s] = "queued"}

Claimed == {s \in Sentences : life[s] = "claimed"}

Init == life = [s \in Sentences |-> "new"] /\ cuts = 0

\* Sentences are numbered in the order they are accepted.
Accept(s) ==
    /\ life[s] = "new"
    /\ \A t \in 1..(s - 1) : life[t] # "new"
    /\ life' = [life EXCEPT ![s] = "queued"] /\ UNCHANGED cuts

Claim(s) ==
    /\ s \in Queued
    /\ \A t \in Queued : s <= t
    /\ life' = [life EXCEPT ![s] = "claimed"] /\ UNCHANGED cuts

Speak(s) ==
    /\ s \in Claimed
    /\ Cardinality({t \in Claimed : t < s}) <= cuts
    /\ life' = [life EXCEPT ![s] = "spoken"] /\ UNCHANGED cuts

\* All that waits is dropped, by an interruption or in its wake.
Drop ==
    /\ life' = [s \in Sentences |-> IF s \in Queued THEN "dropped" ELSE life[s]]
    /\ cuts' \in {cuts, cuts + 1}

Next == Drop \/ \E s \in Sentences : Accept(s) \/ Claim(s) \/ Speak(s)

Spec == Init /\ [][Next]_vars

=============================================================================

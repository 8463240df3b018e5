---------------------------- MODULE StrandQueue ----------------------------
(* What can be said of a queue of handlers without counting them. *)
EXTENDS Naturals, Sequences

\* Some handler queued in s is one of hs.
QueuedIn(s, hs) == \E i \in 1 .. Len(s) : s[i] \in hs

\* No two handlers queued in s are of hs.
OnceIn(s, hs) == \A i, j \in 1 .. Len(s) : s[i] \in hs /\ s[j] \in hs => i = j
=============================================================================

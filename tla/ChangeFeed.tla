----------------------------- MODULE ChangeFeed -----------------------------
(***************************************************************************)
(* What the repository promises of its derived subjects                    *)
(* (internal/repositories/jetstream/repository.go:6-9 and :162-174): per   *)
(* actor and kind a feed of values in which each one changes the previous  *)
(* one, and a Write that returns leaves its value at the end of the feed.  *)
(* Commands are appended whatever came before.                             *)
(***************************************************************************)
EXTENDS Naturals

CONSTANTS Actors, Kinds, FeedValues, Commands

VARIABLES
    feed,   \* feed[a][k]: how many values were published for actor a and kind
            \* k, and the last of them
    acked   \* acked[a][k]: the value the last returned Write of k left, or none

\* None: no Write of this kind has returned for the actor yet.
None == "none"

FeedInit ==
    /\ feed = [a \in Actors |-> [k \in Kinds |-> [count |-> 0, last |-> None]]]
    /\ acked = [a \in Actors |-> [k \in Kinds |-> None]]

Extend(a, k, v) ==
    feed' = [feed EXCEPT ![a][k] = [count |-> @.count + 1, last |-> v]]

\* A change is published.
Record(a, k, v) ==
    /\ k \notin Commands /\ feed[a][k].last # v
    /\ Extend(a, k, v)
    /\ UNCHANGED acked

\* A command is published and its Write returns.
Issue(a, k, v) ==
    /\ k \in Commands
    /\ Extend(a, k, v)
    /\ acked' = [acked EXCEPT ![a][k] = v]

\* A Write of v returns: the feed ends with v.
Ack(a, k, v) ==
    /\ feed[a][k].last = v
    /\ acked' = [acked EXCEPT ![a][k] = v]
    /\ UNCHANGED feed

FeedNext ==
    \E a \in Actors, k \in Kinds, v \in FeedValues :
        Record(a, k, v) \/ Issue(a, k, v) \/ Ack(a, k, v)

FeedSpec == FeedInit /\ [][FeedNext]_<<feed, acked>>
=============================================================================

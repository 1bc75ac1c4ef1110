----------------------------- MODULE ZoneLists ------------------------------
(***************************************************************************)
(* Zone memberships travel as lists of zone ids, and are compared twice on *)
(* their way, each time by a zonesEqual of its own: by the adapter with    *)
(* the list of the datagram before (quuppa/derive.go:92, state.go:23-40),  *)
(* by the repository with the list it published last (jetstream/           *)
(* repository.go:213-218, 426-441).  The other modules model zone lists as *)
(* sets and compare them with =.  Derive_proofs shows for which lists that *)
(* is right: those without repeated ids.                                   *)
(***************************************************************************)
EXTENDS Naturals, Sequences

\* The lengths agree and every element of the first list occurs in the second.
zonesEqual(a, b) ==
    /\ Len(a) = Len(b)
    /\ \A i \in DOMAIN a : \E j \in DOMAIN b : a[i] = b[j]

\* The set of zones a list stands for.
ZoneSet(a) == {a[i] : i \in DOMAIN a}

\* No zone id occurs twice.
Distinct(a) == \A i, j \in DOMAIN a : a[i] = a[j] => i = j
=============================================================================

------------------------------ MODULE MCServices ------------------------------
EXTENDS Services

CONSTANTS k1, g1, g2

(* Databases that older releases left: without recorded versions, with      *)
(* profiles twice or not, and with or without rows to bring over; and one   *)
(* of a release before migration 6, whose key did not keep a game single.   *)
OldRows(ks, a, keyed) ==
  [settings |-> ks, runtime |-> ks, tweaks |-> ks, snapshots |-> ks, benchmarks |-> ks,
   network |-> ks, accounts |-> ks, entitlements |-> ks,
   artifact |-> [t \in ArtifactTables |-> a], keyed |-> keyed]

OldProfile(r, g, s) == [row |-> r, game |-> g, stamp |-> s, filled |-> 0]
Twice(filled) == {[OldProfile(r, g1, r) EXCEPT !.filled = IF filled THEN r ELSE 0] : r \in 1..2}

MCReleases ==
  {[disk |-> [NewDb EXCEPT !.profiles = ps], old |-> OldRows(ks, a, ps = {})] :
     ps \in {{}, {OldProfile(1, g1, 1), OldProfile(2, g1, 1)},
             {OldProfile(1, g1, 2), OldProfile(2, g1, 1), OldProfile(3, g2, 1)}},
     ks \in {{}, {k1}}, a \in {"none", "rows", "narrow"}}
  \cup
  {[disk |-> [NewDb EXCEPT !.profiles = Twice(FALSE)], old |-> OldRows({k1}, "rows", TRUE)],
   [disk |-> [NewDb EXCEPT !.versions = 1..5, !.schema = {"base", "columns"},
                           !.profiles = Twice(TRUE)],
    old |-> OldRows({}, "none", TRUE)]}

(* Without leaves what the SelectSeq of the library does. *)
ASSUME WithoutSelects ==
  \A n \in 0..3 : \A s \in [1..n -> Sockets], gone \in SUBSET Sockets :
    Without(s, gone) = SelectSeq(s, LAMBDA c : c \notin gone)
===============================================================================

------------------------------ MODULE MCStats ------------------------------
(***************************************************************************)
(* Instances of Stats for TLC.                                             *)
(***************************************************************************)
EXTENDS Stats

MCOwnerOf == [room1 |-> "owner1", room2 |-> "owner2", room3 |-> "owner1"]

\* An alert in one house, a paid bill in either; the second is of a room that may go.
MCDoc == {<<"unresolved", "room1", 1>>, <<"paid", "room2", 1>>, <<"paid", "room3", 1>>}
MCSeedDocs == {<<"paid", "room2", 1>>, <<"paid", "room3", 1>>}
MCAsked == [overview |-> {"rooms", "unresolved"}, revenue |-> {"paid"}]
MCAsks == {<<"admin", "revenue">>, <<"owner1", "overview">>, <<"owner1", "revenue">>}

OthersDoc == {<<"unresolved", "room2", 1>>}
NoDocs == {}
Overview == [overview |-> {"rooms", "unresolved"}]
OverviewAsks == {<<"admin", "overview">>, <<"owner1", "overview">>}
=============================================================================

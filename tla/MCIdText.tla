------------------------------ MODULE MCIdText ------------------------------
(* IdText for TLC: the values programs make, well-formed and not. *)
EXTENDS IdText

Releases ==
  {NoRelease} \cup [some : {TRUE}, text : {<<>>, <<"a">>, <<"-">>, <<"A">>, <<"0", ":", "a">>}]
Versions == [major : {0}, minor : {1}, patch : {0, 10}, release : Releases]
Vendors == {<<>>, <<"a">>, <<".">>, <<"a", ":", "a">>}
Names == {<<"a">>, <<"-">>, <<"a", ":", "b">>}
Variants == {<<"b">>, <<"0", ".", "1", ".", "0">>}
SomeVersions == {v \in Versions : v.patch = 0 /\ (v.release.some => Len(v.release.text) # 1)}
Specifics == [vendor : Vendors, product : Names, variant : Variants, version : SomeVersions]
Addresses == {<<>>, <<<<"a">>>>, <<<<"a">>, <<"/", "A">>>>, <<<<"a">>, <<"b">>, <<"_">>>>}

\* A vendor that reads as vendor, product, variant and a version too large.
Flooded ==
  [vendor |-> <<"a", ":", "a", ":", "a", ":", "1", "1", ".", "0", ".", "0">>, product |-> <<"a">>,
   variant |-> <<"b">>, version |-> [major |-> 0, minor |-> 1, patch |-> 0, release |-> NoRelease]]

MadeValues ==
  [type : {"Version"}, it : Versions] \cup [type : {"Specific"}, it : Specifics \cup {Flooded}]
    \cup [type : {"Address"}, it : Addresses]
=============================================================================

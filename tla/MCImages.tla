------------------------------ MODULE MCImages ------------------------------
(***************************************************************************)
(* Instances of Images for TLC: three repositories, one pulled with its    *)
(* tag, one without and one from a registry on a port of its own, and      *)
(* symmetric pullers.                                                      *)
(***************************************************************************)
EXTENDS Images, TLC

MCNames == {<<"alpine", "latest">>, <<"busybox">>, <<"localhost", "5000/img", "tag">>}

PullersSymmetry == Permutations(Pullers)
=============================================================================

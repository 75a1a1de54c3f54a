------------------------------- MODULE MCPortal -------------------------------
(* Addresses of one byte: two spellings of device 0A, one of device 1A, and    *)
(* ids that are refused (a group, all zero, too long).                         *)
EXTENDS PortalSession, TLC

MCIds == {<<"0", "a">>, <<"0", "-", "A">>, <<"1", "A">>,
          <<"0", "B">>, <<"0", ":", "0">>, <<"0", "A", "0">>}

MCSymmetry == Permutations(Handlers) \cup Permutations(Browsers)
=============================================================================

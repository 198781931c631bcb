------------------------ MODULE MCIdentityResolution ------------------------
(* Three calls of one vessel: punctuation variants, missing and conflicting *)
(* IMO numbers, one VCN.                                                    *)
EXTENDS IdentityResolution

MCRatio == [b \in {{"a", "b"}} |-> 40]
Rec(mark, imo, teu) ==
  [name |-> [base |-> "a", mark |-> mark], imo |-> imo, vcn |-> 1, type |-> 0,
   flag |-> 0, teu |-> teu, grt |-> 0, loa |-> 0]
plain == Rec("clean", 0, 1)
first == Rec("clean", 1, 0)
other == Rec("hyphen", 2, 1)
MCLoads == {<<plain, first, other>>, <<other, plain, first>>, <<first, other, plain>>,
            <<plain, other, plain>>, <<first, first, plain>>, <<other, first, other>>}
=============================================================================

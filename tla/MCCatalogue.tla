---------------------------- MODULE MCCatalogue ----------------------------
(* The catalogue with the socks and the order of service_test.go. *)
EXTENDS Catalogue

MCAddresses == {<<>>, <<Field("size", <<>>, Digits(3))>>}

\* The socks of service_test.go.
TestSocks == 1..5
TestDatabases ==
    {[rows   |-> <<1, 2, 3, 4, 5>>,
      tagged |-> <<{"odd", "prime"}, {"even", "prime"}, {"odd", "prime"}, {"even"},
                   {"odd", "prime"}>>]}

\* List honours the order it is asked for, as the test of the service has it:
\* with the order "tag", the first page of three is socks 4, 1 and 2.
SortHonoured ==
    sort = "tag" /\ Asked = {} /\ PageNum(keys) = Num(1) /\ ShownSize = 3 => shown = <<4, 1, 2>>
=============================================================================

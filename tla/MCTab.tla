-------------------------------- MODULE MCTab --------------------------------
(* Model checking of Tab. *)
EXTENDS Tab

\* Eight socks, one of them without a tag.  Two databases hold them in two orders
\* and with different tags.
MCSocks == 1..8
MCDatabases ==
    {[rows   |-> [k \in 1..8 |-> k],
      tagged |-> [s \in MCSocks |-> IF s = 8 THEN {} ELSE IF s < 3 THEN {"blue"}
                                    ELSE IF s < 6 THEN {"blue", "red"} ELSE {"red"}]],
     [rows   |-> [k \in 1..8 |-> 9 - k],
      tagged |-> [s \in MCSocks |-> IF s = 4 THEN {"green", "blue"} ELSE {"red"}]]}

\* category.html as the pages link to it, a bookmark with a filter, and one that a
\* campaign has given keys of its own.
MCAddresses ==
    {<<>>, <<Field("tags", <<>>, Text({"blue"})), Field("size", <<>>, Digits(3))>>,
     <<Field("ref", <<Push>>, Zero), Field("ref", <<Push>>, Nothing),
       Field("ref", <<Index(4)>>, Digits(7)), Field("utm", <<Push>>, Digits(1)),
       Field("utm", <<Name("id"), Push>>, Text({"x"}))>>}

\* Narrow, between the two limits of the menus, and wide.
MCWidths == {750, 765, 1000, 1200}

\* A picture makes a box higher, and more so the wider it is; a text takes fewer lines.
MCNatural(b, full, w) ==
    IF b = "box" THEN (IF w = 1200 THEN 2 ELSE 3)
    ELSE IF ~full THEN 1 ELSE IF w = 1200 THEN 5 ELSE IF b = "sock" THEN 4 ELSE 2
=============================================================================

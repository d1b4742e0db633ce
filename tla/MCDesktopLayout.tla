--------------------------- MODULE MCDesktopLayout ---------------------------
(***************************************************************************)
(* DesktopLayout for TLC: what a client asks for.                          *)
(***************************************************************************)
EXTENDS DesktopLayout

At(x, y, s) == [on |-> TRUE, x |-> x, y |-> y, size |-> s]
None        == [on |-> FALSE, x |-> 0, y |-> 0, size |-> 1]

MCRequests ==
    {[monitors |-> <<At(0, 0, 1), At(-2, 0, 2)>>,  use_pos |-> TRUE],
     [monitors |-> <<None, At(2, 0, 1)>>,          use_pos |-> TRUE],
     [monitors |-> <<At(0, 0, 2)>>,                use_pos |-> FALSE]}

MCPlaces == {<<0, 0>>, <<-2, -1>>}

==============================================================================

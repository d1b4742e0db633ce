----------------------------- MODULE MCClipboard ------------------------------
(***************************************************************************)
(* Clipboard for TLC: the worlds it is checked in.                         *)
(***************************************************************************)
EXTENDS Clipboard

\* A long exchange without trouble.
Calm == [formats |-> {"text", "image"}, parts |-> 3, messages |-> 5, copies |-> 2, pastes |-> 3,
         may |-> {}]

\* Short ones: with all the troubles but the desktop switch, with all that one
\* of the properties holds with, and with the switch: of clients that stay, and of
\* clients that leave.
Short(troubles) ==
    [formats |-> {"text"}, parts |-> 3, messages |-> 3, copies |-> 1, pastes |-> 2,
     may |-> troubles]

Known     == Troubles \ {"switch"}
Leaving   == Short({"fail open", "leave", "unknown"})
Filing    == [Short({"fail open", "leave", "unknown", "files"}) EXCEPT !.formats = {"text", "image"}]
Torn      == Short({"timeouts", "change", "files"})
Moving    == [Short({"switch"}) EXCEPT !.messages = 4, !.copies = 4]
Switching == [Short({"leave", "switch"}) EXCEPT !.copies = 2]

MCWorlds ==
    {Calm, Short(Known), Short(Known \ {"change"}), Leaving, Filing, Torn, Moving, Switching}

\* A client that changes its mind and sends files, for what the code says.
TornWorlds == {Short({"change", "files"})}

==============================================================================

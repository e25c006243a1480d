-------------------------------- MODULE MCBot --------------------------------
(***************************************************************************)
(* Bot on small instances.                                                 *)
(***************************************************************************)
EXTENDS Bot

BothModes   == {"webhook", "polling"}

Owner    == {"owner"}
Stranger == {"stranger"}
TwoDates == {1, 2}

Said(chat, kind, date) == [chat |-> chat, kind |-> kind, date |-> date]

\* Every kind of message; confirm and lock differ only in what they apply.
Messages ==
  { Said("owner", "command", NoDate), Said("owner", "adjust", 1), Said("owner", "adjust", 2),
    Said("owner", "lock", 1), Said("owner", "text", NoDate), Said("owner", "badtext", NoDate),
    Said("stranger", "text", NoDate) }

\* What a conversation about corrections is made of.
Corrections ==
  { Said("owner", "command", NoDate), Said("owner", "adjust", 1), Said("owner", "adjust", 2),
    Said("owner", "text", NoDate) }

=============================================================================

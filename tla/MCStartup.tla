------------------------------ MODULE MCStartup ------------------------------
(***************************************************************************)
(* Startup on a small instance: a first .env, one with other rules and     *)
(* another label, one that names a device twice, a broken one, an empty    *)
(* one, and two that end the start after its commit: a zone nobody knows,  *)
(* and a reminder at an hour that is none.                                 *)
(***************************************************************************)
EXTENDS Startup

MCRules    == {"2026.1", "2026.2"}
MCNetworks == {"office", "none"}
MCMacs     == {"phone", "laptop"}
MCLabels   == {"Phone", "Work"}
MCZones    == {"Sydney", "Nowhere"}
MCKnown    == {"Sydney"}

Entry(m, l) == [mac |-> m, label |-> l]

\* The settings that are the same in most of them.
Usual == [rules |-> "2026.1", ssid |-> "office", zone |-> "Sydney", tracked |-> <<>>,
          wellFormed |-> TRUE, host |-> TRUE, bot |-> "none", hour |-> TRUE]

MCEnvs ==
  { [Usual EXCEPT !.tracked = <<Entry("phone", "Phone")>>, !.bot = "webhook"],
    [Usual EXCEPT !.rules = "2026.2", !.bot = "polling",
                  !.tracked = <<Entry("phone", "Work"), Entry("laptop", "Work")>>],
    [Usual EXCEPT !.tracked = <<Entry("phone", "Phone"), Entry("phone", "Work")>>],
    [Usual EXCEPT !.rules = "2026.2", !.wellFormed = FALSE],
    [Usual EXCEPT !.ssid = "none", !.host = FALSE],
    [Usual EXCEPT !.zone = "Nowhere", !.tracked = <<Entry("phone", "Phone")>>],
    [Usual EXCEPT !.bot = "polling", !.hour = FALSE] }

=============================================================================

---------------------------- MODULE MCClientRound ----------------------------
(***************************************************************************)
(* Small instances of ClientRound for TLC: one behaviour explores one of   *)
(* these scenarios.                                                        *)
(***************************************************************************)
EXTENDS ClientRound

Nothing == [rounds |-> 2, pages |-> 0, faults |-> 0, toggles |-> 0,
            background |-> {}, newTab |-> FALSE]

\* Two rounds over a reload, with lost, refused and late calls.
Reload == [Nothing EXCEPT !.pages = 1, !.faults = 2]
\* A page that is hidden or offline and back while its calls are under way.
Hidden == [Nothing EXCEPT !.rounds = 1, !.faults = 2, !.toggles = 2]
\* Token refreshes and session probes beside the calls of two rounds.
Renewal == [Nothing EXCEPT !.toggles = 1, !.background = {"refresh", "status"}]
\* A relaunch in a tab without the ledger: the server's cursor finds the result.
NewTab == [Nothing EXCEPT !.pages = 1, !.toggles = 1, !.newTab = TRUE]
\* One round while the token is renewed and calls fail.
Troubled == [Nothing EXCEPT !.rounds = 1, !.faults = 1, !.toggles = 1,
                            !.background = {"refresh"}]

Everyday == {Reload, Hidden, Renewal, NewTab, Troubled}
=============================================================================

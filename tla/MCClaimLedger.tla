---------------------------- MODULE MCClaimLedger ----------------------------
(* One profile with two registered services of different authority, a        *)
(* correction and an unregistered memory; another profile that shares an     *)
(* entity with it.                                                           *)
EXTENDS ClaimLedger

Plain == [owner |-> "p", says |-> "x", writer |-> Unsigned, rule |-> NoRule, obs |-> 0,
          conf |-> 0, verified |-> FALSE, asserted |-> FALSE, state |-> "assertion",
          shared |-> FALSE, kind |-> "memory"]

MCEvents == 1 .. 7

MCEv == <<[Plain EXCEPT !.writer = "w", !.rule = 60, !.obs = 1, !.shared = TRUE],
          [Plain EXCEPT !.writer = "w", !.rule = 60, !.obs = 2, !.says = "y", !.verified = TRUE],
          [Plain EXCEPT !.writer = "v", !.rule = 60, !.obs = 3, !.says = "y",
                        !.state = "correction"],
          [Plain EXCEPT !.owner = "q", !.says = "y", !.shared = TRUE],
          [Plain EXCEPT !.writer = "w", !.rule = 60, !.obs = 2, !.kind = "field"],
          [Plain EXCEPT !.writer = "v", !.rule = 60, !.obs = 1, !.kind = "field",
                        !.says = "y"],
          Plain>>
=============================================================================

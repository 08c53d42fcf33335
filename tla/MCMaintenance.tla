--------------------------- MODULE MCMaintenance ---------------------------
(***************************************************************************)
(* Three memories in batches of two, two deliveries of a task, one         *)
(* failure, and one or two things the live service does meanwhile.        *)
(***************************************************************************)
EXTENDS Maintenance

\* A table, from the created_at, the value and the user of each row.
M(at, val, user) == [st |-> "live", model |-> "old", edited |-> FALSE, at |-> at, val |-> val,
                     src |-> "passport_agent", user |-> user, owner |-> user]
Usual == <<M(2, 1, 1), M(3, 2, 1), M(1, 2, 2)>>
Table(rows) == [i \in Ids |-> rows[i]]
Orphans == [i \in Ids |-> [Usual[i] EXCEPT !.owner = IF i = 2 THEN 1 ELSE 0]]
Corrected == [Table(Usual) EXCEPT ![3].src = "user_correction"]
Archived == [Table(Usual) EXCEPT ![1].st = "archived", ![2].val = 1]
Partly == [Table(Usual) EXCEPT ![2].model = "new"]

Do(t) == [task |-> t, dry |-> FALSE]
Dry(t) == [task |-> t, dry |-> TRUE]
To(m) == [task |-> "activate", model |-> m]
Asks == [task |-> "ask"]
Ev(e, i) == [ev |-> e, id |-> i]
Rec(v) == [ev |-> "record", val |-> v]
Known == [st |-> "active", val |-> 1, win |-> Live, live |-> TRUE]
S(rows, c, asked, then) == [rows |-> rows, claim |-> c, asked |-> asked, then |-> then]

AllScripts == <<
  S(Table(Usual), NoClaim, <<Do("embed"), Do("embed")>>, <<>>),
  S(Partly, NoClaim, <<Do("embed"), Do("embed")>>, <<Ev("delete", 3)>>),
  S(Table(Usual), NoClaim, <<Do("embed"), Do("embed")>>, <<Ev("edit", 2)>>),
  S(Table(Usual), NoClaim, <<Do("embed")>>, <<Ev("archive", 2), Ev("edit", 3), Ev("archive", 3)>>),
  S(Orphans, NoClaim, <<Do("users"), Do("users")>>, <<>>),
  S(Table(Usual), NoClaim, <<Do("tenant"), Dry("tenant")>>, <<Rec(2)>>),
  S(Archived, Known, <<Do("tenant"), Do("tenant")>>, <<>>),
  S(Table(Usual), NoClaim, <<Do("passport"), Do("passport")>>, <<>>),
  S(Corrected, NoClaim, <<Do("passport")>>, <<Rec(2)>>),
  S(Corrected, Known, <<Do("passport"), Dry("passport")>>, <<>>),
  S(Archived, NoClaim, <<Do("passport"), Do("passport")>>, <<>>),
  S(Table(Usual), NoClaim, <<To("new"), To("other"), To("new"), Asks>>, <<>>)
  >>
MCScripts == [k \in DOMAIN AllScripts |-> AllScripts[k]]
=============================================================================

--------------------------- MODULE MC_PlanReview ---------------------------
(* Two reviews for one place, so that the second has to evict the first; an *)
(* instruction for each agent, one of them recognised by two.               *)
EXTENDS Planning, TLC

Quiet ==
  [hits |-> [a \in Agents |-> 0], phrases |-> {}, intent |-> NoAgent, related |-> {},
   proposal |-> FALSE, workspace |-> "none", git |-> {}, file |-> "none",
   mail |-> [draft |-> FALSE, valid |-> TRUE, account |-> FALSE, mailbox |-> FALSE],
   event |-> [create |-> FALSE, missing |-> {"date", "time"}]]

Of(a) == [Quiet EXCEPT !.hits = [@ EXCEPT ![a] = 1]]

MCInstructions ==
  {[Of("git") EXCEPT !.file = "invalid"],
   [Of("git") EXCEPT !.file = "write", !.git = {"add paths"}],
   [Of("research") EXCEPT !.hits = [@ EXCEPT !["project"] = 2], !.phrases = {"research"},
                          !.related = {"notes"}],
   [Of("email") EXCEPT !.mail = [@ EXCEPT !.account = TRUE]],
   [Of("calendar") EXCEPT !.event = [create |-> TRUE, missing |-> {}]],
   [Quiet EXCEPT !.workspace = "write"]}

MCMemories  == {"today", "plans", "notes"}
MCKindOf    == [today |-> "tasks", plans |-> "projects", notes |-> "daily"]
MCPathOrder == [today |-> 3, plans |-> 2, notes |-> 1]

Symmetry == Permutations(Reviews)

=============================================================================

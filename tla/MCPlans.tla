------------------------------- MODULE MCPlans -------------------------------
(* Overlapping additions to a plan and to a group; plans that change while a   *)
(* user asks for his; periods; and groups that follow the directory while they *)
(* are edited.                                                                 *)
EXTENDS Plans

Plan(name) ==
    [name |-> name, enabled |-> TRUE, priority |-> 0, action |-> "block", target |-> NoTarget, channels |-> {"in_site"},
     period |-> "monthly", hours |-> 1, anchor |-> "fixed", window |-> WholeDay, scope |-> AllModels]

OnlyFast == [allow |-> {"fast"}, deny |-> {}]
NotSlow  == [allow |-> {"any-*"}, deny |-> {"slow"}]

(* As a hand in the database may leave it: it does not parse. *)
Muddled == [allow |-> {"fast"}, deny |-> {"fast"}]

MCCovers == [p \in {"fast", "slow", "any-*"} |-> IF p = "any-*" THEN {"fast", "slow"} ELSE {p}]

Quiet == [plans |-> 1 :> Plan("a"), groups |-> <<>>, members |-> {}, directory |-> {},
          users |-> {1, 2}, disabled |-> {}, asks |-> {}, turns |-> <<>>, tasks |-> FALSE,
          faults |-> 0, moves |-> {}, ticks |-> 0]

Request(o, id, l) == [op |-> o, plan |-> id, ids |-> l]
GroupRequest(o, l) == [op |-> o, group |-> "g", ids |-> l, ldap_sync |-> FALSE]

SyncAsks == {GroupRequest("add_members", <<2>>), GroupRequest("remove_members", <<1>>),
             GroupRequest("add_all", <<>>), GroupRequest("sync_group", <<>>),
             GroupRequest("update_group", <<>>), GroupRequest("delete_group", <<>>)}

PlanOffices ==
    [adds    |-> [Quiet EXCEPT
                        !.turns = [a1 |-> 1, a2 |-> 2],
                        !.asks = {Request("add_plan_users", 1, <<1, 2>>), Request("add_plan_users", 1, <<2, 1>>),
                                  Request("add_plan_users", 1, <<2>>), Request("add_plan_users", 1, <<>>),
                                  Request("remove_plan_users", 1, <<1>>), Request("delete_plan", 1, <<>>)}],
     groups  |-> [Quiet EXCEPT
                        !.turns = [a1 |-> 2, a2 |-> 1], !.faults = 1,
                        !.groups = "g" :> [ldap_sync |-> FALSE, result |-> "never"],
                        !.asks = {Request("add_plan_groups", 1, <<"g">>), Request("remove_plan_groups", 1, <<"g">>),
                                  GroupRequest("delete_group", <<>>), GroupRequest("create_group", <<>>),
                                  GroupRequest("add_members", <<2, 1>>), GroupRequest("add_members", <<3>>),
                                  GroupRequest("add_all", <<>>)}],
     view    |-> [Quiet EXCEPT
                        !.turns = [a1 |-> 2, reader |-> 1], !.ticks = 1,
                        !.plans = (1 :> [Plan("a") EXCEPT !.window = <<1, 0>>])
                               @@ (2 :> [Plan("b") EXCEPT !.scope = Muddled]),
                        !.asks = {Request("add_plan_users", 1, <<1>>), Request("add_plan_users", 2, <<1>>),
                                  [op |-> "update_plan", plan |-> 1, patch |-> [enabled |-> FALSE]],
                                  [op |-> "update_plan", plan |-> 1, patch |-> [window |-> WholeDay, scope |-> OnlyFast]]}],
     clock   |-> [Quiet EXCEPT
                        !.turns = [a1 |-> 2], !.ticks = 8,
                        !.plans = (1 :> [Plan("a") EXCEPT !.period = "hourly", !.hours = 3, !.anchor = "join"])
                               @@ (2 :> [Plan("b") EXCEPT !.period = "hourly", !.hours = 2])
                               @@ (3 :> [Plan("c") EXCEPT !.period = "daily"])
                               @@ (4 :> Plan("d"))
                               @@ (5 :> [Plan("e") EXCEPT !.period = "total"]),
                        !.groups = "g" :> [ldap_sync |-> FALSE, result |-> "never"],
                        !.members = {<<"g", 2>>},
                        !.asks = {GroupRequest("add_members", <<1>>), GroupRequest("remove_members", <<1>>),
                                  [op |-> "update_plan", plan |-> 3, patch |-> [period |-> "hourly", hours |-> 4]],
                                  [op |-> "update_plan", plan |-> 4, patch |-> [action |-> "downgrade"]],
                                  [op |-> "update_plan", plan |-> 4, patch |-> [name |-> "a", scope |-> NotSlow]],
                                  [op |-> "create_plan", fields |-> [Plan("f") EXCEPT !.period = "daily", !.hours = 9]],
                                  [op |-> "create_plan", fields |-> [Plan("a") EXCEPT !.target = "fast"]],
                                  [op |-> "create_plan", fields |-> [Plan("f") EXCEPT !.period = "weekly"]],
                                  [op |-> "create_plan", fields |-> [Plan("f") EXCEPT !.anchor = "birth"]],
                                  [op |-> "create_plan", fields |-> [Plan("f") EXCEPT !.action = "wait"]],
                                  [op |-> "create_plan", fields |-> [Plan("f") EXCEPT !.channels = {"pigeon"}]],
                                  [op |-> "create_plan", fields |-> [Plan("f") EXCEPT !.action = "downgrade"]]}]]

SyncOffices ==
    [sync    |-> [Quiet EXCEPT
                        !.turns = [a1 |-> 1], !.tasks = TRUE, !.faults = 1, !.moves = {3},
                        !.groups = "g" :> [ldap_sync |-> TRUE, result |-> "never"],
                        !.directory = {0, 3}, !.members = {<<"g", 2>>},
                        !.asks = {GroupRequest("add_members", <<1>>), GroupRequest("sync_group", <<>>)}],
     tangle  |-> [Quiet EXCEPT
                        !.turns = [a1 |-> 1], !.tasks = TRUE,
                        !.groups = "g" :> [ldap_sync |-> TRUE, result |-> "never"],
                        !.directory = {0, 1, 2},
                        !.asks = {GroupRequest("add_members", <<1, 2>>)}],
     crowd   |-> [Quiet EXCEPT
                        !.turns = [a1 |-> 1, a2 |-> 1],
                        !.groups = "g" :> [ldap_sync |-> FALSE, result |-> "never"],
                        !.asks = {GroupRequest("add_members", <<1, 2>>), GroupRequest("add_all", <<>>)}],
     edits   |-> [Quiet EXCEPT
                        !.turns = [a1 |-> 2], !.tasks = TRUE,
                        !.groups = "g" :> [ldap_sync |-> TRUE, result |-> "never"],
                        !.directory = {0, 1}, !.members = {<<"g", 1>>, <<"g", 2>>}, !.disabled = {2},
                        !.asks = SyncAsks],
     pair    |-> [Quiet EXCEPT
                        !.tasks = TRUE, !.faults = 1, !.moves = {1},
                        !.groups = "g" :> [ldap_sync |-> TRUE, result |-> "never"]
                                @@ "h" :> [ldap_sync |-> TRUE, result |-> "never"],
                        !.directory = {1}]]

MCOffices == PlanOffices @@ SyncOffices

MCMonthStarts == {0, 4, 12, 16}
=============================================================================

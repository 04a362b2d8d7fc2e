------------------------------ MODULE MCConfig ------------------------------
(* Refreshes of the library while models, routes and providers change;      *)
(* overlapping replacements of a user's rules; routes and providers edited  *)
(* together; rules and prices; settings that pass each other.               *)
EXTENDS Catalog, TLC

CONSTANTS null, refused

Provider(name) == [name |-> name, enabled |-> TRUE, key |-> "k"]
Route(pattern, p) == [pattern |-> pattern, provider |-> p, fallback |-> <<>>, priority |-> 100,
                      enabled |-> TRUE, upstream |-> null]
Model(p, m, on) == [provider |-> p, model |-> m, enabled |-> on, attrs |-> Unset]
Attr(name, value) == [of |-> name, to |-> value]
Grant(p, pattern) == [user |-> "u1", provider |-> p, pattern |-> pattern]

Person(admin) == [is_admin |-> admin, status |-> 1]

MCCovers == [p \in {"m1", "m2", "m*"} |-> IF p = "m*" THEN {"m1", "m2"} ELSE {p}]

NoHeaders == [custom |-> FALSE]
Open == [responses_enabled |-> TRUE, responses_visible |-> TRUE, messages_enabled |-> TRUE, messages_visible |-> TRUE]

Empty == [providers |-> <<>>, routes |-> <<>>, rules |-> <<>>, prices |-> <<>>, models |-> <<>>,
          user_access |-> {}, users |-> [root |-> Person(TRUE), u1 |-> Person(FALSE)], ldap |-> [url |-> "", password |-> ""],
          settings |-> [extra_body_enabled |-> [enabled |-> TRUE], message_templates |-> [custom |-> FALSE],
                        api_endpoints |-> Open, custom_headers |-> NoHeaders], next |-> 3]

TwoProviders == [Empty EXCEPT !.providers = <<Provider("a"), Provider("b")>>]

Scene(tables, sections, asks, n1, n2, cut) ==
    [db |-> tables, sections |-> sections, asks |-> asks, turns |-> [a1 |-> n1, a2 |-> n2], faults |-> cut]

On(o, id) == [op |-> o, id |-> id]
Patch(o, id, p) == [op |-> o, id |-> id, patch |-> p]
Create(o, fields) == [op |-> o, fields |-> fields]
Setting(o, v) == [op |-> o, value |-> v]
Update(u, p) == [op |-> "update_user", user |-> u, patch |-> p]
PutAccess(rules) == [op |-> "put_user_access", user |-> "u1", rules |-> rules]

LibraryDb == [TwoProviders EXCEPT
    !.providers[2].enabled = FALSE,
    !.routes = <<[Route("m1", 1) EXCEPT !.enabled = FALSE], [Route("m2", 2) EXCEPT !.fallback = <<1>>]>>,
    !.models = <<Model(1, "m1", FALSE)>>]

RoutesDb == [TwoProviders EXCEPT !.routes = <<[Route("m1", 1) EXCEPT !.fallback = <<2>>]>>]

RulesDb == [Empty EXCEPT
    !.rules = <<[scope |-> "user", scope_id |-> "u1", concurrency |-> 1, enabled |-> TRUE]>>,
    !.prices = <<[model |-> "m1", from |-> 1, price |-> 5]>>]

MCScenes ==
    [library |-> Scene(LibraryDb, <<"disabled_models">>,
                    {On("refresh_models", 0), Patch("update_model", 1, [enabled |-> TRUE]),
                     Patch("update_route", 2, [enabled |-> FALSE]), On("delete_provider", 1)}, 1, 1, 1),
     models  |-> Scene([LibraryDb EXCEPT !.providers[2].enabled = TRUE, !.models[1].enabled = TRUE], <<"disabled_models">>,
                    {On("test_connection", 1), On("refresh_models", 0), On("delete_model", 1),
                     Patch("update_model", 1, [enabled |-> FALSE, attrs |-> <<Attr("capability", "text")>>]),
                     Patch("update_model", 1, [attrs |-> <<Attr("context_length", 8), Attr("capability", null)>>]),
                     Patch("update_model", 1, [attrs |-> <<Attr("max_output_tokens", refused)>>])}, 1, 1, 0),
     access  |-> Scene([TwoProviders EXCEPT !.routes = <<[Route("m*", 1) EXCEPT !.fallback = <<2>>]>>,
                                            !.user_access = {Grant(1, "m1")}],
                    <<"user_access">>,
                    {PutAccess({Grant(1, null)}), PutAccess({Grant(2, "m2")}), PutAccess({}),
                     On("delete_provider", 1)}, 1, 1, 1),
     admins  |-> Scene([TwoProviders EXCEPT !.routes = <<Route("m*", 1)>>, !.user_access = {Grant(1, "m1")}],
                    <<"admin_ids">>,
                    {Update("u1", [is_admin |-> TRUE]), Update("u1", [status |-> 0, is_admin |-> FALSE]), Update("root", [status |-> 0]),
                     [op |-> "ldap_login", user |-> "u1", is_admin |-> TRUE],
                     [op |-> "ldap_login", user |-> "u2", is_admin |-> TRUE]}, 2, 1, 0),
     providers |-> Scene(RoutesDb, <<"providers">>,
                    {Create("create_provider", Provider("c")), Create("create_provider", Provider("b")),
                     Create("create_provider", [Provider("d") EXCEPT !.key = ""]),
                     Patch("update_provider", 2, [key |-> "", enabled |-> FALSE]),
                     Patch("update_provider", 2, [auth_scheme |-> refused]), On("delete_provider", 2)}, 1, 1, 0),
     routes  |-> Scene(RoutesDb, <<"routes">>,
                    {Create("create_route", [Route("m2", 2) EXCEPT !.fallback = <<1>>]),
                     Create("create_route", [extra_body |-> refused] @@ Route("m2", 2)),
                     Patch("update_route", 1, [provider |-> 2, fallback |-> <<1>>, upstream |-> ""]),
                     Patch("update_route", 1, [thinking_form |-> refused]), On("delete_route", 1),
                     On("delete_provider", 2)}, 1, 1, 1),
     rules   |-> Scene(RulesDb, <<"rules">>,
                    {Create("create_rate_limit", [RulesDb.rules[1] EXCEPT !.scope = "api_key", !.scope_id = "k0"]),
                     Create("create_rate_limit", [RulesDb.rules[1] EXCEPT !.scope = "api_key", !.scope_id = "k1"]),
                     Patch("update_rate_limit", 1, [scope |-> "global"]),
                     Patch("update_rate_limit", 1, [scope_id |-> "root"]),
                     Patch("update_rate_limit", 1, [concurrency |-> refused]), On("delete_rate_limit", 1)}, 1, 1, 0),
     prices  |-> Scene(RulesDb, <<"prices">>,
                    {Create("create_price", [model |-> "m1", from |-> 2, price |-> 7]), On("delete_price", 1)}, 2, 1, 0),
     settings |-> Scene(Empty, <<"extra_body_enabled", "ldap">>,
                    {Setting("put_extra_body_settings", [enabled |-> FALSE]), Setting("put_extra_body_settings", [enabled |-> TRUE]),
                     Setting("put_message_settings", refused), Setting("put_message_settings", [custom |-> TRUE]),
                     Setting("put_api_endpoint_settings", [Open EXCEPT !.messages_visible = FALSE]),
                     Setting("put_header_settings", [custom |-> TRUE]),
                     Create("put_ldap_settings", [url |-> "ldap://", password |-> ""]),
                     Create("put_ldap_settings", [url |-> refused, password |-> "p"])},
                    1, 1, 1)]

MCListings == <<{Failed, <<>>, <<"m1", "m2">>}, {Failed, <<"m2">>}>>
MCOwner == [k0 |-> "root", k1 |-> "u1"]
MCEnvLdap == [url |-> "", password |-> "env"]
=============================================================================

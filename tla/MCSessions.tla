------------------------------ MODULE MCSessions ------------------------------
(* Two clients of one session and an administrator; a client and two changes of *)
(* his status or password; a client and two administrators who disable and      *)
(* enable him at the same time; logins that the limiter admits or not, with     *)
(* every answer of the directory; and a user's keys.                            *)
EXTENDS Sessions

MCDesks ==
    [sessions  |-> [clients |-> [p1 |-> 2, p2 |-> 1], admins |-> [p3 |-> 1],
                       ops |-> {"login", "refresh", "logout", "disable", "force_logout"},
                       names |-> {"u"}, outcomes |-> {}, ticks |-> 0],
     status    |-> [clients |-> [p1 |-> 2], admins |-> [p3 |-> 2],
                       ops |-> {"login", "refresh", "enable", "disable", "reset_password"},
                       names |-> {"u"}, outcomes |-> {}, ticks |-> 0],
     enabled   |-> [clients |-> [p1 |-> 1], admins |-> [p2 |-> 1, p3 |-> 1],
                       ops |-> {"refresh", "enable", "disable"},
                       names |-> {}, outcomes |-> {}, ticks |-> 0],
     logins    |-> [clients |-> [p1 |-> 4], admins |-> [p3 |-> 1],
                       ops |-> {"login", "set_is_admin"}, names |-> {"root", "u"},
                       outcomes |-> {"admin", "member", "bad_credentials", "not_found"}, ticks |-> 2],
     keys      |-> [clients |-> [p1 |-> 3, p2 |-> 3], admins |-> <<>>,
                       ops |-> {"create_key", "revoke_key"}, names |-> {},
                       outcomes |-> {}, ticks |-> 0]]
===============================================================================

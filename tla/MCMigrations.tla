----------------------------- MODULE MCMigrations -----------------------------
(***************************************************************************)
(* Migrations on small catalogues, for TLC.                                *)
(***************************************************************************)
EXTENDS MigrationsProps

CONSTANTS users, traces, base, name, ts

create(t) == [op |-> "create", table |-> t, features |-> {base}, guarded |-> TRUE]
add(t, f) == [op |-> "add", table |-> t, features |-> {f}, guarded |-> FALSE]
index(t, f) == [op |-> "add", table |-> t, features |-> {f}, guarded |-> TRUE]

(* 001_init_auth, 005_users_add_name, 009_request_traces of SQLite, and a file
   of two statements like 008_admin_users_pw_policy *)
Tolerant ==
  <<[stmts |-> <<create(users)>>, ignore |-> FALSE, blocking |-> TRUE],
    [stmts |-> <<create(traces), index(traces, ts)>>, ignore |-> FALSE, blocking |-> FALSE],
    [stmts |-> <<add(users, name), add(users, ts)>>, ignore |-> TRUE, blocking |-> TRUE]>>

(* 001_init_auth and 009_user_token_version *)
Shipped ==
  <<[stmts |-> <<create(users), create(traces)>>, ignore |-> FALSE, blocking |-> TRUE],
    [stmts |-> <<add(users, ts), add(traces, ts)>>, ignore |-> FALSE, blocking |-> TRUE]>>
=============================================================================

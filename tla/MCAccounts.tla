----------------------------- MODULE MCAccounts -----------------------------
(* An instance of Accounts for TLC. *)
EXTENDS Accounts

CONSTANTS u1, c1, c2, p1, p2, s1, s2

\* One user's archive of two channels.
TwoChannels == {<<u1, "server", "a">>, <<u1, "server", "b">>}
=============================================================================

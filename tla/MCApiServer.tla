----------------------------- MODULE MCApiServer -----------------------------
(***************************************************************************)
(* Users files of two users: as installed, with one of them promoted and   *)
(* the other gone, with one token twice, with a token that is too short,   *)
(* and readable by everybody.  Lines of one unit and of three, where two   *)
(* fit the scanner and four the part of the file that is read.             *)
(***************************************************************************)
EXTENDS ApiServer

CONSTANTS t1, t2, weak

MCTokens == {t1, t2, weak}
MCShort == {weak}

User(n, t, r) == [name |-> n, token |-> t, role |-> r]
File(p, s) == [private |-> p, users |-> s]

Installed == <<User("ann", t1, "viewer"), User("bob", t2, "operator")>>

MCUserFiles ==
    {File(TRUE, Installed), File(FALSE, Installed),
     File(TRUE, <<User("ann", t1, "admin")>>),
     File(TRUE, <<User("ann", t1, "viewer"), User("bob", t1, "operator")>>),
     File(TRUE, <<User("ann", t1, "viewer"), User("bob", weak, "operator")>>),
     File(TRUE, <<User("ann", t1, "root")>>)}

MCSizes == {1, 3}
MCLimits == {0, 1}

(* The two halves meet only in who may ask: the file varies for one caller *)
(* of a daemon without users, the users while nothing is written.          *)
OneHalf == events = 0 \/ (usersFile = Off /\ caller = NoToken
                         /\ changes = 0 /\ entry = "nobody")
=============================================================================

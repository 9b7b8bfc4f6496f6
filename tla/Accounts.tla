------------------------------ MODULE Accounts ------------------------------
(***************************************************************************)
(* What the program keeps of its users: the archive of each (Archive), the *)
(* password hashes (UserDB), the sessions (UserSessions) and the contexts  *)
(* of the connections that try to log in (UserContext).  The rows of User  *)
(* are written by hand or by a tool: the program only reads them.          *)
(*                                                                         *)
(* alloc and get run under sessionsLock_, and a context belongs to one     *)
(* connection: each call of authorize is one step.                         *)
(***************************************************************************)
EXTENDS Archive

CONSTANTS
    Users,          \* ids of users
    Passwords,
    Contexts,       \* UserContexts
    SessionKeys,    \* what the uuid generator makes
    NoOne           \* an empty string: no user, no key

ASSUME NoOneAssumption == NoOne \notin Users \union SessionKeys

VARIABLES
    hashes,         \* passwordHash of every user with a row, by userId
    sessions,       \* UserSessions::sessions_: the user, by key
    context         \* userId_ and sessionKey_ of every context

accounts == <<hashes, sessions, context>>
vars == <<log, accounts>>

\* A hash, split at its $: how many parts, what the second says, and the
\* password that the salt and the derived key belong to.
Hash == [parts : 1..5, format : {"s0", "s1", "2a", ""}, of : Passwords \union {NoOne}]

\* $s1$params$salt$hash
crypt(password) == [parts |-> 5, format |-> "s1", of |-> password]

\* What may be in the table: hashes of this program, of the Java one that it
\* names ($s0$), and of others.
Hashes ==
    {crypt(p) : p \in Passwords}
      \union [parts : {4, 5}, format : {"s0", "2a"}, of : Passwords]
NoHash == [parts |-> 1, format |-> "", of |-> NoOne]

Context == [userId : Users \union {NoOne}, sessionKey : SessionKeys \union {NoOne}]

TypeOK ==
    /\ log \in Seq(Row)
    /\ DOMAIN hashes \subseteq Users
    /\ \A u \in DOMAIN hashes : hashes[u] \in Hash
    /\ DOMAIN sessions \subseteq SessionKeys
    /\ \A s \in DOMAIN sessions : sessions[s] \in Users
    /\ context \in [Contexts -> Context]

Init ==
    /\ log = <<>>
    /\ \E registered \in SUBSET Users : hashes \in [registered -> Hashes]
    /\ sessions = <<>>
    /\ context = [c \in Contexts |-> [userId |-> NoOne, sessionKey |-> NoOne]]

\* The string is empty when there is no row.
fetchPasswordHash(u) == IF u \in DOMAIN hashes THEN hashes[u] ELSE NoHash

\* Scrypt::check throws at a hash whose second part is not "s0" or is not "s1",
\* which is every hash: no password is ever accepted.
check(password, hash) ==
    IF hash.parts # 5 \/ hash.format # "s0" \/ hash.format # "s1" THEN "throws"
    ELSE IF hash.of = password THEN "true" ELSE "false"

checkPassword(u, password) == check(password, fetchPasswordHash(u))

Insert(k, time) == insertLog(k, time) /\ UNCHANGED accounts

\* UserSessions::alloc, with a key that generateSessionKey has made.
generateSessionKey == SessionKeys \ DOMAIN sessions
alloc(u, key) ==
    [s \in DOMAIN sessions \union {key} |-> IF s = key THEN u ELSE sessions[s]]

\* authorize(userId, password): a session of a fresh key, if check says so.  An
\* exception leaves everything as it is.
AuthorizePassword(c, u, password) ==
    /\ LET accepted == checkPassword(u, password) = "true"
       IN  \E key \in generateSessionKey :
             /\ sessions' = IF accepted THEN alloc(u, key) ELSE sessions
             /\ context' = IF accepted
                           THEN [context EXCEPT ![c] =
                                   [userId |-> u, sessionKey |-> key]]
                           ELSE context
    /\ UNCHANGED <<log, hashes>>

\* authorize(sessionKey)
AuthorizeKey(c, key) ==
    /\ context' = IF key \in DOMAIN sessions
                  THEN [context EXCEPT ![c] =
                          [userId |-> sessions[key], sessionKey |-> key]]
                  ELSE context
    /\ UNCHANGED <<log, hashes, sessions>>

Next ==
    \/ \E k \in Keys, time \in Times : Insert(k, time)
    \/ \E c \in Contexts, u \in Users, p \in Passwords : AuthorizePassword(c, u, p)
    \/ \E c \in Contexts, key \in SessionKeys : AuthorizeKey(c, key)

Spec == Init /\ [][Next]_vars
=============================================================================

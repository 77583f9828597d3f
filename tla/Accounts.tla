------------------------------ MODULE Accounts ------------------------------
(***************************************************************************)
(* Accounts and sessions: src/server/src/domain/auth.rs, and the browser's *)
(* side of it, src/web/src/api/http.ts: a refused call is followed by one  *)
(* refresh of the session and one more attempt.  The tabs of a browser     *)
(* share its cookies.                                                      *)
(*                                                                         *)
(* A session is a tokens row; its refresh token never changes and stands   *)
(* for the row.  Only requests the handlers accept are modelled, but for   *)
(* the calls of a browser whose session has ended.                         *)
(***************************************************************************)
EXTENDS InFlight

CONSTANTS
    Users,
    Browsers,      \* numbers, so that the first sessions can be numbered
    HomeOf,        \* who is signed in on a browser at first
    MaxSessions,   \* bounds on the tokens rows, access tokens, mailed tokens
    MaxAccess,     \*   and passwords there can ever be
    MaxLetters,
    MaxPassword

ASSUME AccountsAssumption ==
    /\ {MaxSessions, MaxAccess, MaxLetters, MaxPassword} \subseteq Nat \ {0}
    /\ Cardinality(Browsers) \in 1..MaxSessions /\ Browsers = 1..Cardinality(Browsers)
    /\ MaxSessions <= MaxAccess
    /\ HomeOf \in [Browsers -> Users]
    /\ None \notin Users \cup Nat

VARIABLES
    users,     \* users rows
    tokens,    \* tokens rows, by id
    letters,   \* email_verify and password_reset rows, by id
    jar,       \* the cookies of a browser
    last,      \* the last ids, access token and password given out
    \* History, read by the properties only.
    late,      \* sessions issued on a password that had been changed meanwhile
    cut,       \* users with a reset that stopped before it revoked the sessions
    crossed,   \* browsers where a login was answered during a refresh
    final      \* users erased while no request for them was in flight

database == <<users, tokens, letters>>
accountHistory == <<late, cut, crossed, final>>
accountVars == <<database, jar, last, accountHistory>>

-----------------------------------------------------------------------------

\* A minor's account waits for a consent that no handler grants.  personal:
\* some personal detail is not NULL.
UserRow == [state : {"free", "minor", "active", "erased"}, password : Nat,
            personal : BOOLEAN, verified : BOOLEAN]

Unusable == 0   \* the hash no password matches

Access == (1..MaxSessions) \X (1..MaxAccess)

\* expired, old: whether the access token and the refresh token have expired;
\* password: the one the login verified (history).
TokenRow == [user : Users, access : Access, expired : BOOLEAN, old : BOOLEAN,
             password : Nat]

LetterRow == [user : Users, kind : {"verify", "reset"}, stale : BOOLEAN]

NoCookies == [access |-> None, refresh |-> None]

AccountLabels == {"auth", "sweep", "denied", "refresh", "sweepOld", "rotate", "renewed",
                  "edit", "erase", "tombstone", "logout", "clear", "issue", "signedIn",
                  "mail", "discard", "setPassword", "setVerified", "spend", "revoke"}

\* user: who is acting, once known; op: what a call is for; access, refresh:
\* the tokens in hand; retried: the session has been refreshed for the call.
NoLocals == [user |-> None, browser |-> None, op |-> None, access |-> None, refresh |-> None,
             retried |-> FALSE, password |-> Unusable, letter |-> None]

FirstPassword == 1

\* Nobody is signed in at first where people register or log in.
FirstSessions == IF Asks("register") \/ Asks("login") THEN {} ELSE Browsers

AccountsInit ==
    /\ users = [u \in Users |->
          IF Asks("register")
            THEN [state |-> "free", password |-> Unusable, personal |-> FALSE, verified |-> FALSE]
            ELSE [state |-> "active", password |-> FirstPassword, personal |-> TRUE,
                  verified |-> FALSE]]
    /\ tokens = [s \in FirstSessions |->
          [user |-> HomeOf[s], access |-> <<s, s>>, expired |-> FALSE, old |-> FALSE,
           password |-> FirstPassword]]
    /\ letters = [l \in {} |-> None]
    /\ jar = [b \in Browsers |->
          IF b \in FirstSessions THEN [access |-> <<b, b>>, refresh |-> b] ELSE NoCookies]
    /\ last = LET n == IF FirstSessions = {} THEN 0 ELSE Cardinality(Browsers)
              IN  [session |-> n, access |-> n, letter |-> 0, password |-> FirstPassword]
    /\ late = {} /\ cut = {} /\ crossed = {} /\ final = {}

Without(table, ids) == [i \in DOMAIN table \ ids |-> table[i]]
With(table, id, row) == [i \in DOMAIN table \cup {id} |-> IF i = id THEN row ELSE table[i]]

RowsOf(table, u) == {i \in DOMAIN table : table[i].user = u}

\* The session an access token opens: at most one, the column is UNIQUE.
SessionsWith(access) == {s \in DOMAIN tokens : tokens[s].access = access}

\* The supply of ids is bounded: a login or a call begins while a session, and
\* an access token for every one in flight, are left.
Using == {"auth", "sweep", "denied", "refresh", "rotate", "erase", "issue"}
Room == last.access + Cardinality(InFlightAt(Using)) < MaxAccess
RoomForSession == last.session + Cardinality(InFlightAt({"issue"})) < MaxSessions

-----------------------------------------------------------------------------
\* The browser's call (http.ts), and the extractor AuthUser that answers it.

Send(r, b, op) ==
    /\ Asks(op)
    /\ Room
    /\ jar[b] # NoCookies
    /\ Start(r, "auth", [NoLocals EXCEPT !.browser = b, !.op = op, !.access = jar[b].access])
    /\ UNCHANGED accountVars

Authenticate(r) ==
    /\ pc[r] = "auth"
    /\ LET found == SessionsWith(loc[r].access)
       IN  \/ found = {} /\ Proceed(r, "denied")
           \/ \E s \in found :
                 \/ tokens[s].expired /\ Proceed(r, "sweep")
                 \/ ~tokens[s].expired /\ Goto(r, loc[r].op, [loc[r] EXCEPT !.user = tokens[s].user])
    /\ UNCHANGED accountVars

\* Mutant: the row found is deleted, whatever has become of its token.
SweepSession(r) ==
    /\ pc[r] = "sweep"
    /\ tokens' = Without(tokens, {loc[r].access[1]})
    /\ Proceed(r, "denied")
    /\ UNCHANGED <<users, letters, jar, last, accountHistory>>

\* The row goes by its access token, and the refresh token goes with it.
Sweep(r) ==
    /\ pc[r] = "sweep"
    /\ tokens' = Without(tokens, SessionsWith(loc[r].access))
    /\ Proceed(r, "denied")
    /\ UNCHANGED <<users, letters, jar, last, accountHistory>>

GiveUp(r) ==
    /\ pc[r] = "denied"
    /\ loc[r].retried \/ jar[loc[r].browser].refresh = None
    /\ Done(r)
    /\ UNCHANGED accountVars

AskRefresh(r) ==
    LET refresh == jar[loc[r].browser].refresh
    IN  /\ pc[r] = "denied"
        /\ ~loc[r].retried /\ refresh # None
        /\ Goto(r, "refresh", [loc[r] EXCEPT !.refresh = refresh, !.retried = TRUE])
        /\ UNCHANGED accountVars

FindSession(r) ==
    LET s == loc[r].refresh
    IN  /\ pc[r] = "refresh"
        /\ \/ s \notin DOMAIN tokens /\ Done(r)
           \/ s \in DOMAIN tokens /\ Proceed(r, IF tokens[s].old THEN "sweepOld" ELSE "rotate")
        /\ UNCHANGED accountVars

SweepOld(r) ==
    /\ pc[r] = "sweepOld"
    /\ tokens' = Without(tokens, {loc[r].refresh})
    /\ Done(r)
    /\ UNCHANGED <<users, letters, jar, last, accountHistory>>

\* The UPDATE changes nothing when the row is gone; the client gets the new
\* access token all the same.
Rotate(r) ==
    LET s == loc[r].refresh
        access == <<s, last.access + 1>>
    IN  /\ pc[r] = "rotate"
        /\ tokens' = IF s \in DOMAIN tokens
                       THEN [tokens EXCEPT ![s].access = access, ![s].expired = FALSE]
                       ELSE tokens
        /\ last' = [last EXCEPT !.access = @ + 1]
        /\ Goto(r, "renewed", [loc[r] EXCEPT !.access = access])
        /\ UNCHANGED <<users, letters, jar, accountHistory>>

\* The answer sets the cookie, and the call is sent again.
Resend(r) ==
    /\ pc[r] = "renewed"
    /\ jar' = [jar EXCEPT ![loc[r].browser].access = loc[r].access]
    /\ Proceed(r, "auth")
    /\ UNCHANGED <<database, last, accountHistory>>

-----------------------------------------------------------------------------
\* What a call may do once it is let in: update_me, account_delete.

EditProfile(r) ==
    /\ pc[r] = "edit"
    /\ users' = [users EXCEPT ![loc[r].user].personal = TRUE]
    /\ Done(r)
    /\ UNCHANGED <<tokens, letters, jar, last, accountHistory>>

CheckPassword(r) ==
    /\ pc[r] = "erase"
    /\ \/ users[loc[r].user].password # Unusable /\ Proceed(r, "tombstone")
       \/ Proceed(r, "denied")   \* not the password that was typed
    /\ UNCHANGED accountVars

Erased(row) == [row EXCEPT !.state = "erased", !.password = Unusable, !.personal = FALSE]

\* The request is one of u's, or is about to invite u to a club.
InFlightFor(r, u) ==
    \/ pc[r] # "idle" /\ loc[r].user = u
    \/ pc[r] = "invite" /\ loc[r].who = u

\* The one transaction of the server; what it deletes of other tables is added
\* where the modules are put together.
Tombstone(r) ==
    LET u == loc[r].user
    IN  /\ pc[r] = "tombstone"
        /\ users' = [users EXCEPT ![u] = Erased(@)]
        /\ tokens' = Without(tokens, RowsOf(tokens, u))
        /\ letters' = Without(letters, RowsOf(letters, u))
        /\ final' = IF \E q \in Requests \ {r} : InFlightFor(q, u) THEN final ELSE final \cup {u}
        /\ Proceed(r, "clear")
        /\ UNCHANGED <<jar, last, late, cut, crossed>>

-----------------------------------------------------------------------------
\* login, issue_session, logout.

BeginLogin(r, b, u) ==
    /\ Asks("login")
    /\ Room /\ RoomForSession
    /\ users[u].state = "active" /\ users[u].password # Unusable
    /\ Start(r, "issue", [NoLocals EXCEPT !.browser = b, !.user = u,
                                          !.password = users[u].password])
    /\ UNCHANGED accountVars

IssueSession(r) ==
    LET l == loc[r]
        s == last.session + 1
        access == <<s, last.access + 1>>
    IN  /\ pc[r] = "issue"
        /\ tokens' = With(tokens, s, [user |-> l.user, access |-> access, expired |-> FALSE,
                                      old |-> FALSE, password |-> l.password])
        /\ last' = [last EXCEPT !.session = s, !.access = @ + 1]
        /\ late' = IF l.password = users[l.user].password THEN late ELSE late \cup {s}
        /\ Goto(r, "signedIn", [l EXCEPT !.access = access, !.refresh = s])
        /\ UNCHANGED <<users, letters, jar, cut, crossed, final>>

\* Mutant: a refresh cookie that is there already stays.
SignInKeepingRefresh(r) ==
    LET b == loc[r].browser
    IN  /\ pc[r] = "signedIn"
        /\ jar' = [jar EXCEPT ![b] = [access |-> loc[r].access,
                                      refresh |-> IF @.refresh = None THEN loc[r].refresh
                                                  ELSE @.refresh]]
        /\ crossed' = IF \E q \in InFlightAt({"refresh", "rotate", "renewed"}) : loc[q].browser = b
                        THEN crossed \cup {b} ELSE crossed
        /\ Done(r)
        /\ UNCHANGED <<database, last, late, cut, final>>

SignIn(r) ==
    LET b == loc[r].browser
    IN  /\ pc[r] = "signedIn"
        /\ jar' = [jar EXCEPT ![b] = [access |-> loc[r].access, refresh |-> loc[r].refresh]]
        /\ crossed' = IF \E q \in InFlightAt({"refresh", "rotate", "renewed"}) : loc[q].browser = b
                        THEN crossed \cup {b} ELSE crossed
        /\ Done(r)
        /\ UNCHANGED <<database, last, late, cut, final>>

BeginLogout(r, b) ==
    /\ Asks("logout")
    /\ jar[b] # NoCookies
    /\ Start(r, "logout", [NoLocals EXCEPT !.browser = b, !.access = jar[b].access])
    /\ UNCHANGED accountVars

\* By the access token of the request: a token replaced meanwhile, or that the
\* browser has let go, ends no session.
Logout(r) ==
    /\ pc[r] = "logout"
    /\ tokens' = Without(tokens, SessionsWith(loc[r].access))
    /\ Proceed(r, "clear")
    /\ UNCHANGED <<users, letters, jar, last, accountHistory>>

ClearCookies(r) ==
    /\ pc[r] = "clear"
    /\ jar' = [jar EXCEPT ![loc[r].browser] = NoCookies]
    /\ Done(r)
    /\ UNCHANGED <<database, last, accountHistory>>

-----------------------------------------------------------------------------
\* register, request_verify, request_reset, verify_email, reset_password.

RoomForLetter == last.letter + Cardinality(InFlightAt({"mail"})) < MaxLetters

\* A taken name or address violates a UNIQUE key, and ends the request.
Register(r, u, state) ==
    /\ Asks("register")
    /\ RoomForLetter
    /\ users[u].state = "free"
    /\ users' = [users EXCEPT ![u] = [state |-> state, password |-> FirstPassword,
                                      personal |-> TRUE, verified |-> FALSE]]
    /\ Start(r, "mail", [NoLocals EXCEPT !.user = u, !.op = "verify"])
    /\ UNCHANGED <<tokens, letters, jar, last, accountHistory>>

\* By e-mail address, which an erased account has not.
RequestLetter(r, u, kind) ==
    /\ Asks(kind)
    /\ RoomForLetter
    /\ users[u].state \in {"minor", "active"}
    /\ Start(r, "mail", [NoLocals EXCEPT !.user = u, !.op = kind])
    /\ UNCHANGED accountVars

Mail(r) ==
    LET l == last.letter + 1
    IN  /\ pc[r] = "mail"
        /\ letters' = With(letters, l, [user |-> loc[r].user, kind |-> loc[r].op, stale |-> FALSE])
        /\ last' = [last EXCEPT !.letter = l]
        /\ Done(r)
        /\ UNCHANGED <<users, tokens, jar, accountHistory>>

\* One for each password still to be set.
RoomForPassword == last.password + Cardinality(InFlightAt({"setPassword"})) < MaxPassword

UseLetter(r, l) ==
    LET row == letters[l]
    IN  /\ l \in DOMAIN letters
        /\ row.kind = "reset" => RoomForPassword
        /\ Start(r, IF row.stale THEN "discard"
                    ELSE IF row.kind = "reset" THEN "setPassword" ELSE "setVerified",
                 [NoLocals EXCEPT !.user = row.user, !.op = row.kind, !.letter = l])
        /\ UNCHANGED accountVars

DiscardLetter(r) ==
    /\ pc[r] = "discard"
    /\ letters' = Without(letters, {loc[r].letter})
    /\ Done(r)
    /\ UNCHANGED <<users, tokens, jar, last, accountHistory>>

SetPassword(r) ==
    /\ pc[r] = "setPassword"
    /\ users' = [users EXCEPT ![loc[r].user].password = last.password + 1]
    /\ last' = [last EXCEPT !.password = @ + 1]
    /\ Proceed(r, "spend")
    /\ UNCHANGED <<tokens, letters, jar, accountHistory>>

SetVerified(r) ==
    /\ pc[r] = "setVerified"
    /\ users' = [users EXCEPT ![loc[r].user].verified = TRUE]
    /\ Proceed(r, "spend")
    /\ UNCHANGED <<tokens, letters, jar, last, accountHistory>>

\* Mutant: whoever is signed in stays so.
SpendLetterOnly(r) ==
    /\ pc[r] = "spend"
    /\ letters' = Without(letters, {loc[r].letter})
    /\ Done(r)
    /\ UNCHANGED <<users, tokens, jar, last, accountHistory>>

SpendLetter(r) ==
    /\ pc[r] = "spend"
    /\ letters' = Without(letters, {loc[r].letter})
    /\ IF loc[r].op = "reset" THEN Proceed(r, "revoke") ELSE Done(r)
    /\ UNCHANGED <<users, tokens, jar, last, accountHistory>>

RevokeSessions(r) ==
    /\ pc[r] = "revoke"
    /\ tokens' = Without(tokens, RowsOf(tokens, loc[r].user))
    /\ Done(r)
    /\ UNCHANGED <<users, letters, jar, last, accountHistory>>

-----------------------------------------------------------------------------
\* Time, and requests that stop.

AccessExpires(s) ==
    /\ Asks("expiry")
    /\ s \in DOMAIN tokens /\ ~tokens[s].expired
    /\ tokens' = [tokens EXCEPT ![s].expired = TRUE]
    /\ UNCHANGED <<flight, users, letters, jar, last, accountHistory>>

RefreshExpires(s) ==
    /\ Asks("expiry")
    /\ s \in DOMAIN tokens /\ ~tokens[s].old
    /\ tokens' = [tokens EXCEPT ![s].old = TRUE]
    /\ UNCHANGED <<flight, users, letters, jar, last, accountHistory>>

LetterExpires(l) ==
    /\ Asks("expiry")
    /\ l \in DOMAIN letters /\ ~letters[l].stale
    /\ letters' = [letters EXCEPT ![l].stale = TRUE]
    /\ UNCHANGED <<flight, users, tokens, jar, last, accountHistory>>

\* A cookie is given the life of its token when it arrives, a little later.
DropAccess(b) ==
    /\ Asks("expiry")
    /\ jar[b].access # None
    /\ \A s \in SessionsWith(jar[b].access) : tokens[s].expired
    /\ jar' = [jar EXCEPT ![b].access = None]
    /\ UNCHANGED <<flight, database, last, accountHistory>>

DropRefresh(b) ==
    /\ Asks("expiry")
    /\ jar[b].refresh # None
    /\ jar[b].refresh \in DOMAIN tokens => tokens[jar[b].refresh].old
    /\ jar' = [jar EXCEPT ![b].refresh = None]
    /\ UNCHANGED <<flight, database, last, accountHistory>>

InReset(r) == pc[r] \in {"spend", "revoke"} /\ loc[r].op = "reset"

StopAccountCall(r) ==
    /\ pc[r] \in AccountLabels
    /\ Drop(r)
    /\ cut' = IF InReset(r) THEN cut \cup {loc[r].user} ELSE cut
    /\ UNCHANGED <<database, jar, last, late, crossed, final>>

BeginAccountCall(r) ==
    \/ \E b \in Browsers :
          \/ \E op \in {"edit", "erase"} : Send(r, b, op)
          \/ \E u \in Users : BeginLogin(r, b, u)
          \/ BeginLogout(r, b)
    \/ \E u \in Users :
          \/ \E state \in {"active", "minor"} : Register(r, u, state)
          \/ \E kind \in {"verify", "reset"} : RequestLetter(r, u, kind)
    \/ \E l \in DOMAIN letters : UseLetter(r, l)

\* Every statement but the erasure.
AccountStep(r) ==
    \/ Authenticate(r) \/ Sweep(r) \/ GiveUp(r)
    \/ AskRefresh(r) \/ FindSession(r) \/ SweepOld(r) \/ Rotate(r) \/ Resend(r)
    \/ EditProfile(r) \/ CheckPassword(r)
    \/ IssueSession(r) \/ SignIn(r) \/ Logout(r) \/ ClearCookies(r)
    \/ Mail(r) \/ DiscardLetter(r)
    \/ SetPassword(r) \/ SetVerified(r) \/ SpendLetter(r) \/ RevokeSessions(r)

TimePasses ==
    \/ \E s \in DOMAIN tokens : AccessExpires(s) \/ RefreshExpires(s)
    \/ \E l \in DOMAIN letters : LetterExpires(l)
    \/ \E b \in Browsers : DropAccess(b) \/ DropRefresh(b)

-----------------------------------------------------------------------------
AccountsTypeOK ==
    /\ users \in [Users -> UserRow]
    /\ \A s \in DOMAIN tokens : s \in 1..last.session /\ tokens[s] \in TokenRow
    /\ \A l \in DOMAIN letters : l \in 1..last.letter /\ letters[l] \in LetterRow
    /\ jar \in [Browsers -> [access : Access \cup {None}, refresh : 1..MaxSessions \cup {None}]]
    /\ last \in [session : 0..MaxSessions, access : 0..MaxAccess,
                letter : 0..MaxLetters, password : 1..MaxPassword]
    /\ late \subseteq 1..MaxSessions
    /\ cut \cup final \subseteq Users /\ crossed \subseteq Browsers

\* The reasons a session may end for.
Spent(s) ==
    \/ tokens[s].old
    \/ \E r \in Requests :
          \/ pc[r] = "sweep" /\ tokens[s].expired /\ loc[r].access = tokens[s].access
          \/ pc[r] = "logout" /\ loc[r].access = tokens[s].access
          \/ pc[r] \in {"revoke", "tombstone"} /\ loc[r].user = tokens[s].user

\* A session ends only when its own access token is handed in at a logout or
\* presented after it expired, when its refresh token has expired, or when its
\* user resets the password or is erased.  In particular a session refreshed
\* between the look-up of its expired token and the deletion survives
\* (auth.rs, AuthUser; logout; refresh).
OnlyTheSpentEnd == [][\A s \in DOMAIN tokens \ DOMAIN tokens' : Spent(s)]_tokens

\* The two cookies of a browser are of one session, whatever the tabs do at the
\* same time, unless a login was answered during a refresh (login, refresh).
JarIsOneSession ==
    \A b \in Browsers \ crossed :
        jar[b].access # None /\ jar[b].refresh # None => jar[b].access[1] = jar[b].refresh

\* A session opened with a password ends with it: no session is of another
\* password than the user's present one, unless the login that opened it or the
\* reset is still under way, or the reset stopped (reset_password, login,
\* account_delete).
NoSessionOfOldPassword ==
    \A s \in DOMAIN tokens :
        LET row == tokens[s]
        IN  \/ row.password = users[row.user].password
            \/ s \in late
            \/ row.user \in cut
            \/ \E r \in Requests : InReset(r) /\ loc[r].user = row.user
=============================================================================

------------------------------ MODULE Sessions ------------------------------
(***************************************************************************)
(* Signing in: packages/auth/src/session.ts for a firm's staff and clients *)
(* and apps/web/lib/control/session.ts for the platform's operators.       *)
(*                                                                         *)
(* An attempt reads the account, spends its time on the password, and then *)
(* writes: an UPDATE of the account, and a session.  The UPDATE evaluates  *)
(* its expressions on the row as it is then and keeps it locked to the end *)
(* of the transaction, so what follows it is one step with it.  Other      *)
(* attempts on the account may come in between the read and the writes.    *)
(* Addresses, devices and audit rows are left out; the demo sign-in, which *)
(* is refused outside development, is left out too.                        *)
(***************************************************************************)
EXTENDS Naturals, FiniteSets

CONSTANTS
    Users,          \* accounts
    Operators,      \* those of them that belong to operators of the platform
    Enrolled,       \* accounts with a second factor
    Required,       \* accounts whose firm requires one
    Attempts,       \* sign-ins the server handles at once
    SessionIds,
    MaxFailures,    \* MAX_FAILED_LOGINS
    Nil

VARIABLES
    user,           \* per account: failed_login_count, whether it is locked, whether active
    session,        \* per id, Nil or the row
    attempt,        \* per attempt, Nil or what it has read
    guesses         \* history: wrong guesses looked at since the account was last
                    \* signed in to or last came out of a lock

svars == <<user, session, attempt, guesses>>

Account == [failures: 0 .. MaxFailures, locked: BOOLEAN, active: BOOLEAN]

Session == [user: Users, mfa: BOOLEAN, revoked: BOOLEAN,
            idle: {"fresh", "aging", "over"}, absolute: {"running", "over"}]

TypeOK ==
    /\ user \in [Users -> Account]
    /\ \A s \in SessionIds : session[s] \in Session \cup {Nil}
    /\ \A p \in Attempts : attempt[p] \in [user: Users, seen: Account] \cup {Nil}
    /\ guesses \in [Users -> Nat]

Init ==
    /\ user = [u \in Users |-> [failures |-> 0, locked |-> FALSE, active |-> TRUE]]
    /\ session = [s \in SessionIds |-> Nil]
    /\ attempt = [p \in Attempts |-> Nil]
    /\ guesses = [u \in Users |-> 0]

-----------------------------------------------------------------------------
\* login, authenticateOperator: the account as it is; a locked one is refused.
Read(p, u) ==
    /\ attempt[p] = Nil
    /\ ~user[u].locked
    /\ attempt' = [attempt EXCEPT ![p] = [user |-> u, seen |-> user[u]]]
    /\ UNCHANGED <<user, session, guesses>>

\* Failures are counted up to the limit; more make no difference to the code.
Capped(n) == IF n > MaxFailures THEN MaxFailures ELSE n

\* Seeded fault: the count that was read is incremented and written back.
Failed_ReadThenWrite(row, seen) ==
    [row EXCEPT !.failures = Capped(seen.failures + 1), !.locked = @ \/ seen.failures + 1 >= MaxFailures]

\* Seeded fault: nobody is ever locked out.
Failed_Unlocked(row, seen) == [row EXCEPT !.failures = Capped(@ + 1)]

\* registerFailure: counted in the database, and locked by what was counted.
Failed(row, seen) ==
    [row EXCEPT !.failures = Capped(@ + 1), !.locked = @ \/ row.failures + 1 >= MaxFailures]

\* A wrong password, or a wrong code where there is a second factor; for an
\* operator also a code that is missing, or an account that is not active.
RegisterFailure(p) ==
    LET u == attempt[p].user
    IN  /\ attempt[p] # Nil
        /\ user' = [user EXCEPT ![u] = Failed(@, attempt[p].seen)]
        /\ guesses' = [guesses EXCEPT ![u] = @ + 1]
        /\ attempt' = [attempt EXCEPT ![p] = Nil]
        /\ UNCHANGED session

\* The right password to an account that is not active, or to an operator's
\* without a second factor: refused, and not counted.
Refuse(p) ==
    LET u == attempt[p].user
    IN  /\ attempt[p] # Nil
        /\ IF u \in Operators THEN u \notin Enrolled ELSE ~attempt[p].seen.active
        /\ attempt' = [attempt EXCEPT ![p] = Nil]
        /\ UNCHANGED <<user, session, guesses>>

\* The request dies, and what it has written goes with it.
Abandon(p) ==
    /\ attempt[p] # Nil
    /\ attempt' = [attempt EXCEPT ![p] = Nil]
    /\ UNCHANGED <<user, session, guesses>>

\* createSession
Opened(s, u, mfa) ==
    /\ session[s] = Nil
    /\ session' = [session EXCEPT ![s] = [user |-> u, mfa |-> mfa, revoked |-> FALSE,
                                          idle |-> "fresh", absolute |-> "running"]]

\* login: the password is right and the second factor outstanding, or not set up
\* although the firm requires it.  The failures stay counted.
OpenHalf(p, s) ==
    LET u == attempt[p].user
    IN  /\ attempt[p] # Nil
        /\ u \notin Operators /\ attempt[p].seen.active
        /\ u \in Enrolled \cup Required
        /\ Opened(s, u, FALSE)
        /\ attempt' = [attempt EXCEPT ![p] = Nil]
        /\ UNCHANGED <<user, guesses>>

\* login, authenticateOperator: everything that is asked for is right.
SignIn(p, s) ==
    LET u == attempt[p].user
    IN  /\ attempt[p] # Nil
        /\ attempt[p].seen.active
        /\ IF u \in Operators THEN u \in Enrolled ELSE u \in Enrolled \/ u \notin Required
        /\ Opened(s, u, u \in Enrolled)
        /\ user' = [user EXCEPT ![u].failures = 0, ![u].locked = FALSE]
        /\ guesses' = [guesses EXCEPT ![u] = 0]
        /\ attempt' = [attempt EXCEPT ![p] = Nil]

\* locked_until passes.  The count stays where it is.
LockExpires(u) ==
    /\ user[u].locked
    /\ user' = [user EXCEPT ![u].locked = FALSE]
    /\ guesses' = [guesses EXCEPT ![u] = 0]
    /\ UNCHANGED <<session, attempt>>

Suspend(u) ==
    /\ user[u].active
    /\ user' = [user EXCEPT ![u].active = FALSE]
    /\ UNCHANGED <<session, attempt, guesses>>

-----------------------------------------------------------------------------
\* Seeded fault: the idle window slides whether or not it is over.
Live_Idle(s) == session[s] # Nil /\ ~session[s].revoked /\ session[s].absolute = "running"

\* The WHERE of resolveSession and currentOperator.
Live(s) ==
    /\ session[s] # Nil
    /\ ~session[s].revoked /\ session[s].idle # "over" /\ session[s].absolute = "running"

\* resolveSession, currentOperator (which also wants the operator active).
Resolve(s) ==
    /\ Live(s)
    /\ session[s].user \in Operators => user[session[s].user].active
    /\ session' = [session EXCEPT ![s].idle = "fresh"]
    /\ UNCHANGED <<user, attempt, guesses>>

\* completeMfa, with the right code.  A wrong one is not counted, and slides the
\* idle window like Resolve.
CompleteMfa(s) ==
    /\ Live(s) /\ session[s].user \in Enrolled \ Operators
    /\ session' = [session EXCEPT ![s].idle = "fresh", ![s].mfa = TRUE]
    /\ UNCHANGED <<user, attempt, guesses>>

\* revokeSession, signOutOperator.
Revoke(s) ==
    /\ session[s] # Nil /\ ~session[s].revoked
    /\ session' = [session EXCEPT ![s].revoked = TRUE]
    /\ UNCHANGED <<user, attempt, guesses>>

\* revokeOtherSessions
RevokeOthers(u, kept) ==
    /\ session' = [s \in SessionIds |->
          IF session[s] # Nil /\ session[s].user = u /\ s # kept
            THEN [session[s] EXCEPT !.revoked = TRUE] ELSE session[s]]
    /\ UNCHANGED <<user, attempt, guesses>>

\* The two clocks.
Time(s) ==
    /\ session[s] # Nil
    /\ \/ /\ session[s].idle # "over"
          /\ session' = [session EXCEPT ![s].idle = IF @ = "fresh" THEN "aging" ELSE "over"]
       \/ session' = [session EXCEPT ![s].absolute = "over"]
    /\ UNCHANGED <<user, attempt, guesses>>

Next ==
    \/ \E p \in Attempts :
          \/ \E u \in Users : Read(p, u)
          \/ RegisterFailure(p) \/ Refuse(p) \/ Abandon(p)
          \/ \E s \in SessionIds : OpenHalf(p, s) \/ SignIn(p, s)
    \/ \E u \in Users : LockExpires(u) \/ Suspend(u)
    \/ \E s \in SessionIds : Resolve(s) \/ CompleteMfa(s) \/ Revoke(s) \/ Time(s)
    \/ \E u \in Users, kept \in SessionIds \cup {Nil} : RevokeOthers(u, kept)

Spec == Init /\ [][Next]_svars

-----------------------------------------------------------------------------
(* The lock holds against attempts made at once: between two locks of an   *)
(* account no more wrong guesses are looked at than the limit allows and   *)
(* the other attempts under way add, and after the first lock, while       *)
(* nobody signs in, only those; however attempts overtake each other       *)
(* (registerFailure: concurrent attempts must not write the same count).   *)
LockoutBounded ==
    \A u \in Users : guesses[u] <= MaxFailures + Cardinality(Attempts) - 1

(* A session that is revoked or past one of its clocks is never honoured   *)
(* again, by sliding the idle window, a second factor that comes late, or  *)
(* a revocation of the others.                                             *)
Dead(row) == row.revoked \/ row.idle = "over" \/ row.absolute = "over"
NotRevived ==
    \A s \in SessionIds :
        session[s] # Nil /\ Dead(session[s]) => session'[s] # Nil /\ Dead(session'[s])
DeadStaysDead == [][NotRevived]_svars

=============================================================================

---------------------------- MODULE AuthSessions ----------------------------
(***************************************************************************)
(* The tables users and sessions and the AuthService methods of            *)
(* server/src/auth.cpp that read and write them.  Every method holds mtx_  *)
(* for its whole body, so each is one step.  RoomManager writes the same   *)
(* file over a connection of its own, without this mutex: an INSERT that   *)
(* finds the file locked is refused, a DELETE that does is not noticed.    *)
(*                                                                         *)
(* Tokens are drawn at random and never drawn twice: the n-th login gets   *)
(* token n.  The hour is system_clock, which may be set back.              *)
(***************************************************************************)
EXTENDS Integers, Sequences

CONSTANTS Users,       \* those who have an account or will register one
          Seeded,      \* those whom the database starts with
          Ttl,         \* the lifetime LOGIN asks for, 3600 in main.cpp
          MaxSessions, \* bound: logins in one behaviour
          MaxTime      \* bound: last second of the clock

ASSUME SessionsAssumption ==
  /\ Seeded \subseteq Users
  /\ Ttl \in Nat /\ MaxSessions \in Nat /\ MaxTime \in Nat

VARIABLES
  clock,     \* now_seconds()
  accounts,  \* table users
  issued,    \* what each login was given: its user and its last second
  sessions,  \* table sessions: the tokens that have a row
  ended      \* history: the tokens logged out or refused as expired, but for
             \* those whose DELETE found the file locked

sessionVars == <<clock, accounts, issued, sessions, ended>>

Tokens == DOMAIN issued
Sessions == [user : Users, expires : Nat]

SessionsTypeOK ==
  /\ clock \in 0 .. MaxTime
  /\ accounts \subseteq Users
  /\ issued \in Seq(Sessions) /\ Len(issued) <= MaxSessions
  /\ \A t \in Tokens : issued[t].user \in accounts
  /\ sessions \subseteq Tokens /\ ended \subseteq Tokens

SessionsInit ==
  /\ clock = 0 /\ accounts = Seeded /\ issued = << >>
  /\ sessions = {} /\ ended = {}

\* UNIQUE refuses a name that is taken.
Register(u) ==
  /\ u \notin accounts
  /\ accounts' = accounts \cup {u}
  /\ UNCHANGED <<clock, issued, sessions, ended>>

\* The password is right; its token is the new length of issued.
Login(u) ==
  /\ u \in accounts
  /\ Len(issued) < MaxSessions
  /\ issued' = Append(issued, [user |-> u, expires |-> clock + Ttl])
  /\ sessions' = sessions \cup {Len(issued) + 1}
  /\ UNCHANGED <<clock, accounts, ended>>

\* DELETE FROM sessions WHERE token = ?, its result not looked at: a locked
\* file leaves the row, and nobody is told.
Delete(t) ==
  \/ sessions' = sessions \ {t} /\ ended' = ended \cup {t}
  \/ UNCHANGED <<sessions, ended>>

\* It succeeds whether or not the row is there.
Logout(t) ==
  /\ Delete(t)
  /\ UNCHANGED <<clock, accounts, issued>>

Expired(t) == clock > issued[t].expires

\* validate lets the request through.
Admits(t) == t \in sessions /\ ~ Expired(t)

\* Mutant: an expired session is refused and its row is kept.
RefuseExpiredOnly(t) ==
  /\ t \in sessions /\ Expired(t)
  /\ ended' = ended \cup {t}
  /\ UNCHANGED <<clock, accounts, issued, sessions>>

\* It finds the session expired: refused, and the row cleaned up.
RefuseExpired(t) ==
  /\ t \in sessions /\ Expired(t)
  /\ Delete(t)
  /\ UNCHANGED <<clock, accounts, issued>>

\* A second passes, or the clock is set back by one.
ClockMoves ==
  /\ clock' \in {clock + 1, clock - 1} \cap 0 .. MaxTime
  /\ UNCHANGED <<accounts, issued, sessions, ended>>

-----------------------------------------------------------------------------
\* A session that was logged out, or refused as expired, lets no request
\* through any more, also when the clock is set back, unless its DELETE found
\* the file locked (logout, validate).
EndedForGood == \A t \in ended : ~ Admits(t)
=============================================================================

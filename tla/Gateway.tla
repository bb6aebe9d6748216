------------------------------ MODULE Gateway ------------------------------
(***************************************************************************)
(* The way in: the layered rate limits of create_router (lib.rs), the      *)
(* exchange of a Matrix OpenID token for a session (routes/auth.rs,        *)
(* auth.rs) and the middleware that turns a session into a principal       *)
(* (middleware/auth.rs).  The server keeps nothing about a session: what a *)
(* token says was true when it was minted, and it is believed until it     *)
(* expires or the secret changes with a restart.                           *)
(*                                                                         *)
(* Time is counted in ticks.  A bucket holds ticks, not tokens: it gains   *)
(* one per tick and a request costs its period.                            *)
(***************************************************************************)
EXTENDS Naturals, FiniteSets

CONSTANTS
  Addresses,    \* client addresses as the proxy reports them
  Users,        \* Matrix ids of the configured homeserver
  Foreign,      \* a Matrix id of another one
  Classes,      \* routers with a limiter of their own per user
  Logins,       \* slots for logins that run concurrently
  Period,       \* Period[b]: ticks until a bucket of kind b regains a token
  Burst,        \* its burst_size
  AdminLists,   \* values of MATRIX_ADMIN_MXIDS
  Ttl,          \* SESSION_TTL_SECS
  Leeway,       \* of jsonwebtoken's Validation::default, 60 s
  Timeout,      \* of the HTTP client
  MaxTime,      \* bound on the clock
  MaxSecret,    \* bound on the changes of SESSION_SECRET
  MaxSessions,  \* bound on the tokens that clients keep
  NoLogin,      \* the slot is idle
  Nobody        \* no request was let in

Kinds == Classes \cup {"global", "ip"}

\* GlobalKeyExtractor, SmartIpKeyExtractor, MxidKeyExtractor
Keys == {<<"global">>} \cup ({"ip"} \X Addresses) \cup (Classes \X Users)

Full(key) == Burst[key[1]] * Period[key[1]]

Times == 0..MaxTime

Pending ==
  [from : Addresses, since : Times, sub : Users \cup {Foreign, Nobody},
   vouched : Times]

Claims ==
  [sub : Users, admin : BOOLEAN, exp : Ttl..(MaxTime + Ttl), key : 0..MaxSecret,
   vouched : Times]

Principals == [sub : Users, admin : BOOLEAN, vouched : Times]

ASSUME GatewayAssumption ==
  /\ Classes \cap {"global", "ip"} = {}
  /\ Period \in [Kinds -> Nat \ {0}]
  /\ Burst \in [Kinds -> Nat \ {0}]
  /\ AdminLists \subseteq SUBSET Users
  /\ Ttl \in Nat /\ Leeway \in Nat /\ Timeout \in Nat
  /\ MaxTime \in Nat /\ MaxSecret \in Nat
  /\ Foreign \notin Users
  /\ Nobody \notin Users \cup {Foreign} \cup Times /\ Nobody \notin Principals
  /\ NoLogin \notin Pending

VARIABLES
  now,          \* the clock
  credit,       \* what each bucket holds
  admins,       \* Config::admin_mxids of the running server
  secret,       \* Config::session_secret, counted
  login,        \* logins that wait for the homeserver
  sessions,     \* tokens that clients hold
  principal,    \* the AuthUser that a handler was called with at this time
  listed,       \* history: when each user was last on the list of admins
  rotated       \* history: when the secret was last changed

history == <<listed, rotated>>
vars == <<now, credit, admins, secret, login, sessions, principal, history>>

TypeOK ==
  /\ now \in Times
  /\ credit \in [Keys -> Nat]
  /\ \A k \in Keys : credit[k] <= Full(k)
  /\ admins \in AdminLists
  /\ secret \in 0..MaxSecret
  /\ login \in [Logins -> Pending \cup {NoLogin}]
  /\ sessions \subseteq Claims
  /\ principal \in Principals \cup {Nobody}
  /\ listed \in [Users -> Times \cup {Nobody}]
  /\ rotated \in Times

Init ==
  /\ now = 0
  /\ credit = [k \in Keys |-> Full(k)]
  /\ admins \in AdminLists
  /\ secret = 0
  /\ login = [r \in Logins |-> NoLogin]
  /\ sessions = {}
  /\ principal = Nobody
  /\ listed = [u \in Users |-> IF u \in admins THEN 0 ELSE Nobody]
  /\ rotated = 0

-----------------------------------------------------------------------------
(* The limiters                                                            *)

Passes(key) == credit[key] >= Period[key[1]]

\* What is left of credit c when a request has passed.
Spend(c, key) == [c EXCEPT ![key] = @ - Period[key[1]]]

-----------------------------------------------------------------------------
(* POST /auth/matrix                                                       *)

\* Mutant: the global limit is forgotten.
LoginUnlimited(r, a) ==
  /\ login[r] = NoLogin
  /\ Passes(<<"ip", a>>)
  /\ credit' = Spend(credit, <<"ip", a>>)
  /\ login' = [login EXCEPT ![r] =
       [from |-> a, since |-> now, sub |-> Nobody, vouched |-> now]]
  /\ UNCHANGED <<now, admins, secret, sessions, principal, history>>

\* The outer layer is the global one: it is spent before the address is
\* looked at.  A token issued by another server is refused without a call.
Login(r, a) ==
  /\ login[r] = NoLogin
  /\ Passes(<<"global">>)
  /\ LET left == Spend(credit, <<"global">>) IN
     IF Passes(<<"ip", a>>)
       THEN /\ credit' = Spend(left, <<"ip", a>>)
            /\ \/ UNCHANGED login
               \/ login' = [login EXCEPT ![r] =
                    [from |-> a, since |-> now, sub |-> Nobody,
                     vouched |-> now]]
       ELSE credit' = left /\ UNCHANGED login
  /\ UNCHANGED <<now, admins, secret, sessions, principal, history>>

Waits(r) == login[r] # NoLogin /\ login[r].sub = Nobody

\* The homeserver says whose access token it is.
Vouch(r) ==
  /\ Waits(r)
  /\ \E u \in Users \cup {Foreign} :
       login' = [login EXCEPT ![r].sub = u, ![r].vouched = now]
  /\ UNCHANGED <<now, credit, admins, secret, sessions, principal, history>>

\* Mutant: once an admin, always an admin.
MintedForever(r) ==
  [sub |-> login[r].sub, admin |-> listed[login[r].sub] # Nobody,
   exp |-> now + Ttl, key |-> secret, vouched |-> login[r].vouched]

\* mint_session
Minted(r) ==
  [sub |-> login[r].sub, admin |-> login[r].sub \in admins, exp |-> now + Ttl,
   key |-> secret, vouched |-> login[r].vouched]

\* Mutant: nobody looks where the user is from.
VerifiedAnywhere(r) == login[r] # NoLogin /\ login[r].sub # Nobody

\* The answer arrives, about a user of the configured homeserver.
Verified(r) == login[r] # NoLogin /\ login[r].sub \in Users

Mint(r) ==
  /\ Verified(r)
  /\ \E kept \in SUBSET sessions :
       /\ Cardinality(kept) < MaxSessions
       /\ sessions' = kept \cup {Minted(r)}
  /\ login' = [login EXCEPT ![r] = NoLogin]
  /\ UNCHANGED <<now, credit, admins, secret, principal, history>>

\* Another status, another server's user, an answer that does not parse, or
\* none in time.
FailLogin(r) ==
  /\ login[r] # NoLogin
  /\ login' = [login EXCEPT ![r] = NoLogin]
  /\ UNCHANGED <<now, credit, admins, secret, sessions, principal, history>>

-----------------------------------------------------------------------------
(* Everything else                                                         *)

\* Mutant: the signature is not checked.
verify_sessionUnsigned(t) == t.exp + Leeway >= now

\* Mutant: the expiry is not checked.
verify_sessionForever(t) == t.key = secret

\* verify_session: the signature and the expiry.
verify_session(t) == t.key = secret /\ t.exp + Leeway >= now

\* require_session runs before the limiter of the router, and that one before
\* the handler.
Request(t, class) ==
  /\ verify_session(t)
  /\ Passes(<<class, t.sub>>)
  /\ credit' = Spend(credit, <<class, t.sub>>)
  /\ principal' = [sub |-> t.sub, admin |-> t.admin, vouched |-> t.vouched]
  /\ UNCHANGED <<now, admins, secret, login, sessions, history>>

\* The HTTP client gives up in time: no login is older than its timeout.
Tick ==
  /\ now < MaxTime
  /\ \A r \in Logins : login[r] # NoLogin => now - login[r].since < Timeout
  /\ now' = now + 1
  /\ credit' = [k \in Keys |-> IF credit[k] < Full(k) THEN credit[k] + 1
                                                      ELSE credit[k]]
  /\ principal' = Nobody
  /\ listed' = [u \in Users |-> IF u \in admins THEN now + 1 ELSE listed[u]]
  /\ UNCHANGED <<admins, secret, login, sessions, rotated>>

\* The server is started again, with another list of admins or another secret
\* or neither.  Buckets and logins were in its memory.
Restart(list, key) ==
  /\ credit' = [k \in Keys |-> Full(k)]
  /\ admins' = list
  /\ secret' = key
  /\ login' = [r \in Logins |-> NoLogin]
  /\ principal' = Nobody
  /\ listed' = [u \in Users |-> IF u \in list THEN now ELSE listed[u]]
  /\ rotated' = IF key = secret THEN rotated ELSE now
  /\ UNCHANGED <<now, sessions>>

Next ==
  \/ \E r \in Logins :
       \/ \E a \in Addresses : Login(r, a)
       \/ Vouch(r)
       \/ Mint(r)
       \/ FailLogin(r)
  \/ \E t \in sessions, c \in Classes : Request(t, c)
  \/ Tick
  \/ \E list \in AdminLists, key \in {secret, secret + 1} \cap 0..MaxSecret :
       Restart(list, key)

Spec == Init /\ [][Next]_vars

-----------------------------------------------------------------------------
\* Whoever is let in was vouched for by the homeserver not longer ago than a
\* session lasts, with the leeway of the expiry and the time that the answer
\* may have been on its way (auth.rs:6-8, auth.rs:114-126).
SessionsAreRecent ==
  principal # Nobody => now - principal.vouched <= Timeout + Ttl + Leeway

\* Who is removed from MATRIX_ADMIN_MXIDS stays an admin until the session
\* that says so expires, and no longer (auth.rs:98-104).
AdminsWereListed ==
  principal # Nobody /\ principal.admin =>
    /\ listed[principal.sub] # Nobody
    /\ now - listed[principal.sub] <= Ttl + Leeway

\* A change of the secret ends every session, those too whose login was under
\* way: whoever is let in has been vouched for since.
RotationRevokes ==
  principal # Nobody => principal.vouched >= rotated

InFlight(A) == {r \in Logins : login[r] # NoLogin /\ login[r].from \in A}

Bound(kind) == Burst[kind] + Timeout \div Period[kind]

\* The calls that wait for the homeserver at a time are at most a burst and
\* what the bucket regains while a call may last, in total and for an address
\* ("to bound total backend load", lib.rs:92), however often the server was
\* restarted meanwhile.
LoadIsBounded ==
  /\ Cardinality(InFlight(Addresses)) <= Bound("global")
  /\ \A a \in Addresses : Cardinality(InFlight({a})) <= Bound("ip")

\* "a single attacker leaves headroom for legitimate users" (lib.rs:95-96,
\* README.md:140-141): while only one address asks for logins (the buckets of
\* the others are full), a login of another one passes the global limit.
OneAddressLeavesHeadroom ==
  \A a \in Addresses :
    (\A b \in Addresses \ {a} : credit[<<"ip", b>>] = Full(<<"ip", b>>)) =>
      Passes(<<"global">>)
=============================================================================

---------------------------- MODULE GatewayProofs ----------------------------
(***************************************************************************)
(* What the gateway believes is never older than it says, and the calls it *)
(* makes to the homeserver stay within what the buckets allow, for any     *)
(* limits, lifetimes and numbers of clients.                               *)
(*                                                                         *)
(* The argument for the sessions: a login is answered within Timeout of    *)
(* its start and does not survive a restart, so a token says when its      *)
(* subject was vouched for up to Timeout, and an older key says that the   *)
(* secret has changed since.  The argument for the load: a bucket pays for *)
(* every login, so of the logins that began since a tick s, what they cost *)
(* and what the bucket still holds was there at s or came in since.        *)
(***************************************************************************)
EXTENDS Gateway, FiniteSetTheorems, TLAPS

\* A login lives through no restart and no longer than Timeout.
LoginInv ==
  \A r \in Logins : login[r] # NoLogin =>
    /\ rotated <= login[r].since
    /\ login[r].since <= login[r].vouched
    /\ login[r].vouched <= now
    /\ now <= login[r].since + Timeout

\* The history is up to date.
ListInv ==
  /\ rotated <= now
  /\ \A u \in admins : listed[u] = now
  /\ \A u \in Users : listed[u] # Nobody => listed[u] <= now

\* A token is of no secret to come, and what it says it was right to say.
TokenInv ==
  \A t \in sessions :
    /\ t.key <= secret
    /\ t.key = secret => t.vouched >= rotated
    /\ t.exp <= t.vouched + Timeout + Ttl
    /\ t.admin => listed[t.sub] # Nobody /\ t.exp <= listed[t.sub] + Ttl

\* The logins of the addresses in A that began at s or later.
Since(A, s) == {r \in InFlight(A) : login[r].since >= s}

\* The bucket paid for the logins of A: what they cost and what it holds is
\* no more than it held at s and has regained since.
Pays(key, A) ==
  \A s \in 0..now :
    Cardinality(Since(A, s)) * Period[key[1]] + credit[key]
      <= Full(key) + (now - s)

LoadInv ==
  /\ IsFiniteSet(InFlight(Addresses))
  /\ Pays(<<"global">>, Addresses)
  /\ \A a \in Addresses : Pays(<<"ip", a>>, {a})

IInv ==
  /\ TypeOK
  /\ LoginInv /\ ListInv /\ TokenInv /\ LoadInv
  /\ SessionsAreRecent /\ AdminsWereListed /\ RotationRevokes

-----------------------------------------------------------------------------
\* The keys that a login is charged to, their periods and their bursts.
LEMMA KeyFacts ==
  /\ <<"global">> \in Keys
  /\ \A a \in Addresses : <<"ip", a>> \in Keys /\ <<"ip", a>> # <<"global">>
  /\ \A c \in Classes, u \in Users :
       /\ <<c, u>> \in Keys /\ <<c, u>> # <<"global">>
       /\ \A a \in Addresses : <<c, u>> # <<"ip", a>>
  /\ \A key \in Keys : Period[key[1]] \in Nat \ {0} /\ Full(key) \in Nat
<1>1. <<"global">>[1] = "global" /\ \A x : <<"ip", x>>[1] = "ip"
  OBVIOUS
<1>2. \A c, u : <<c, u>>[1] = c
  OBVIOUS
<1>3. \A key \in Keys : key[1] \in Kinds
  BY DEF Keys, Kinds
<1>4. \A key \in Keys : Period[key[1]] \in Nat \ {0} /\ Full(key) \in Nat
  BY <1>3, GatewayAssumption DEF Full
<1>5. \A a \in Addresses : <<"ip", a>> \in Keys /\ <<"ip", a>> # <<"global">>
  BY <1>1 DEF Keys
<1>6. \A c \in Classes, u \in Users :
        /\ <<c, u>> \in Keys /\ <<c, u>> # <<"global">>
        /\ \A a \in Addresses : <<c, u>> # <<"ip", a>>
  BY <1>1, <1>2, GatewayAssumption DEF Keys
<1> QED
  BY <1>4, <1>5, <1>6 DEF Keys

\* The server is first started with full buckets and without sessions.
THEOREM InitIInv == Init => IInv
<1> SUFFICES ASSUME Init PROVE IInv
  OBVIOUS
<1> USE DEF Init
<1>1. TypeOK
  <2>1. credit \in [Keys -> Nat] /\ \A k \in Keys : credit[k] <= Full(k)
    BY KeyFacts
  <2> QED
    BY <2>1, GatewayAssumption DEF TypeOK, Times
<1>2. LoginInv /\ TokenInv
  BY DEF LoginInv, TokenInv
<1>3. ListInv
  BY <1>1, GatewayAssumption DEF ListInv, TypeOK
<1>4. LoadInv
  <2>1. \A A : InFlight(A) = {}
    BY DEF InFlight
  <2>2. \A A, s : Cardinality(Since(A, s)) = 0
    BY <2>1, FS_EmptySet DEF Since
  <2>3. ASSUME NEW key \in Keys, NEW A PROVE Pays(key, A)
    BY <2>2, KeyFacts DEF Pays
  <2> QED
    BY <2>1, <2>3, KeyFacts, FS_EmptySet DEF LoadInv
<1>5. SessionsAreRecent /\ AdminsWereListed /\ RotationRevokes
  BY DEF SessionsAreRecent, AdminsWereListed, RotationRevokes
<1> QED
  BY <1>1, <1>2, <1>3, <1>4, <1>5 DEF IInv

-----------------------------------------------------------------------------
\* A bucket still pays when logins end and nothing is put back into it.
LEMMA PaysLess ==
  ASSUME TypeOK, NEW key \in Keys, NEW A, Pays(key, A),
         IsFiniteSet(InFlight(A)),
         now' = now, credit'[key] \in Nat, credit'[key] <= credit[key],
         InFlight(A)' \subseteq InFlight(A),
         \A r \in InFlight(A)' : login'[r].since = login[r].since
  PROVE  Pays(key, A)'
<1> SUFFICES ASSUME NEW s \in 0..now
             PROVE  Cardinality(Since(A, s)') * Period[key[1]] + credit'[key]
                      <= Full(key) + (now - s)
  BY DEF Pays
<1>1. Since(A, s)' \subseteq Since(A, s)
  BY DEF Since
<1>2. IsFiniteSet(Since(A, s))
  BY FS_Subset DEF Since
<1>3. /\ Cardinality(Since(A, s)') \in Nat /\ Cardinality(Since(A, s)) \in Nat
      /\ Cardinality(Since(A, s)') <= Cardinality(Since(A, s))
  BY <1>1, <1>2, FS_Subset, FS_CardinalityType
<1>4. /\ Period[key[1]] \in Nat /\ Full(key) \in Nat /\ credit[key] \in Nat
      /\ now \in Nat
  BY KeyFacts DEF TypeOK, Times
<1>5. Cardinality(Since(A, s)') * Period[key[1]]
        <= Cardinality(Since(A, s)) * Period[key[1]]
  BY <1>3, <1>4
<1>6. Cardinality(Since(A, s)) * Period[key[1]] + credit[key]
        <= Full(key) + (now - s)
  BY DEF Pays
<1> QED
  BY <1>3, <1>4, <1>5, <1>6

\* It pays for a login that begins by what the login costs.
LEMMA PaysMore ==
  ASSUME TypeOK, NEW key \in Keys, NEW A, Pays(key, A),
         IsFiniteSet(InFlight(A)),
         now' = now, credit'[key] \in Nat,
         credit'[key] = credit[key] - Period[key[1]],
         NEW r \in Logins, login[r] = NoLogin,
         \A q \in Logins \ {r} : login'[q] = login[q]
  PROVE  Pays(key, A)'
<1> SUFFICES ASSUME NEW s \in 0..now
             PROVE  Cardinality(Since(A, s)') * Period[key[1]] + credit'[key]
                      <= Full(key) + (now - s)
  BY DEF Pays
<1>1. Since(A, s)' \subseteq Since(A, s) \cup {r}
  BY DEF Since, InFlight
<1>2. IsFiniteSet(Since(A, s)) /\ r \notin Since(A, s)
  BY FS_Subset DEF Since, InFlight
<1>3. /\ IsFiniteSet(Since(A, s) \cup {r})
      /\ Cardinality(Since(A, s) \cup {r}) = Cardinality(Since(A, s)) + 1
  BY <1>2, FS_AddElement
<1>4. /\ Cardinality(Since(A, s)') \in Nat /\ Cardinality(Since(A, s)) \in Nat
      /\ Cardinality(Since(A, s)') <= Cardinality(Since(A, s)) + 1
  BY <1>1, <1>2, <1>3, FS_Subset, FS_CardinalityType
<1>5. /\ Period[key[1]] \in Nat /\ Full(key) \in Nat /\ credit[key] \in Nat
      /\ now \in Nat
  BY KeyFacts DEF TypeOK, Times
<1>6. Cardinality(Since(A, s)') * Period[key[1]]
        <= Cardinality(Since(A, s)) * Period[key[1]] + Period[key[1]]
  BY <1>4, <1>5
<1>7. Cardinality(Since(A, s)) * Period[key[1]] + credit[key]
        <= Full(key) + (now - s)
  BY DEF Pays
<1> QED
  BY <1>4, <1>5, <1>6, <1>7

\* The buckets pay as long as logins only end and credit is only spent.
LEMMA LoadLess ==
  ASSUME TypeOK, LoadInv, now' = now,
         \A key \in Keys : credit'[key] \in Nat /\ credit'[key] <= credit[key],
         \A r \in Logins : login'[r] # NoLogin =>
           /\ login[r] # NoLogin
           /\ login'[r].from = login[r].from /\ login'[r].since = login[r].since
  PROVE  LoadInv'
<1>1. \A A : /\ InFlight(A)' \subseteq InFlight(A)
             /\ \A r \in InFlight(A)' : login'[r].since = login[r].since
  BY DEF InFlight
<1>2. IsFiniteSet(InFlight(Addresses)')
  BY <1>1, FS_Subset DEF LoadInv
<1>3. Pays(<<"global">>, Addresses)'
  BY <1>1, KeyFacts, PaysLess DEF LoadInv
<1>4. ASSUME NEW a \in Addresses PROVE Pays(<<"ip", a>>, {a})'
  <2>1. InFlight({a}) \subseteq InFlight(Addresses)
    BY DEF InFlight
  <2>2. IsFiniteSet(InFlight({a}))
    BY <2>1, FS_Subset DEF LoadInv
  <2> QED
    BY <1>1, <2>2, KeyFacts, PaysLess DEF LoadInv
<1> QED
  BY <1>2, <1>3, <1>4 DEF LoadInv

\* A login spends the global bucket, and that of its address if it comes
\* so far.
LEMMA LoginFacts ==
  ASSUME TypeOK, NEW r \in Logins, NEW a \in Addresses, Login(r, a)
  PROVE  /\ login[r] = NoLogin
         /\ UNCHANGED <<now, admins, secret, sessions, principal, history>>
         /\ credit' \in [Keys -> Nat]
         /\ \A key \in Keys : credit'[key] <= credit[key]
         /\ \/ login' = login
            \/ /\ login' = [login EXCEPT ![r] =
                    [from |-> a, since |-> now, sub |-> Nobody, vouched |-> now]]
               /\ credit'[<<"global">>] =
                    credit[<<"global">>] - Period[<<"global">>[1]]
               /\ credit'[<<"ip", a>>] =
                    credit[<<"ip", a>>] - Period[<<"ip", a>>[1]]
<1> DEFINE left == Spend(credit, <<"global">>)
<1>1. /\ login[r] = NoLogin /\ Passes(<<"global">>)
      /\ IF Passes(<<"ip", a>>)
           THEN /\ credit' = Spend(left, <<"ip", a>>)
                /\ \/ UNCHANGED login
                   \/ login' = [login EXCEPT ![r] =
                        [from |-> a, since |-> now, sub |-> Nobody,
                         vouched |-> now]]
           ELSE credit' = left /\ UNCHANGED login
      /\ UNCHANGED <<now, admins, secret, sessions, principal, history>>
  BY DEF Login
<1>2. /\ left \in [Keys -> Nat]
      /\ \A key \in Keys : left[key] <= credit[key]
      /\ left[<<"global">>] = credit[<<"global">>] - Period[<<"global">>[1]]
      /\ \A key \in Keys \ {<<"global">>} : left[key] = credit[key]
  BY <1>1, KeyFacts DEF TypeOK, Spend, Passes
<1>3. CASE ~ Passes(<<"ip", a>>)
  BY <1>1, <1>2, <1>3
<1>4. CASE Passes(<<"ip", a>>)
  <2>1. /\ credit' \in [Keys -> Nat]
        /\ \A key \in Keys : credit'[key] <= left[key]
        /\ credit'[<<"global">>] = left[<<"global">>]
        /\ credit'[<<"ip", a>>] = left[<<"ip", a>>] - Period[<<"ip", a>>[1]]
    <3> HIDE DEF left
    <3> QED
      BY <1>1, <1>2, <1>4, KeyFacts DEF TypeOK, Spend, Passes
  <2>2. \A key \in Keys : credit'[key] <= credit[key]
    <3> HIDE DEF left
    <3> QED
      BY <1>2, <2>1 DEF TypeOK
  <2> QED
    BY <1>1, <1>2, <1>4, <2>1, <2>2, KeyFacts
<1> QED
  BY <1>3, <1>4

\* A login is paid for before it begins.
LEMMA LoginLoad ==
  ASSUME TypeOK, LoadInv, NEW r \in Logins, NEW a \in Addresses, Login(r, a)
  PROVE  LoadInv'
<1>1. CASE login' = login
  BY <1>1, LoginFacts, LoadLess
<1>2. CASE login' = [login EXCEPT ![r] =
              [from |-> a, since |-> now, sub |-> Nobody, vouched |-> now]]
           /\ login' # login
  <2>1. /\ login[r] = NoLogin
        /\ now' = now
        /\ \A q \in Logins \ {r} : login'[q] = login[q]
        /\ login'[r].from = a
        /\ \A key \in Keys : credit'[key] \in Nat /\ credit'[key] <= credit[key]
        /\ credit'[<<"global">>] =
             credit[<<"global">>] - Period[<<"global">>[1]]
        /\ credit'[<<"ip", a>>] = credit[<<"ip", a>>] - Period[<<"ip", a>>[1]]
    BY <1>2, LoginFacts DEF TypeOK, history
  <2>2. IsFiniteSet(InFlight(Addresses)')
    <3>1. InFlight(Addresses)' \subseteq InFlight(Addresses) \cup {r}
      BY <2>1 DEF InFlight
    <3> QED
      BY <3>1, FS_AddElement, FS_Subset DEF LoadInv
  <2>3. \A b \in Addresses : IsFiniteSet(InFlight({b}))
    <3>1. \A b \in Addresses : InFlight({b}) \subseteq InFlight(Addresses)
      BY DEF InFlight
    <3> QED
      BY <3>1, FS_Subset DEF LoadInv
  <2>4. Pays(<<"global">>, Addresses)'
    BY <2>1, KeyFacts, PaysMore DEF LoadInv
  <2>5. ASSUME NEW b \in Addresses PROVE Pays(<<"ip", b>>, {b})'
    <3>1. CASE b = a
      BY <2>1, <2>3, <3>1, KeyFacts, PaysMore DEF LoadInv
    <3>2. CASE b # a
      <4>1. /\ InFlight({b})' \subseteq InFlight({b})
            /\ \A q \in InFlight({b})' : login'[q].since = login[q].since
        BY <2>1, <3>2 DEF InFlight
      <4> QED
        BY <2>1, <2>3, <4>1, KeyFacts, PaysLess DEF LoadInv
    <3> QED
      BY <3>1, <3>2
  <2> QED
    BY <2>2, <2>4, <2>5 DEF LoadInv
<1> QED
  BY <1>1, <1>2, LoginFacts

\* A tick puts at most one back, and nothing beyond a full bucket.
LEMMA TickLoad ==
  ASSUME TypeOK, LoginInv, LoadInv, Tick
  PROVE  LoadInv'
<1>1. /\ now \in Nat /\ now' = now + 1 /\ login' = login
      /\ \A key \in Keys : /\ credit[key] \in Nat /\ credit'[key] \in Nat
                          /\ credit'[key] <= credit[key] + 1
                          /\ credit'[key] <= Full(key)
  BY KeyFacts DEF Tick, TypeOK, Times
<1>2. \A A : InFlight(A)' = InFlight(A)
  BY <1>1 DEF InFlight
<1>3. ASSUME NEW key \in Keys, NEW A, Pays(key, A), IsFiniteSet(InFlight(A))
      PROVE  Pays(key, A)'
  <2> SUFFICES ASSUME NEW s \in 0..(now + 1)
               PROVE  Cardinality(Since(A, s)') * Period[key[1]] + credit'[key]
                        <= Full(key) + (now + 1 - s)
    BY <1>1 DEF Pays
  <2>1. Since(A, s)' = Since(A, s)
    BY <1>1, <1>2 DEF Since
  <2>2. Cardinality(Since(A, s)) \in Nat
    BY <1>3, FS_Subset, FS_CardinalityType DEF Since
  <2>3. Period[key[1]] \in Nat /\ Full(key) \in Nat
    BY KeyFacts
  <2>4. CASE s <= now
    <3>1. Cardinality(Since(A, s)) * Period[key[1]] + credit[key]
            <= Full(key) + (now - s)
      BY <1>1, <1>3, <2>4 DEF Pays
    <3>2. Cardinality(Since(A, s)) * Period[key[1]] \in Nat
      BY <2>2, <2>3
    <3> QED
      BY <1>1, <2>1, <2>3, <2>4, <3>1, <3>2
  <2>5. CASE s = now + 1
    <3>1. Since(A, s) = {}
      <4> SUFFICES ASSUME NEW r \in Logins, login[r] # NoLogin,
                          login[r].since >= now + 1
                   PROVE  FALSE
        BY <2>5 DEF Since, InFlight
      <4>1. /\ login[r].since \in Nat /\ login[r].vouched \in Nat
            /\ login[r].since <= login[r].vouched /\ login[r].vouched <= now
        BY DEF TypeOK, LoginInv, Pending, Times
      <4> QED
        BY <1>1, <4>1
    <3>2. Cardinality(Since(A, s)') = 0
      BY <2>1, <3>1, FS_EmptySet
    <3> QED
      BY <1>1, <2>3, <2>5, <3>2
  <2> QED
    BY <1>1, <2>4, <2>5
<1>4. \A a \in Addresses : IsFiniteSet(InFlight({a}))
  <2>1. \A a \in Addresses : InFlight({a}) \subseteq InFlight(Addresses)
    BY DEF InFlight
  <2> QED
    BY <2>1, FS_Subset DEF LoadInv
<1> QED
  BY <1>2, <1>3, <1>4, KeyFacts DEF LoadInv

-----------------------------------------------------------------------------
\* What was believed of the principal stays believed within the tick.
LEMMA BelievedStill ==
  ASSUME IInv, UNCHANGED <<now, principal, history>>
  PROVE  SessionsAreRecent' /\ AdminsWereListed' /\ RotationRevokes'
  BY DEF IInv, SessionsAreRecent, AdminsWereListed, RotationRevokes, history

\* When nobody is let in, there is nothing to believe.
LEMMA NobodyBelieved ==
  ASSUME principal' = Nobody
  PROVE  SessionsAreRecent' /\ AdminsWereListed' /\ RotationRevokes'
  BY DEF SessionsAreRecent, AdminsWereListed, RotationRevokes

\* A login begins now, after the last change of the secret.
LEMMA LoginIInv ==
  ASSUME IInv, NEW r \in Logins, NEW a \in Addresses, Login(r, a)
  PROVE  IInv'
<1>1. /\ TypeOK
      /\ UNCHANGED <<now, admins, secret, sessions, principal, history>>
      /\ credit' \in [Keys -> Nat]
      /\ \A key \in Keys : credit'[key] <= credit[key]
      /\ \/ login' = login
         \/ login' = [login EXCEPT ![r] =
              [from |-> a, since |-> now, sub |-> Nobody, vouched |-> now]]
  BY LoginFacts DEF IInv
<1>2. TypeOK'
  <2>1. \A k \in Keys : credit'[k] <= Full(k)
    BY <1>1, KeyFacts DEF TypeOK
  <2>2. [from |-> a, since |-> now, sub |-> Nobody, vouched |-> now] \in Pending
    BY <1>1 DEF TypeOK, Pending
  <2>3. login' \in [Logins -> Pending \cup {NoLogin}]
    BY <1>1, <2>2 DEF TypeOK
  <2> QED
    BY <1>1, <2>1, <2>3 DEF TypeOK, history
<1>3. LoginInv'
  BY <1>1, GatewayAssumption
  DEF IInv, LoginInv, ListInv, TypeOK, Times, history
<1>4. ListInv' /\ TokenInv'
  BY <1>1 DEF IInv, ListInv, TokenInv, history
<1>5. LoadInv'
  BY LoginLoad DEF IInv
<1> QED
  BY <1>1, <1>2, <1>3, <1>4, <1>5, BelievedStill DEF IInv

\* The homeserver vouches for a subject while the login waits.
LEMMA VouchIInv ==
  ASSUME IInv, NEW r \in Logins, Vouch(r)
  PROVE  IInv'
<1>1. PICK u \in Users \cup {Foreign} :
        login' = [login EXCEPT ![r].sub = u, ![r].vouched = now]
  BY DEF Vouch
<1>2. /\ TypeOK /\ LoginInv
      /\ login[r] # NoLogin /\ login[r] \in Pending
      /\ UNCHANGED <<now, credit, admins, secret, sessions, principal, history>>
  BY DEF IInv, Vouch, Waits, TypeOK
<1>3. /\ login'[r] \in Pending /\ login'[r].since = login[r].since
      /\ login'[r].from = login[r].from /\ login'[r].vouched = now
      /\ \A q \in Logins \ {r} : login'[q] = login[q]
      /\ login' \in [Logins -> Pending \cup {NoLogin}]
  <2>1. [[login[r] EXCEPT !.sub = u] EXCEPT !.vouched = now] \in Pending
    BY <1>2 DEF TypeOK, Pending
  <2> QED
    BY <1>1, <1>2, <2>1 DEF TypeOK, Pending
<1>4. TypeOK'
  BY <1>2, <1>3 DEF TypeOK, history
<1>5. LoginInv'
  <2>1. rotated' = rotated /\ now' = now
    BY <1>2 DEF history
  <2>2. login[r].since \in Nat /\ login[r].vouched \in Nat /\ now \in Nat
    BY <1>2, GatewayAssumption DEF TypeOK, Pending, Times
  <2> QED
    BY <1>2, <1>3, <2>1, <2>2 DEF LoginInv
<1>6. ListInv' /\ TokenInv'
  BY <1>2 DEF IInv, ListInv, TokenInv, history
<1>7. LoadInv'
  BY <1>2, <1>3, LoadLess DEF IInv, TypeOK
<1> QED
  BY <1>2, <1>4, <1>5, <1>6, <1>7, BelievedStill DEF IInv

\* A login ends, with a session or without.
LEMMA EndIInv ==
  ASSUME IInv, NEW r \in Logins, Mint(r) \/ FailLogin(r)
  PROVE  IInv'
<1>1. /\ TypeOK /\ LoginInv /\ ListInv
      /\ login' = [login EXCEPT ![r] = NoLogin]
      /\ UNCHANGED <<now, credit, admins, secret, principal, history>>
  BY DEF IInv, Mint, FailLogin
<1>2. \A t \in sessions' : t \in sessions \/ (Verified(r) /\ t = Minted(r))
  BY DEF Mint, FailLogin
<1>3. ASSUME Verified(r)
      PROVE  /\ Minted(r) \in Claims
             /\ Minted(r).key = secret
             /\ Minted(r).vouched >= rotated
             /\ Minted(r).exp <= Minted(r).vouched + Timeout + Ttl
             /\ Minted(r).admin =>
                  /\ listed[Minted(r).sub] # Nobody
                  /\ Minted(r).exp <= listed[Minted(r).sub] + Ttl
  <2>1. /\ login[r] # NoLogin /\ login[r] \in Pending /\ login[r].sub \in Users
        /\ login[r].since \in Nat /\ login[r].vouched \in Times
        /\ now \in Times /\ now \in Nat /\ login[r].vouched \in Nat
        /\ rotated \in Nat
    BY <1>1, <1>3, GatewayAssumption DEF Verified, TypeOK, Pending, Times
  <2>2. /\ rotated <= login[r].since /\ login[r].since <= login[r].vouched
        /\ now <= login[r].since + Timeout
    BY <1>1, <2>1 DEF LoginInv
  <2>3. login[r].sub \in admins => /\ listed[login[r].sub] = now
                                  /\ now # Nobody
    BY <1>1, <2>1, GatewayAssumption DEF ListInv
  <2>4. now + Ttl \in Ttl..(MaxTime + Ttl) /\ secret \in 0..MaxSecret
    BY <1>1, <2>1, GatewayAssumption DEF TypeOK, Times
  <2>5. Minted(r) \in Claims
    BY <2>1, <2>4 DEF Minted, Claims
  <2>6. now + Ttl <= login[r].vouched + Timeout + Ttl
    BY <2>1, <2>2, GatewayAssumption
  <2>7. /\ Minted(r).sub = login[r].sub /\ Minted(r).key = secret
        /\ Minted(r).vouched = login[r].vouched /\ Minted(r).exp = now + Ttl
    BY DEF Minted
  <2>8. Minted(r).admin = (login[r].sub \in admins)
    BY DEF Minted
  <2>9. Minted(r).vouched >= rotated
    BY <2>1, <2>2, <2>7
  <2>10. Minted(r).admin => /\ listed[Minted(r).sub] = now
                           /\ listed[Minted(r).sub] # Nobody
    BY <2>3, <2>7, <2>8, Zenon
  <2>11. Minted(r).exp <= now + Ttl
    BY <2>1, <2>7, GatewayAssumption
  <2> QED
    BY <2>5, <2>6, <2>7, <2>9, <2>10, <2>11
<1>4. TypeOK'
  BY <1>1, <1>2, <1>3 DEF TypeOK, history
<1>5. LoginInv' /\ ListInv'
  BY <1>1 DEF LoginInv, ListInv, TypeOK, history
<1>6. TokenInv'
  <2> SUFFICES ASSUME NEW t \in sessions' PROVE TokenInv!(t)'
    BY DEF TokenInv
  <2>1. secret \in Nat
    BY <1>1, GatewayAssumption DEF TypeOK
  <2>2. CASE t \in sessions
    BY <1>1, <2>2 DEF IInv, TokenInv, history
  <2>3. CASE Verified(r) /\ t = Minted(r)
    BY <1>1, <1>3, <2>1, <2>3 DEF history
  <2> QED
    BY <1>2, <2>2, <2>3
<1>7. LoadInv'
  BY <1>1, LoadLess DEF IInv, TypeOK
<1> QED
  BY <1>1, <1>4, <1>5, <1>6, <1>7, BelievedStill DEF IInv

\* What a valid session says is true of the one who is let in.
LEMMA RequestIInv ==
  ASSUME IInv, NEW t \in sessions, NEW c \in Classes, Request(t, c)
  PROVE  IInv'
<1>1. /\ TypeOK /\ t \in Claims
      /\ verify_session(t) /\ Passes(<<c, t.sub>>)
      /\ credit' = Spend(credit, <<c, t.sub>>)
      /\ principal' = [sub |-> t.sub, admin |-> t.admin, vouched |-> t.vouched]
      /\ UNCHANGED <<now, admins, secret, login, sessions, history>>
  BY DEF IInv, TypeOK, Request
<1>2. /\ t.sub \in Users /\ t.admin \in BOOLEAN /\ t.vouched \in Times
      /\ t.vouched \in Nat /\ t.exp \in Nat /\ now \in Nat /\ rotated \in Nat
      /\ listed[t.sub] \in Times \cup {Nobody}
  BY <1>1, GatewayAssumption DEF Claims, Times, TypeOK
<1>3. /\ credit' \in [Keys -> Nat]
      /\ \A key \in Keys : credit'[key] <= credit[key]
  BY <1>1, <1>2, KeyFacts DEF TypeOK, Spend, Passes
<1>4. TypeOK'
  <2>1. \A k \in Keys : credit'[k] <= Full(k)
    BY <1>1, <1>3, KeyFacts DEF TypeOK
  <2>2. principal' \in Principals
    BY <1>1, <1>2 DEF Principals
  <2> QED
    BY <1>1, <1>3, <2>1, <2>2 DEF TypeOK, history
<1>5. LoginInv' /\ ListInv' /\ TokenInv'
  BY <1>1 DEF IInv, LoginInv, ListInv, TokenInv, history
<1>6. LoadInv'
  BY <1>1, <1>3, LoadLess DEF IInv
<1>7. /\ t.key = secret /\ t.exp + Leeway >= now
      /\ t.vouched >= rotated
      /\ t.exp <= t.vouched + Timeout + Ttl
      /\ t.admin => listed[t.sub] # Nobody /\ t.exp <= listed[t.sub] + Ttl
  BY <1>1 DEF IInv, TokenInv, verify_session
<1>8. SessionsAreRecent'
  BY <1>1, <1>2, <1>7, GatewayAssumption DEF SessionsAreRecent
<1>9. AdminsWereListed'
  <2>1. t.admin => listed[t.sub] \in Nat /\ now - listed[t.sub] <= Ttl + Leeway
    BY <1>2, <1>7, GatewayAssumption DEF Times
  <2> QED
    BY <1>1, <1>2, <1>7, <2>1 DEF AdminsWereListed, history
<1>10. RotationRevokes'
  BY <1>1, <1>7 DEF RotationRevokes, history
<1> QED
  BY <1>4, <1>5, <1>6, <1>8, <1>9, <1>10 DEF IInv

\* A tick comes only while no login is older than the timeout, and makes
\* everyone on the list an admin of now.
LEMMA TickIInv ==
  ASSUME IInv, Tick
  PROVE  IInv'
<1>1. /\ TypeOK /\ LoginInv /\ ListInv /\ TokenInv
      /\ now \in Nat /\ now < MaxTime /\ now' = now + 1 /\ now' \in Times
      /\ \A r \in Logins : login[r] # NoLogin => now - login[r].since < Timeout
      /\ listed' = [u \in Users |-> IF u \in admins THEN now + 1 ELSE listed[u]]
      /\ principal' = Nobody
      /\ UNCHANGED <<admins, secret, login, sessions, rotated>>
  BY GatewayAssumption DEF IInv, Tick, TypeOK, Times
<1>2. TypeOK'
  <2>1. credit' \in [Keys -> Nat] /\ \A k \in Keys : credit'[k] <= Full(k)
    BY <1>1, KeyFacts DEF TypeOK, Tick
  <2> QED
    BY <1>1, <2>1 DEF TypeOK
<1>3. LoginInv'
  <2>1. \A r \in Logins : login[r] # NoLogin =>
          login[r].since \in Nat /\ login[r].vouched \in Nat
    BY <1>1, GatewayAssumption DEF TypeOK, Pending, Times
  <2> QED
    BY <1>1, <2>1, GatewayAssumption DEF LoginInv
<1>4. ListInv'
  <2>1. \A u \in Users : listed[u] \in Times \cup {Nobody}
    BY <1>1 DEF TypeOK
  <2>2. rotated \in Nat /\ admins \subseteq Users
    BY <1>1, GatewayAssumption DEF TypeOK, Times
  <2> QED
    BY <1>1, <2>1, <2>2, GatewayAssumption DEF ListInv, Times
<1>5. TokenInv'
  <2> SUFFICES ASSUME NEW t \in sessions, t.admin
               PROVE  /\ listed'[t.sub] # Nobody
                      /\ t.exp <= listed'[t.sub] + Ttl
    BY <1>1 DEF TokenInv
  <2>1. t.sub \in Users /\ t.exp \in Nat
    BY <1>1, GatewayAssumption DEF TypeOK, Claims
  <2>2. /\ listed[t.sub] # Nobody /\ t.exp <= listed[t.sub] + Ttl
        /\ listed[t.sub] <= now
    BY <1>1, <2>1 DEF TokenInv, ListInv
  <2>3. listed[t.sub] \in Nat
    BY <1>1, <2>1, <2>2, GatewayAssumption DEF TypeOK, Times
  <2>4. now + 1 # Nobody
    BY <1>1, GatewayAssumption
  <2> QED
    BY <1>1, <2>1, <2>2, <2>3, <2>4, GatewayAssumption
<1>6. LoadInv'
  BY TickLoad DEF IInv
<1> QED
  BY <1>1, <1>2, <1>3, <1>4, <1>5, <1>6, NobodyBelieved DEF IInv

\* A restart ends the logins and lets nobody in; a new secret is newer than
\* every token.
LEMMA RestartIInv ==
  ASSUME IInv, NEW list \in AdminLists, NEW key \in {secret, secret + 1},
         key \in 0..MaxSecret, Restart(list, key)
  PROVE  IInv'
<1>1. /\ TypeOK /\ LoginInv /\ ListInv /\ TokenInv
      /\ credit' = [k \in Keys |-> Full(k)]
      /\ admins' = list /\ secret' = key
      /\ login' = [r \in Logins |-> NoLogin]
      /\ principal' = Nobody
      /\ listed' = [u \in Users |-> IF u \in list THEN now ELSE listed[u]]
      /\ rotated' = IF key = secret THEN rotated ELSE now
      /\ UNCHANGED <<now, sessions>>
      /\ now \in Times /\ now \in Nat /\ now # Nobody /\ secret \in Nat
      /\ rotated \in Nat
  BY GatewayAssumption DEF IInv, Restart, TypeOK, Times
<1>2. TypeOK'
  <2>1. credit' \in [Keys -> Nat] /\ \A k \in Keys : credit'[k] <= Full(k)
    BY <1>1, KeyFacts
  <2> QED
    BY <1>1, <2>1 DEF TypeOK
<1>3. LoginInv'
  BY <1>1 DEF LoginInv
<1>4. ListInv'
  BY <1>1, GatewayAssumption DEF ListInv
<1>5. TokenInv'
  <2> SUFFICES ASSUME NEW t \in sessions
               PROVE  TokenInv!(t)'
    BY <1>1 DEF TokenInv
  <2>1. /\ t.sub \in Users /\ t.exp \in Nat /\ t.key \in Nat
        /\ listed[t.sub] \in Times \cup {Nobody}
    BY <1>1, GatewayAssumption DEF TypeOK, Claims
  <2>2. /\ t.key <= secret /\ (t.key = secret => t.vouched >= rotated)
        /\ t.exp <= t.vouched + Timeout + Ttl
    BY <1>1 DEF TokenInv
  <2>3. t.admin => /\ listed'[t.sub] # Nobody
                   /\ t.exp <= listed'[t.sub] + Ttl
    <3> SUFFICES ASSUME t.admin
                 PROVE  /\ listed'[t.sub] # Nobody
                        /\ t.exp <= listed'[t.sub] + Ttl
      OBVIOUS
    <3>1. /\ listed[t.sub] # Nobody /\ t.exp <= listed[t.sub] + Ttl
          /\ listed[t.sub] <= now
      BY <1>1, <2>1 DEF TokenInv, ListInv
    <3>2. listed[t.sub] \in Nat
      BY <2>1, <3>1 DEF Times
    <3> QED
      BY <1>1, <2>1, <3>1, <3>2, GatewayAssumption
  <2>4. t.key <= secret' /\ (t.key = secret' => key = secret)
    BY <1>1, <2>1, <2>2
  <2> QED
    BY <1>1, <2>2, <2>3, <2>4
<1>6. LoadInv'
  <2>1. \A A : InFlight(A)' = {}
    BY <1>1 DEF InFlight
  <2>2. \A A, s : Since(A, s)' = {}
    BY <2>1 DEF Since
  <2>3. ASSUME NEW k \in Keys, NEW A PROVE Pays(k, A)'
    <3> SUFFICES ASSUME NEW s \in 0..now
                 PROVE  Cardinality(Since(A, s)') * Period[k[1]] + credit'[k]
                          <= Full(k) + (now - s)
      BY <1>1 DEF Pays
    <3>1. Cardinality(Since(A, s)') = 0
      BY <2>2, FS_EmptySet
    <3>2. /\ Period[k[1]] \in Nat /\ Full(k) \in Nat
          /\ credit'[k] = Full(k)
      BY <1>1, KeyFacts
    <3>3. Cardinality(Since(A, s)') * Period[k[1]] = 0
      BY <3>1, <3>2
    <3> QED
      BY <1>1, <3>2, <3>3
  <2> QED
    BY <2>1, <2>3, KeyFacts, FS_EmptySet DEF LoadInv
<1> QED
  BY <1>1, <1>2, <1>3, <1>4, <1>5, <1>6, NobodyBelieved DEF IInv

-----------------------------------------------------------------------------
\* Every step of the gateway preserves the invariant.
THEOREM NextIInv == IInv /\ [Next]_vars => IInv'
<1> SUFFICES ASSUME IInv, [Next]_vars PROVE IInv'
  OBVIOUS
<1>1. ASSUME NEW r \in Logins, NEW a \in Addresses, Login(r, a) PROVE IInv'
  BY <1>1, LoginIInv
<1>2. ASSUME NEW r \in Logins, Vouch(r) PROVE IInv'
  BY <1>2, VouchIInv
<1>3. ASSUME NEW r \in Logins, Mint(r) \/ FailLogin(r) PROVE IInv'
  BY <1>3, EndIInv
<1>4. ASSUME NEW t \in sessions, NEW c \in Classes, Request(t, c) PROVE IInv'
  BY <1>4, RequestIInv
<1>5. CASE Tick
  BY <1>5, TickIInv
<1>6. ASSUME NEW list \in AdminLists,
             NEW key \in {secret, secret + 1} \cap 0..MaxSecret,
             Restart(list, key)
      PROVE  IInv'
  BY <1>6, RestartIInv
<1>7. CASE UNCHANGED vars
  <2>1. /\ UNCHANGED <<now, credit, admins, secret, login, sessions, principal>>
        /\ UNCHANGED history
    BY <1>7 DEF vars
  <2>2. TypeOK' /\ LoginInv' /\ ListInv' /\ TokenInv'
    BY <2>1 DEF IInv, TypeOK, LoginInv, ListInv, TokenInv, history
  <2>3. \A A : InFlight(A)' = InFlight(A)
    BY <2>1 DEF InFlight
  <2>4. LoadInv'
    BY <2>1, <2>3, LoadLess DEF IInv, TypeOK
  <2> QED
    BY <2>1, <2>2, <2>4, BelievedStill DEF IInv
<1> QED
  BY <1>1, <1>2, <1>3, <1>4, <1>5, <1>6, <1>7 DEF Next

\* The inductive invariant holds in every state.
THEOREM SpecIInv == Spec => []IInv
  BY InitIInv, NextIInv, PTL DEF Spec

\* Every state has its type: no bucket holds more than its burst.
THEOREM SpecTypeOK == Spec => []TypeOK
<1>1. IInv => TypeOK
  BY DEF IInv
<1> QED
  BY <1>1, SpecIInv, PTL

\* Nobody is let in on a word of the homeserver older than a session lasts
\* (auth.rs:6-8).
THEOREM SpecSessionsAreRecent == Spec => []SessionsAreRecent
<1>1. IInv => SessionsAreRecent
  BY DEF IInv
<1> QED
  BY <1>1, SpecIInv, PTL

\* A removed admin is one no longer than a session lasts (auth.rs:98-104).
THEOREM SpecAdminsWereListed == Spec => []AdminsWereListed
<1>1. IInv => AdminsWereListed
  BY DEF IInv
<1> QED
  BY <1>1, SpecIInv, PTL

\* A changed secret revokes what was vouched for before it.
THEOREM SpecRotationRevokes == Spec => []RotationRevokes
<1>1. IInv => RotationRevokes
  BY DEF IInv
<1> QED
  BY <1>1, SpecIInv, PTL

-----------------------------------------------------------------------------
\* What fits into a burst and a window, counted in periods.
LEMMA Fits ==
  ASSUME NEW n \in Nat, NEW p \in Nat \ {0}, NEW b \in Nat, NEW w \in Nat,
         n * p <= b * p + w
  PROVE  n <= b + w \div p
<1> DEFINE q == w \div p
<1>1. q \in Nat /\ w < (q + 1) * p
  OBVIOUS
<1> HIDE DEF q
<1>2. n * p < (b + q + 1) * p
  BY <1>1
<1>3. n < b + q + 1
  <2> SUFFICES ASSUME n >= b + q + 1 PROVE FALSE
    BY <1>1
  <2>1. PICK d \in Nat : n = (b + q + 1) + d
    <3>1. n - (b + q + 1) \in Nat /\ n = (b + q + 1) + (n - (b + q + 1))
      BY <1>1
    <3> QED
      BY <3>1
  <2>2. n * p = (b + q + 1) * p + d * p
    BY <1>1, <2>1
  <2>3. d * p \in Nat
    OBVIOUS
  <2> QED
    BY <1>1, <1>2, <2>2, <2>3
<1> QED
  BY <1>1, <1>3 DEF q

\* The logins in flight began within the timeout: the bucket paid for them
\* with a burst and what it gained since.
LEMMA LoadFits ==
  ASSUME IInv, NEW key \in Keys, NEW A \in SUBSET Addresses, Pays(key, A)
  PROVE  Cardinality(InFlight(A)) <= Bound(key[1])
<1> DEFINE s == IF now >= Timeout THEN now - Timeout ELSE 0
<1>1. now \in Nat /\ Timeout \in Nat
  BY GatewayAssumption DEF IInv, TypeOK, Times
<1>2. s \in 0..now /\ now - s <= Timeout /\ now - s \in Nat
  BY <1>1
<1>3. Since(A, s) = InFlight(A)
  <2> SUFFICES ASSUME NEW r \in Logins, login[r] # NoLogin
               PROVE  login[r].since >= s
    BY DEF Since, InFlight
  <2>1. login[r].since \in Nat /\ now <= login[r].since + Timeout
    BY DEF IInv, TypeOK, Pending, Times, LoginInv
  <2> QED
    BY <1>1, <2>1
<1> HIDE DEF s
<1>4. Cardinality(InFlight(A)) \in Nat
  <2>1. InFlight(A) \subseteq InFlight(Addresses)
    BY DEF InFlight
  <2> QED
    BY <2>1, FS_Subset, FS_CardinalityType DEF IInv, LoadInv
<1>5. /\ Period[key[1]] \in Nat \ {0} /\ Burst[key[1]] \in Nat
      /\ credit[key] \in Nat
  <2>1. key[1] \in Kinds
    BY DEF Keys, Kinds
  <2> QED
    BY <2>1, GatewayAssumption DEF IInv, TypeOK
<1>6. Cardinality(InFlight(A)) * Period[key[1]] + credit[key]
        <= Burst[key[1]] * Period[key[1]] + (now - s)
  BY <1>2, <1>3 DEF Pays, Full
<1>7. /\ Cardinality(InFlight(A)) * Period[key[1]] \in Nat
      /\ Burst[key[1]] * Period[key[1]] \in Nat
  BY <1>4, <1>5
<1>8. Cardinality(InFlight(A)) * Period[key[1]]
        <= Burst[key[1]] * Period[key[1]] + Timeout
  BY <1>1, <1>2, <1>5, <1>6, <1>7
<1> QED
  BY <1>1, <1>4, <1>5, <1>8, Fits DEF Bound

\* The homeserver never has more to answer than a burst and what the bucket
\* regains while a call may last (lib.rs:92).
THEOREM SpecLoadIsBounded == Spec => []LoadIsBounded
<1>1. IInv => LoadIsBounded
  <2> SUFFICES ASSUME IInv PROVE LoadIsBounded
    OBVIOUS
  <2>1. Cardinality(InFlight(Addresses)) <= Bound(<<"global">>[1])
    BY KeyFacts, LoadFits DEF IInv, LoadInv
  <2>2. ASSUME NEW a \in Addresses
        PROVE  Cardinality(InFlight({a})) <= Bound(<<"ip", a>>[1])
    BY KeyFacts, LoadFits DEF IInv, LoadInv
  <2> QED
    BY <2>1, <2>2 DEF LoadIsBounded
<1> QED
  BY <1>1, SpecIInv, PTL
=============================================================================

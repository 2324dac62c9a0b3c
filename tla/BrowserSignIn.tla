---------------------------- MODULE BrowserSignIn ----------------------------
(***************************************************************************)
(* Signing a browser in to the local dashboard (server.py): the holder of  *)
(* the administrator token mints a code, the browser it opens redeems the  *)
(* code for a session cookie.  Codes are kept in the server's memory, by   *)
(* digest, until they are redeemed or expire.  Requests run in threads of  *)
(* their own; the map of codes is read and written under a lock, and the   *)
(* expiry is looked at after the lock is released.                         *)
(***************************************************************************)
EXTENDS Naturals, Sequences

CONSTANTS
    Code,       \* codes (token_urlsafe never repeats one)
    Thread,     \* requests that redeem
    Life,       \* 60 seconds
    Session,    \* 8 hours
    MaxTime,    \* bound on the clock
    MaxServes   \* bound on the runs of the server

ASSUME SignInAssumption ==
    /\ {Life, Session, MaxTime, MaxServes} \subseteq Nat
    /\ Life > 0 /\ 0 \notin Code

VARIABLES
    clock,
    serves,   \* runs of the server so far; each has a session_secret of its own
    codes,    \* browser_bootstraps: the expiry of the codes that can be redeemed
    holds,    \* by thread: what it popped, or Nothing
    minted,   \* history: when and in which run each code was minted
    grants    \* history: by code, the sessions it gave

signIn == <<clock, serves, codes, holds, minted, grants>>

Nothing == [code |-> 0, expiry |-> 0]
Never == [at |-> 0, run |-> 0]
Popped == [code : Code, expiry : Nat]
Stamp == [at : Nat, run : Nat]

SignInTypeOK ==
    /\ clock \in Nat /\ serves \in Nat
    /\ DOMAIN codes \subseteq Code /\ \A c \in DOMAIN codes : codes[c] \in Nat
    /\ holds \in [Thread -> Popped \cup {Nothing}]
    /\ minted \in [Code -> Stamp]
    /\ grants \in [Code -> Seq(Stamp)]

SignInInit ==
    /\ clock = 0 /\ serves = 1
    /\ codes = [c \in {} |-> 0]
    /\ holds = [t \in Thread |-> Nothing]
    /\ minted = [c \in Code |-> Never]
    /\ grants = [c \in Code |-> <<>>]

Tick ==
    /\ clock < MaxTime
    /\ clock' = clock + 1
    /\ UNCHANGED <<serves, codes, holds, minted, grants>>

\* Mutant: the map is begun anew.
MintAnew(c) ==
    /\ minted[c] = Never
    /\ codes' = [d \in {c} |-> clock + Life]
    /\ minted' = [minted EXCEPT ![c] = [at |-> clock, run |-> serves]]
    /\ UNCHANGED <<clock, serves, holds, grants>>
\* POST /api/v1/browser-bootstrap: expired codes go, the new one is added.
Mint(c) ==
    /\ minted[c] = Never
    /\ LET live == {d \in DOMAIN codes : codes[d] > clock}
       IN codes' = [d \in live \cup {c} |-> IF d = c THEN clock + Life ELSE codes[d]]
    /\ minted' = [minted EXCEPT ![c] = [at |-> clock, run |-> serves]]
    /\ UNCHANGED <<clock, serves, holds, grants>>

\* Mutant: the code is looked up here and forgotten by the next Mint.
Peek(t, c) ==
    /\ holds[t] = Nothing
    /\ c \in DOMAIN codes
    /\ holds' = [holds EXCEPT ![t] = [code |-> c, expiry |-> codes[c]]]
    /\ UNCHANGED <<clock, serves, codes, minted, grants>>
\* GET /browser-bootstrap/<code>, under the lock.  A code that is not there is
\* refused and changes nothing.
Pop(t, c) ==
    /\ holds[t] = Nothing
    /\ c \in DOMAIN codes
    /\ holds' = [holds EXCEPT ![t] = [code |-> c, expiry |-> codes[c]]]
    /\ codes' = [d \in DOMAIN codes \ {c} |-> codes[d]]
    /\ UNCHANGED <<clock, serves, minted, grants>>

\* After the lock: a session, or a refusal that has used the code up all the same.
Redeem(t) ==
    /\ holds[t] # Nothing
    /\ holds[t].expiry >= clock
    /\ grants' = [grants EXCEPT ![holds[t].code] = Append(@, [at |-> clock, run |-> serves])]
    /\ holds' = [holds EXCEPT ![t] = Nothing]
    /\ UNCHANGED <<clock, serves, codes, minted>>

RefuseExpired(t) ==
    /\ holds[t] # Nothing
    /\ holds[t].expiry < clock
    /\ holds' = [holds EXCEPT ![t] = Nothing]
    /\ UNCHANGED <<clock, serves, codes, minted, grants>>

\* The server is started again: codes, requests and the secret are gone.
Serve ==
    /\ serves < MaxServes
    /\ serves' = serves + 1
    /\ codes' = [c \in {} |-> 0]
    /\ holds' = [t \in Thread |-> Nothing]
    /\ UNCHANGED <<clock, minted, grants>>

SignInNext ==
    \/ Tick \/ Serve
    \/ \E c \in Code : Mint(c) \/ \E t \in Thread : Pop(t, c)
    \/ \E t \in Thread : Redeem(t) \/ RefuseExpired(t)

SignInSpec == SignInInit /\ [][SignInNext]_signIn

\* _valid_session: a cookie is good for its time, in the run that signed it.
ValidSession(g) == g.run = serves /\ g.at + Session >= clock

-----------------------------------------------------------------------------
(* Properties. *)

\* A code gives one session at most, whatever requests present it at once, in
\* the run of the server that minted it and within the minute; and the session
\* ends within eight hours and a minute of the code (do_GET).
SingleUse ==
    \A c \in Code :
      /\ Len(grants[c]) <= 1
      /\ \A i \in DOMAIN grants[c] :
           /\ grants[c][i].run = minted[c].run
           /\ grants[c][i].at \in minted[c].at..(minted[c].at + Life)
           /\ ValidSession(grants[c][i]) =>
                /\ serves = minted[c].run
                /\ clock <= minted[c].at + Life + Session

\* A code that is in time stays redeemable until it is presented or the server
\* stops: pruning and the codes of other windows take none away.
CodesKept ==
    \A c \in Code :
      minted[c].run = serves /\ minted[c].at + Life > clock =>
        \/ c \in DOMAIN codes
        \/ grants[c] # <<>>
        \/ \E t \in Thread : holds[t].code = c

=============================================================================

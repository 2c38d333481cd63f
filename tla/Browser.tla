------------------------------ MODULE Browser ------------------------------
(***************************************************************************)
(* One browser against the HTTP routes: its cookie jar, the tabs and the   *)
(* React provider that share it, and the requests in flight                *)
(* (packages/nextjs-app-router/src/dispatch.ts, middleware.ts, cookies.ts, *)
(* core/src/session/get-or-refresh.ts, react/src/index.ts; the Express,    *)
(* Hono and Pages Router dispatchers are the same code).                   *)
(*                                                                         *)
(* A request carries the cookies of the moment it is sent; its Set-Cookie  *)
(* lines are applied when the answer arrives; requests and answers overtake*)
(* each other and may be lost.  The server's half of a request is one step *)
(* here: what happens between its awaits is the subject of Sessions.       *)
(* Cookies are written without a Domain (tokens.cookieDomain unset).       *)
(***************************************************************************)
EXTENDS FiniteSets, Naturals, Slots

CONSTANTS
    Visitor,        \* users who sign in on this browser
    Session,        \* sessions the server may open
    State,          \* states of single sign-on round trips
    MaxSerial       \* bound: rotations of a session

ASSUME MaxSerialAssumption == MaxSerial \in Nat

\* The access and refresh token issued together: each rotation has a new serial.
Pair == [session : Session, serial : 0..MaxSerial]

VARIABLES
    owner,          \* sessions opened, and for whom
    serial,         \* the rotation whose refresh token the server expects
    live,           \* sessions neither deleted nor revoked
    jar,            \* the cookies
    away,           \* states the provider has been sent, and may send back
    net,            \* requests in flight
    view,           \* session of the React provider
    \* History.
    crossed,        \* answers that write cookies crossed or were lost since the sign-in
    signedOut,      \* signed out, nothing else being in flight, and not in again
    settled,        \* states of callbacks that signed in and were answered
    replayed        \* a callback sent after that signed in again

browserVars ==
    <<owner, serial, live, jar, away, net, view, crossed, signedOut, settled, replayed>>

NoCookies == [access |-> Nil, refresh |-> Nil, csrf |-> FALSE, pending |-> Nil, state |-> Nil]

Jar ==
    [access : Pair \cup {Nil}, refresh : Pair \cup {Nil}, csrf : BOOLEAN,
     pending : Visitor \cup {Nil}, state : State \cup {Nil}]

\* Requests whose answer may write the cookies of a session.
Writers == {"signin", "verify", "signout", "guarded", "callback"}
Kinds == Writers \cup {"authorize", "session"}

ASSUME NilAssumption == Nil \notin Pair \cup Visitor \cup State \cup Kinds \cup {"ok", "refused"}
ASSUME GuestAssumption == "guest" \notin Visitor

\* cookies: those it was sent with; tokens, pending, deleted: its Set-Cookie lines;
\* body: the user it names, or how it went.
InFlight ==
    [pc : {"sent", "answered"}, kind : Kinds, user : Visitor \cup {Nil},
     state : State \cup {Nil}, cookies : Jar, replay : BOOLEAN,
     tokens : Pair \cup {Nil}, pending : Visitor \cup {Nil}, deleted : SUBSET (DOMAIN NoCookies),
     body : Visitor \cup {Nil, "ok", "refused"}]

Free ==
    [pc |-> "free", kind |-> Nil, user |-> Nil, state |-> Nil, cookies |-> NoCookies, replay |-> FALSE,
     tokens |-> Nil, pending |-> Nil, deleted |-> {}, body |-> Nil]

Owner(p) == IF p = Nil THEN Nil ELSE owner[p.session]

BrowserTypeOK ==
    /\ owner \in [Session -> Visitor \cup {Nil}]
    /\ serial \in [Session -> 0..MaxSerial]
    /\ live \subseteq Session /\ \A s \in live : owner[s] # Nil
    /\ jar \in Jar
    /\ \A p \in {jar.access, jar.refresh} \ {Nil} : Owner(p) # Nil /\ p.serial <= serial[p.session]
    /\ net \in [Request -> InFlight \cup {Free}]
    /\ view \in Visitor \cup {Nil, "guest"}
    /\ crossed \in BOOLEAN /\ signedOut \in BOOLEAN /\ replayed \in BOOLEAN
    /\ settled \subseteq away /\ away \subseteq State

BrowserInit ==
    /\ owner = [s \in Session |-> Nil]
    /\ serial = [s \in Session |-> 0]
    /\ live = {} /\ jar = NoCookies /\ away = {}
    /\ net = [r \in Request |-> Free]
    /\ view = Nil
    /\ crossed = FALSE /\ signedOut = FALSE
    /\ settled = {} /\ replayed = FALSE

-----------------------------------------------------------------------------
(* Requests leave the browser.                                             *)

Busy(r, kinds) == \E q \in Request \ {r} : net[q].kind \in kinds

\* The cookies that matter to a request of this kind.
Sees(kind) ==
    CASE kind = "session" -> [NoCookies EXCEPT !.access = jar.access]
      [] kind = "guarded" -> [NoCookies EXCEPT !.access = jar.access, !.refresh = jar.refresh]
      [] kind = "signout" ->
            [NoCookies EXCEPT !.access = jar.access, !.refresh = jar.refresh, !.csrf = jar.csrf]
      [] kind = "verify" -> [NoCookies EXCEPT !.pending = jar.pending]
      [] kind = "callback" -> [NoCookies EXCEPT !.state = jar.state]
      [] OTHER -> NoCookies

Send(r, kind, user, st) ==
    /\ net[r] = Free
    /\ net' = [net EXCEPT ![r] = [Free EXCEPT !.pc = "sent", !.kind = kind, !.user = user, !.state = st,
                                             !.cookies = Sees(kind), !.replay = st \in settled]]
    /\ crossed' = (crossed \/ (kind \in Writers /\ Busy(r, Writers)))
    /\ signedOut' = (signedOut /\ kind \notin {"signin", "verify", "callback"})
    /\ UNCHANGED <<owner, serial, live, jar, away, view, settled, replayed>>

\* useSignIn, use2faVerify, useSignOut, and refresh of the provider, which may run
\* several times at once.
SendSignIn(r, u) == Send(r, "signin", u, Nil)
SendVerify(r) == jar.pending # Nil /\ Send(r, "verify", Nil, Nil)
SendSignOut(r) == Send(r, "signout", Nil, Nil)
SendSession(r) == Send(r, "session", Nil, Nil)

\* A page behind the middleware, or a call to an API with a tRPC context.
SendGuarded(r) == Send(r, "guarded", Nil, Nil)

\* useSso, and the way back from the provider, which may be loaded again.
SendAuthorize(r, st) ==
    /\ st \notin away /\ \A q \in Request : net[q].state # st
    /\ Send(r, "authorize", Nil, st)
SendCallback(r, st, u) == st \in away /\ Send(r, "callback", u, st)

-----------------------------------------------------------------------------
(* The server answers.                                                     *)

\* The answer needs the cookies of the request no more.
Reply(r, a) == net' = [net EXCEPT ![r] = [a EXCEPT !.pc = "answered", !.cookies = NoCookies]]

KeepBrowser == UNCHANGED <<jar, away, view, crossed, signedOut, settled>>

\* issueSession, for the routes below.
Open(u, s) ==
    /\ owner[s] = Nil
    /\ owner' = [owner EXCEPT ![s] = u]
    /\ live' = live \cup {s}

\* POST /signin and writeTokens: a session, a pending second factor, or an error.
HandleSignIn(r) ==
    LET q == net[r] IN
    /\ q.pc = "sent" /\ q.kind = "signin"
    /\ \/ \E s \in Session :
             /\ Open(q.user, s)
             /\ Reply(r, [q EXCEPT !.tokens = [session |-> s, serial |-> 0],
                                    !.deleted = {"pending"}, !.body = "ok"])
       \/ Reply(r, [q EXCEPT !.pending = q.user, !.body = q.user]) /\ UNCHANGED <<owner, live>>
       \/ Reply(r, [q EXCEPT !.body = "refused"]) /\ UNCHANGED <<owner, live>>
    /\ KeepBrowser
    /\ UNCHANGED <<serial, replayed>>

\* POST /2fa/verify: the pending cookie names the user.
HandleVerify(r) ==
    LET q == net[r] IN
    /\ q.pc = "sent" /\ q.kind = "verify"
    /\ \/ \E s \in Session :
             /\ Open(q.cookies.pending, s)
             /\ Reply(r, [q EXCEPT !.tokens = [session |-> s, serial |-> 0],
                                    !.deleted = {"pending"}, !.body = "ok"])
       \/ Reply(r, [q EXCEPT !.body = "refused"]) /\ UNCHANGED <<owner, live>>
    /\ KeepBrowser
    /\ UNCHANGED <<serial, replayed>>

\* Mutant: the refresh cookie is not among those cleared.
AuthCookiesSome == {"access", "csrf", "pending"}

\* clearAuthCookies.
AuthCookies == {"access", "refresh", "csrf", "pending"}

\* signOut: the session is named by the refresh token, however old, or else by
\* the access token.
SessionOf(c) ==
    IF c.refresh # Nil THEN {c.refresh.session} ELSE IF c.access # Nil THEN {c.access.session} ELSE {}

\* POST /signout; without the CSRF cookie there is no header, and 403.
HandleSignOut(r) ==
    LET q == net[r] IN
    /\ q.pc = "sent" /\ q.kind = "signout"
    /\ \/ /\ q.cookies.csrf
          /\ live' = live \ SessionOf(q.cookies)
          /\ Reply(r, [q EXCEPT !.deleted = AuthCookies, !.body = "ok"])
       \/ ~q.cookies.csrf /\ Reply(r, [q EXCEPT !.body = "refused"]) /\ UNCHANGED live
    /\ KeepBrowser
    /\ UNCHANGED <<owner, serial, replayed>>

\* GET /session trusts the access token alone: the session may have ended since.
HandleSession(r) ==
    LET q == net[r] IN
    /\ q.pc = "sent" /\ q.kind = "session"
    /\ Reply(r, [q EXCEPT !.body = Owner(q.cookies.access)])
    /\ KeepBrowser
    /\ UNCHANGED <<owner, serial, live, replayed>>

\* The pair after p.
Successor(p) == [p EXCEPT !.serial = @ + 1]

\* Mutant: the rotated cookies of the sub-request are not forwarded.
ForwardedNot(p) == Nil

\* tryRotateViaSubrequest and getSessionOrRefresh: the Set-Cookie lines of the
\* rotation are put on the answer.
Forwarded(p) == p

\* The middleware and getSessionOrRefresh: a valid access token is let through, a
\* refresh token is rotated, and one the server does not expect ends its family.
\* The cookies of a refused browser are left as they are.
HandleGuarded(r) ==
    LET q == net[r]
        p == q.cookies.refresh IN
    /\ q.pc = "sent" /\ q.kind = "guarded"
    /\ \/ /\ q.cookies.access # Nil
          /\ Reply(r, [q EXCEPT !.body = "ok"])
          /\ UNCHANGED <<serial, live>>
       \/ /\ q.cookies.access = Nil /\ p # Nil
          /\ p.session \in live /\ p.serial = serial[p.session] /\ p.serial < MaxSerial
          /\ serial' = [serial EXCEPT ![p.session] = @ + 1]
          /\ Reply(r, [q EXCEPT !.tokens = Forwarded(Successor(p)), !.body = "ok"])
          /\ UNCHANGED live
       \/ /\ q.cookies.access = Nil /\ p # Nil
          /\ p.session \notin live \/ p.serial # serial[p.session]
          /\ live' = live \ {p.session}
          /\ Reply(r, [q EXCEPT !.body = "refused"])
          /\ UNCHANGED serial
       \/ /\ q.cookies.access = Nil /\ p = Nil
          /\ Reply(r, [q EXCEPT !.body = "refused"])
          /\ UNCHANGED <<serial, live>>
    /\ KeepBrowser
    /\ UNCHANGED <<owner, replayed>>

\* GET /authorize/:provider.
HandleAuthorize(r) ==
    LET q == net[r] IN
    /\ q.pc = "sent" /\ q.kind = "authorize"
    /\ Reply(r, [q EXCEPT !.body = "ok"])
    /\ KeepBrowser
    /\ UNCHANGED <<owner, serial, live, replayed>>

\* The cookies of the round trip, which a callback that succeeds deletes.
RoundTrip == {"state"}

\* GET /callback/:provider: the state must be the one in the cookie, and the
\* exchange with the provider must succeed.
HandleCallback(r) ==
    LET q == net[r] IN
    /\ q.pc = "sent" /\ q.kind = "callback"
    /\ \/ /\ q.state = q.cookies.state
          /\ \E s \in Session :
                /\ Open(q.user, s)
                /\ Reply(r, [q EXCEPT !.tokens = [session |-> s, serial |-> 0],
                                       !.deleted = RoundTrip, !.body = "ok"])
          /\ replayed' = (replayed \/ q.replay)
       \/ Reply(r, [q EXCEPT !.body = "refused"]) /\ UNCHANGED <<owner, live, replayed>>
    /\ KeepBrowser
    /\ UNCHANGED serial

-----------------------------------------------------------------------------
(* Answers reach the browser.                                              *)

\* writeAuthCookies.
TokensWritten == {"access", "refresh", "csrf"}

\* The Set-Cookie lines of an answer, as the browser applies them.
After(a) ==
    LET Kept(name) == IF name \in a.deleted THEN NoCookies[name] ELSE jar[name]
        Pair1(name) == IF a.tokens # Nil /\ name \in TokensWritten THEN a.tokens ELSE Kept(name) IN
    [access |-> Pair1("access"), refresh |-> Pair1("refresh"),
     csrf |-> (a.tokens # Nil /\ "csrf" \in TokensWritten) \/ Kept("csrf"),
     pending |-> IF a.pending # Nil THEN a.pending ELSE Kept("pending"),
     state |-> IF a.kind = "authorize" THEN a.state ELSE Kept("state")]

Alone(r) == \A q \in Request \ {r} : net[q] = Free

KeepServer == UNCHANGED <<owner, serial, live, replayed>>

\* The answer is in; a hook that goes on to refresh the provider sends that with
\* the cookies it brought.
Settle(r, refresh) ==
    LET j == After(net[r]) IN
    /\ jar' = j
    /\ net' = [net EXCEPT ![r] = IF refresh THEN [Free EXCEPT !.pc = "sent", !.kind = "session",
                                                             !.cookies.access = j.access]
                                 ELSE Free]
    /\ crossed' = (crossed /\ ~(net[r].kind \in {"signin", "verify", "callback"}
                                /\ net[r].tokens # Nil /\ ~Busy(r, Writers)))

\* signIn of the React hook: the session of the answer, then refresh.  A pending
\* answer and an error change nothing the provider holds.
ReceiveSignIn(r) ==
    LET a == net[r] IN
    /\ a.pc = "answered" /\ a.kind \in {"signin", "verify"}
    /\ Settle(r, a.body = "ok")
    /\ view' = IF a.kind = "signin" /\ a.body = "ok" THEN Owner(a.tokens) ELSE view
    /\ UNCHANGED <<away, signedOut, settled>>
    /\ KeepServer

\* signOut of the React hook.
ReceiveSignOut(r) ==
    LET a == net[r] IN
    /\ a.pc = "answered" /\ a.kind = "signout"
    /\ Settle(r, FALSE)
    /\ view' = IF a.body = "ok" THEN Nil ELSE view
    /\ signedOut' = (signedOut \/ (a.body = "ok" /\ Alone(r)))
    /\ UNCHANGED <<away, settled>>
    /\ KeepServer

\* refresh of the provider: whichever answer comes last is shown, and the answer
\* to a browser that is signed out, {session: null}, is a session to it.
ReceiveSession(r) ==
    LET a == net[r] IN
    /\ a.pc = "answered" /\ a.kind = "session"
    /\ Settle(r, FALSE)
    /\ view' = IF a.body = Nil THEN "guest" ELSE a.body
    /\ UNCHANGED <<away, signedOut, settled>>
    /\ KeepServer

\* The page or the data; a browser sent to the sign-in page keeps its cookies.
ReceiveGuarded(r) ==
    /\ net[r].pc = "answered" /\ net[r].kind = "guarded"
    /\ Settle(r, FALSE)
    /\ UNCHANGED <<away, view, signedOut, settled>>
    /\ KeepServer

\* The browser is off to the provider, with the state in a cookie.
ReceiveAuthorize(r) ==
    /\ net[r].pc = "answered" /\ net[r].kind = "authorize"
    /\ Settle(r, FALSE)
    /\ away' = away \cup {net[r].state}
    /\ UNCHANGED <<view, signedOut, settled>>
    /\ KeepServer

\* A page load: the provider starts again and asks for its session.
ReceiveCallback(r) ==
    LET a == net[r] IN
    /\ a.pc = "answered" /\ a.kind = "callback"
    /\ Settle(r, a.body = "ok")
    /\ view' = Nil
    /\ settled' = IF a.body = "ok" THEN settled \cup {a.state} ELSE settled
    /\ UNCHANGED <<away, signedOut>>
    /\ KeepServer

\* The network fails before or after the server has handled the request; the
\* provider takes that for no session.
Lose(r) ==
    LET a == net[r] IN
    /\ a # Free
    /\ net' = [net EXCEPT ![r] = Free]
    /\ view' = IF a.kind = "session" THEN Nil ELSE view
    /\ crossed' = (crossed \/ (a.kind \in Writers /\ a.pc = "answered"))
    /\ UNCHANGED <<jar, away, signedOut, settled>>
    /\ KeepServer

\* accessTtl has passed: the cookie goes, and the copies in requests verify no
\* more.  An answer takes less than accessTtl to arrive.
AccessLapses ==
    LET p == jar.access IN
    /\ p # Nil /\ \A q \in Request : net[q].tokens # p
    /\ jar' = [jar EXCEPT !.access = Nil]
    /\ net' = [q \in Request |->
                  IF net[q].cookies.access = p THEN [net[q] EXCEPT !.cookies.access = Nil] ELSE net[q]]
    /\ UNCHANGED <<away, view, crossed, signedOut, settled>>
    /\ KeepServer

\* The session is ended from elsewhere: a password change, a deletion, reuse.
RevokedElsewhere(s) ==
    /\ s \in live /\ live' = live \ {s}
    /\ UNCHANGED <<owner, serial, jar, away, net, view, crossed, signedOut, settled, replayed>>

BrowserNext ==
    \/ \E r \in Request :
          \/ \E u \in Visitor : SendSignIn(r, u) \/ \E st \in State : SendCallback(r, st, u)
          \/ SendVerify(r) \/ SendSignOut(r) \/ SendSession(r) \/ SendGuarded(r)
          \/ \E st \in State : SendAuthorize(r, st)
          \/ HandleSignIn(r) \/ HandleVerify(r) \/ HandleSignOut(r) \/ HandleSession(r)
          \/ HandleGuarded(r) \/ HandleAuthorize(r) \/ HandleCallback(r)
          \/ ReceiveSignIn(r) \/ ReceiveSignOut(r) \/ ReceiveSession(r)
          \/ ReceiveGuarded(r) \/ ReceiveAuthorize(r) \/ ReceiveCallback(r)
          \/ Lose(r)
    \/ AccessLapses
    \/ \E s \in Session : RevokedElsewhere(s)

-----------------------------------------------------------------------------
(* Properties.                                                             *)

\* While no answer is awaited and none has crossed another or been lost since the
\* sign-in, the browser holds the refresh token the server expects, so that the
\* next rotation is not taken for reuse; and both cookies are of one pair
\* (middleware.ts:37-46 "keeping the user signed in across page reloads").
JarIsCurrent ==
    ~crossed /\ (\A r \in Request : net[r].kind \notin Writers) =>
        /\ jar.refresh # Nil => jar.refresh.serial = serial[jar.refresh.session]
        /\ jar.access # Nil => jar.refresh = jar.access

\* A sign-out with nothing else in flight leaves no cookie of a session and no
\* session in the provider, whatever is loaded afterwards, until somebody signs in
\* (dispatch.ts:318-326, cookies.ts:38-43, react index.ts:284-300).
StaysSignedOut ==
    signedOut =>
        /\ jar.access = Nil /\ jar.refresh = Nil /\ ~jar.csrf /\ jar.pending = Nil
        /\ view \notin Visitor

\* Nobody is signed in by what is merely loaded: after a sign-out as above, or by
\* loading the callback's address again after its answer, when the cookies of the
\* round trip are gone (dispatch.ts:271-290).
OnlySignInsSignIn == StaysSignedOut /\ ~replayed

=============================================================================
